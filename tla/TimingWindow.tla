--------------------------- MODULE TimingWindow ---------------------------
(***************************************************************************)
(* The circuit breaker of one service in time.  Calls to the service       *)
(* succeed and fail at any time, whatever the state of the breaker: calls  *)
(* that were under way when it opened report later, and the calls an open  *)
(* breaker rejects are reported as failures.  Instead of a clock, samples  *)
(* have an age and the half-open event a remaining delay.                  *)
(***************************************************************************)
EXTENDS BreakerState

CONSTANTS
  WindowLength, \* rollingWindow
  SleepWindow,  \* sleepWindow
  MaxSamples    \* bound: samples in the window

ASSUME TimeAssumption ==
  WindowLength \in Nat /\ SleepWindow \in Nat /\ MaxSamples \in Nat

VARIABLES
  breaker,  \* the TimingWindowCircuitBreakerState
  events    \* the remaining delays of the scheduled HalfOpenBreakerEvents

vars == <<breaker, events>>

Init == breaker = NewBreaker /\ events = {}

\* The first k samples, and not the one after them, are too old.
TooOld(w, k) ==
  /\ \A j \in 1..k : w[j].age > WindowLength
  /\ k < Len(w) => w[k + 1].age <= WindowLength

\* Mutant: an opened breaker always schedules a half-open event.
SchedulesAlways(b, c) == c.scheduled

\* Has the breaker been opened, with no half-open event scheduled before?
Schedules(b, c) == c.scheduled /\ ~b.scheduled

\* A notification that purges k samples makes the breaker c.  A half-open
\* event is executed before anything else of its instant.
Notify(k, c) ==
  /\ 0 \notin events
  /\ TooOld(breaker.window, k)
  /\ Len(breaker.window) - k < MaxSamples
  /\ breaker' = c
  /\ events' = IF Schedules(breaker, c) THEN events \cup {SleepWindow} ELSE events

NotifySuccessfulCompletion ==
  \E k \in 0..Len(breaker.window) : Notify(k, Succeeded(breaker, k))

NotifyArrivalFailure ==
  \E k \in 0..Len(breaker.window) : Notify(k, FailedCall(breaker, k))

\* HalfOpenBreakerEvent.onRoutineExecution
ToHalfOpen ==
  /\ 0 \in events
  /\ breaker' = HalfOpened(breaker)
  /\ events' = events \ {0}

\* A sample's age matters only until it has left the window.
Older(s) == [s EXCEPT !.age = IF @ > WindowLength THEN @ ELSE @ + 1]

\* Time passes.
Tick ==
  /\ 0 \notin events
  /\ breaker' = [breaker EXCEPT !.window = [j \in DOMAIN @ |-> Older(@[j])]]
  /\ events' = {t - 1 : t \in events}

Next ==
  \/ NotifySuccessfulCompletion
  \/ NotifyArrivalFailure
  \/ ToHalfOpen
  \/ Tick

Spec == Init /\ [][Next]_vars

\* Simulated time passes and scheduled events are executed.
FairSpec == Spec /\ WF_vars(Tick) /\ WF_vars(ToHalfOpen)

-----------------------------------------------------------------------------
(* Properties.                                                             *)

TypeOK == breaker \in Breaker /\ events \subseteq 0..SleepWindow

\* A breaker is open exactly while one half-open event is scheduled, which
\* will reach it: no event of an earlier opening arrives at a breaker that
\* is not open (openBreaker, toHalfOpen and hasHalfOpenBreakerEventScheduled).
OpenIffScheduled ==
  /\ breaker.state = "OPEN" <=> breaker.scheduled
  /\ IF breaker.scheduled THEN \E t \in 0..SleepWindow : events = {t}
     ELSE events = {}

\* The two counters are the numbers of successes and failures in the window.
WindowCounted ==
  /\ breaker.successes = Cardinality(Outcomes(breaker.window, TRUE))
  /\ breaker.failures = Cardinality(Outcomes(breaker.window, FALSE))

\* Samples are in the order of time, so that purging the head of the window
\* purges all that is too old (purgeStateList).
WindowOrdered ==
  LET w == breaker.window
  IN  \A j, l \in DOMAIN w : j <= l => w[l].age <= w[j].age

\* Checked with TLC and proved to be inductive in TimingWindowProofs: state,
\* counters, window and event list of a breaker agree.
WindowInvariant ==
  /\ TypeOK
  /\ OpenIffScheduled
  /\ WindowCounted
  /\ WindowOrdered

\* A closed breaker opens only when, of the calls it was told of in the last
\* WindowLength, there are enough and too many of them failed.
OpensOnErrors ==
  [][breaker.state = "CLOSED" /\ breaker'.state = "OPEN" =>
       LET w == breaker'.window
           recent == {j \in DOMAIN w : w[j].age <= WindowLength}
           failed == recent \cap Outcomes(w, FALSE)
       IN  /\ Cardinality(recent) >= MinSamples
           /\ Cardinality(failed) * ErrorDen >= ErrorNum * Cardinality(recent)]_vars

\* An open breaker gives the service another chance.
HalfOpensAgain == breaker.state = "OPEN" ~> breaker.state = "HALF_OPEN"
=============================================================================
