--------------------------- MODULE BreakerState ---------------------------
(***************************************************************************)
(* TimingWindowCircuitBreakerState: what a circuit breaker knows of one    *)
(* service, as a record, and what each notification makes of it.  When a   *)
(* notification comes, the samples that have left the window are purged    *)
(* first; how many these are, k, is for the modules with a notion of time  *)
(* to say.                                                                 *)
(***************************************************************************)
EXTENDS Integers, Sequences, FiniteSets

CONSTANTS
  MinSamples,  \* fewer samples count as an error rate of 0 (5 in the code)
  ErrorNum,    \* errorThresholdPercentage is ErrorNum / ErrorDen
  ErrorDen

\* Without a positive threshold the first failure opens the breaker.
ASSUME ThresholdAssumption ==
  MinSamples \in Nat /\ ErrorNum \in Nat \ {0} /\ ErrorDen \in Nat \ {0}

BreakerStates == {"CLOSED", "OPEN", "HALF_OPEN"}

\* A sample is an outcome and its age.
Sample == [ok : BOOLEAN, age : Nat]

Breaker ==
  [state : BreakerStates,
   window : Seq(Sample),    \* currentWindow
   successes : Int,         \* currentSuccessfulCount
   failures : Int,          \* currentFailedCount
   scheduled : BOOLEAN]     \* hasHalfOpenBreakerEventScheduled

NewBreaker ==
  [state |-> "CLOSED", window |-> <<>>, successes |-> 0, failures |-> 0,
   scheduled |-> FALSE]

\* The samples of a window with a given outcome
Outcomes(w, ok) == {j \in DOMAIN w : w[j].ok = ok}

\* Mutant: the failures that leave the window are still counted.
PurgedSuccesses(b, k) ==
  [b EXCEPT !.window = SubSeq(@, k + 1, Len(@)),
            !.successes = @ - Cardinality({j \in 1..k : b.window[j].ok = TRUE})]

NothingPurged(b, k) == b \* mutant: samples never leave the window

\* purgeStateList: the first k samples leave the window.
Purged(b, k) ==
  [b EXCEPT !.window = SubSeq(@, k + 1, Len(@)),
            !.successes = @ - Cardinality({j \in 1..k : b.window[j].ok = TRUE}),
            !.failures = @ - Cardinality({j \in 1..k : b.window[j].ok = FALSE})]

\* Mutant: a new sample is put before the others.
AddedFirst(b, ok) ==
  [b EXCEPT !.window = <<[ok |-> ok, age |-> 0]>> \o @,
            !.successes = @ + IF ok THEN 1 ELSE 0,
            !.failures = @ + IF ok THEN 0 ELSE 1]

\* addToStateList
Added(b, ok) ==
  [b EXCEPT !.window = Append(@, [ok |-> ok, age |-> 0]),
            !.successes = @ + IF ok THEN 1 ELSE 0,
            !.failures = @ + IF ok THEN 0 ELSE 1]

\* The breaker closes and starts afresh: resetState.
Closed(b) ==
  [b EXCEPT !.state = "CLOSED", !.window = <<>>, !.successes = 0, !.failures = 0]

\* checkErrorRate with getErrorRate
RateReached(b) ==
  LET total == b.successes + b.failures
  IN  total >= MinSamples /\ b.failures * ErrorDen >= ErrorNum * total

\* openBreaker; a half-open event is scheduled unless there is one.
Opened(b) == [b EXCEPT !.state = "OPEN", !.scheduled = TRUE]

\* notifySuccessfulCompletion
Succeeded(b, k) ==
  LET p == Purged(b, k)
  IN  Added(IF p.state = "HALF_OPEN" THEN Closed(p) ELSE p, TRUE)

\* notifyArrivalFailure
FailedCall(b, k) ==
  LET p == Purged(b, k)
      q == Added(p, FALSE)
  IN  IF p.state = "HALF_OPEN" THEN Opened(p)
      ELSE IF RateReached(q) THEN Opened(q) ELSE q

\* Mutant: the event is not forgotten.
HalfOpenedOnly(b) == [b EXCEPT !.state = "HALF_OPEN"]

\* toHalfOpen
HalfOpened(b) == [b EXCEPT !.state = "HALF_OPEN", !.scheduled = FALSE]
=============================================================================
