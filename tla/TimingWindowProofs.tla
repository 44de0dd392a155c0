------------------------ MODULE TimingWindowProofs ------------------------
(***************************************************************************)
(* WindowInvariant is an inductive invariant of TimingWindow, and a closed *)
(* breaker opens only on errors, for every window, threshold and delay.    *)
(***************************************************************************)
EXTENDS TimingWindow, TLAPS, FiniteSetTheorems

-----------------------------------------------------------------------------
(* Counting the outcomes in a window.                                      *)

\* The samples of a window with one outcome are finitely many.
LEMMA OutcomesFinite ==
  ASSUME NEW w \in Seq(Sample), NEW ok \in BOOLEAN
  PROVE  /\ IsFiniteSet(Outcomes(w, ok))
         /\ Cardinality(Outcomes(w, ok)) \in Nat
  <1>1. Outcomes(w, ok) \in SUBSET (1..Len(w)) /\ Len(w) \in Nat
    BY DEF Outcomes
  <1>2. IsFiniteSet(1..Len(w))
    BY <1>1, FS_Interval
  <1>3. IsFiniteSet(Outcomes(w, ok))
    BY <1>1, <1>2, FS_Subset
  <1> QED
    BY <1>3, FS_CardinalityType

\* A sample that is added counts for its outcome (addToStateList).
LEMMA OutcomesAppend ==
  ASSUME NEW w \in Seq(Sample), NEW s \in Sample, NEW ok \in BOOLEAN
  PROVE  Cardinality(Outcomes(Append(w, s), ok)) =
           Cardinality(Outcomes(w, ok)) + IF s.ok = ok THEN 1 ELSE 0
  <1> DEFINE n == Len(w) + 1
  <1>1. /\ Len(w) \in Nat /\ DOMAIN w = 1..Len(w) /\ DOMAIN Append(w, s) = 1..n
        /\ \A j \in 1..Len(w) : Append(w, s)[j] = w[j]
        /\ Append(w, s)[n] = s
    OBVIOUS
  <1>2. n \notin Outcomes(w, ok)
    BY <1>1 DEF Outcomes
  <1>3. CASE s.ok = ok
    <2>1. Outcomes(Append(w, s), ok) = Outcomes(w, ok) \cup {n}
      BY <1>1, <1>3 DEF Outcomes
    <2>2. Cardinality(Outcomes(w, ok) \cup {n}) = Cardinality(Outcomes(w, ok)) + 1
      BY <1>2, OutcomesFinite, FS_AddElement
    <2> QED
      BY <1>3, <2>1, <2>2
  <1>4. CASE s.ok # ok
    <2>1. Outcomes(Append(w, s), ok) = Outcomes(w, ok)
      BY <1>1, <1>4 DEF Outcomes
    <2> QED
      BY <1>4, <2>1, OutcomesFinite
  <1> QED
    BY <1>3, <1>4

\* Shifting a set of numbers keeps its size.
LEMMA ShiftCardinality ==
  ASSUME NEW S, NEW T, IsFiniteSet(S), NEW k \in Nat,
         S \subseteq Int, T = {j - k : j \in S}
  PROVE  Cardinality(T) = Cardinality(S)
  <1> DEFINE f == [j \in S |-> j - k]
  <1>1. f \in Bijection(S, T)
    <2>1. f \in [S -> T] /\ \A j \in S : f[j] = j - k
      OBVIOUS
    <2>2. \A a, b \in S : f[a] = f[b] => a = b
      BY <2>1
    <2>3. \A t \in T : \E j \in S : f[j] = t
      BY <2>1
    <2> HIDE DEF f
    <2> QED
      BY <2>1, <2>2, <2>3 DEF Bijection, Injection, Surjection, IsInjective
  <1>2. ExistsBijection(S, T)
    BY <1>1 DEF ExistsBijection
  <1> QED
    BY <1>2, FS_Bijection

\* What is counted after purging k samples is what was counted before
\* without those (purgeStateList).
LEMMA OutcomesPurged ==
  ASSUME NEW w \in Seq(Sample), NEW k \in 0..Len(w), NEW ok \in BOOLEAN
  PROVE  Cardinality(Outcomes(SubSeq(w, k + 1, Len(w)), ok)) =
           Cardinality(Outcomes(w, ok))
             - Cardinality({j \in 1..k : w[j].ok = ok})
  <1> DEFINE head == {j \in 1..k : w[j].ok = ok}
             rest == {j \in (k + 1)..Len(w) : w[j].ok = ok}
             v == SubSeq(w, k + 1, Len(w))
  <1>1. /\ Len(w) \in Nat /\ k \in Nat /\ k <= Len(w) /\ DOMAIN w = 1..Len(w)
    OBVIOUS
  <1>2. /\ DOMAIN v = 1..(Len(w) - k)
        /\ \A j \in 1..(Len(w) - k) : v[j] = w[j + k]
    BY <1>1
  <1>3. Outcomes(w, ok) = head \cup rest /\ head \cap rest = {}
    BY <1>1 DEF Outcomes
  <1>4. IsFiniteSet(head) /\ IsFiniteSet(rest)
    <2>1. head \in SUBSET Outcomes(w, ok) /\ rest \in SUBSET Outcomes(w, ok)
      BY <1>3
    <2> QED
      BY <2>1, OutcomesFinite, FS_Subset
  <1>5. Cardinality(head) \in Nat /\ Cardinality(rest) \in Nat
    BY <1>4, FS_CardinalityType
  <1>6. Cardinality(Outcomes(w, ok)) = Cardinality(head) + Cardinality(rest)
    <2>1. Cardinality(head \cup rest) =
            Cardinality(head) + Cardinality(rest) - Cardinality(head \cap rest)
      BY <1>4, FS_Union
    <2>2. Cardinality(head \cap rest) = 0
      BY <1>3, FS_EmptySet
    <2> HIDE DEF head, rest
    <2> QED
      BY <1>3, <1>5, <2>1, <2>2
  <1>7. Outcomes(v, ok) = {j - k : j \in rest}
    <2>1. ASSUME NEW j \in Outcomes(v, ok)
          PROVE  j \in {l - k : l \in rest}
      <3>1. j \in 1..(Len(w) - k) /\ v[j].ok = ok
        BY <1>2, <2>1 DEF Outcomes
      <3>2. j + k \in rest
        BY <1>1, <1>2, <3>1
      <3>3. j = (j + k) - k
        BY <1>1, <3>1
      <3> QED
        BY <3>2, <3>3
    <2>2. ASSUME NEW l \in rest
          PROVE  l - k \in Outcomes(v, ok)
      <3>1. l - k \in 1..(Len(w) - k) /\ (l - k) + k = l
        BY <1>1
      <3>2. v[l - k] = w[l]
        BY <1>2, <3>1
      <3> HIDE DEF v
      <3> QED
        BY <1>2, <3>1, <3>2 DEF Outcomes
    <2> QED
      BY <2>1, <2>2
  <1>8. Cardinality(Outcomes(v, ok)) = Cardinality(rest)
    <2>1. rest \subseteq Int
      BY <1>1
    <2> HIDE DEF rest, v
    <2> QED
      BY <1>1, <1>4, <1>7, <2>1, ShiftCardinality, ZenonT(40)
  <1> HIDE DEF head, rest, v
  <1> QED
    BY <1>5, <1>6, <1>8 DEF head, v

-----------------------------------------------------------------------------
(* What a notification makes of a breaker.                                 *)

\* Do the counters of b count its window, whose samples are in order?
Counted(b) ==
  /\ b.successes = Cardinality(Outcomes(b.window, TRUE))
  /\ b.failures = Cardinality(Outcomes(b.window, FALSE))

Ordered(w) == \A j, l \in DOMAIN w : j <= l => w[l].age <= w[j].age

\* Every sample of w is in the window.
AllRecent(w) == \A j \in DOMAIN w : w[j].age <= WindowLength

\* A record with the fields of a breaker is one.
LEMMA IsBreaker ==
  ASSUME NEW x \in BreakerStates, NEW v \in Seq(Sample), NEW y \in Nat,
         NEW z \in Nat, NEW c \in BOOLEAN
  PROVE  [state |-> x, window |-> v, successes |-> y, failures |-> z,
          scheduled |-> c] \in Breaker
  <1> y \in Int /\ z \in Int
    OBVIOUS
  <1> QED
    BY Zenon DEF Breaker

\* purgeStateList keeps the counters right, and what it keeps is recent.
LEMMA PurgedFacts ==
  ASSUME NEW b \in Breaker, Counted(b), Ordered(b.window),
         NEW k \in 0..Len(b.window), TooOld(b.window, k)
  PROVE  /\ Purged(b, k) \in Breaker
         /\ Purged(b, k).state = b.state /\ Purged(b, k).scheduled = b.scheduled
         /\ Counted(Purged(b, k))
         /\ Ordered(Purged(b, k).window) /\ AllRecent(Purged(b, k).window)
  <1> DEFINE w == b.window
             v == SubSeq(w, k + 1, Len(w))
             s == Cardinality({j \in 1..k : w[j].ok = TRUE})
             f == Cardinality({j \in 1..k : w[j].ok = FALSE})
  <1>1. /\ w \in Seq(Sample) /\ Len(w) \in Nat /\ k \in Nat /\ k <= Len(w)
        /\ b.state \in BreakerStates /\ b.scheduled \in BOOLEAN
        /\ b.successes \in Int /\ b.failures \in Int
    BY DEF Breaker
  <1>2. /\ v \in Seq(Sample) /\ DOMAIN v = 1..(Len(w) - k)
        /\ \A j \in 1..(Len(w) - k) : v[j] = w[j + k]
    <2> HIDE DEF w
    <2> QED
      BY <1>1
  <1>3. /\ Cardinality(Outcomes(v, TRUE)) = b.successes - s
        /\ Cardinality(Outcomes(v, FALSE)) = b.failures - f
    BY <1>1, OutcomesPurged DEF Counted
  <1>4. Cardinality(Outcomes(v, TRUE)) \in Nat /\ Cardinality(Outcomes(v, FALSE)) \in Nat
    <2> HIDE DEF v
    <2> QED
      BY <1>2, OutcomesFinite
  <1>5. Purged(b, k) = [b EXCEPT !.window = v, !.successes = b.successes - s,
                                 !.failures = b.failures - f]
    BY DEF Purged, Breaker
  <1>6. Purged(b, k) = [state |-> b.state, window |-> v,
                        successes |-> Cardinality(Outcomes(v, TRUE)),
                        failures |-> Cardinality(Outcomes(v, FALSE)),
                        scheduled |-> b.scheduled]
    <2> HIDE DEF v, s, f
    <2> QED
      BY <1>3, <1>5 DEF Breaker
  <1>7. Ordered(v)
    <2> SUFFICES ASSUME NEW j \in DOMAIN v, NEW l \in DOMAIN v, j <= l
                 PROVE  v[l].age <= v[j].age
      BY DEF Ordered
    <2>1. j + k \in DOMAIN w /\ l + k \in DOMAIN w /\ j + k <= l + k
      BY <1>1, <1>2
    <2>2. w[l + k].age <= w[j + k].age
      BY <2>1 DEF Ordered
    <2> HIDE DEF v, w
    <2> QED
      BY <1>2, <2>2
  <1>8. AllRecent(v)
    <2> SUFFICES ASSUME NEW j \in DOMAIN v
                 PROVE  v[j].age <= WindowLength
      BY DEF AllRecent
    <2>1. j + k \in DOMAIN w /\ k + 1 \in DOMAIN w /\ k + 1 <= j + k /\ k < Len(w)
      BY <1>1, <1>2
    <2>2. w[j + k].age <= w[k + 1].age
      BY <2>1 DEF Ordered
    <2>3. w[k + 1].age <= WindowLength
      BY <2>1 DEF TooOld
    <2>4. w[j + k].age \in Nat /\ w[k + 1].age \in Nat
      <3>1. w[j + k] \in Sample /\ w[k + 1] \in Sample
        <4> HIDE DEF w
        <4> QED
          BY <1>1, <2>1
      <3> QED
        BY <3>1 DEF Sample
    <2>5. v[j] = w[j + k]
      BY <1>2
    <2> HIDE DEF v, w
    <2> QED
      BY <2>2, <2>3, <2>4, <2>5, TimeAssumption
  <1> HIDE DEF v, w
  <1>9. Purged(b, k) \in Breaker
    BY <1>1, <1>2, <1>4, <1>6, IsBreaker, ZenonT(40)
  <1>10. Counted(Purged(b, k))
    BY <1>6 DEF Counted
  <1> QED
    BY <1>6, <1>7, <1>8, <1>9, <1>10

\* addToStateList keeps the counters right.
LEMMA AddedFacts ==
  ASSUME NEW b \in Breaker, Counted(b), Ordered(b.window),
         AllRecent(b.window), NEW ok \in BOOLEAN
  PROVE  /\ Added(b, ok) \in Breaker
         /\ Added(b, ok).state = b.state /\ Added(b, ok).scheduled = b.scheduled
         /\ Counted(Added(b, ok))
         /\ Ordered(Added(b, ok).window) /\ AllRecent(Added(b, ok).window)
  <1> DEFINE w == b.window
             e == [ok |-> ok, age |-> 0]
             v == Append(w, e)
  <1>1. /\ w \in Seq(Sample) /\ Len(w) \in Nat /\ e \in Sample
        /\ b.state \in BreakerStates /\ b.scheduled \in BOOLEAN
        /\ b.successes \in Int /\ b.failures \in Int
    BY DEF Breaker, Sample
  <1>2. /\ v \in Seq(Sample) /\ DOMAIN v = 1..(Len(w) + 1)
        /\ \A j \in 1..Len(w) : v[j] = w[j]
        /\ v[Len(w) + 1] = e /\ DOMAIN w = 1..Len(w)
    <2> HIDE DEF w, e
    <2> QED
      BY <1>1
  <1>3. /\ Cardinality(Outcomes(v, TRUE)) = b.successes + IF ok THEN 1 ELSE 0
        /\ Cardinality(Outcomes(v, FALSE)) = b.failures + IF ok THEN 0 ELSE 1
    <2>1. /\ Cardinality(Outcomes(v, TRUE)) =
               Cardinality(Outcomes(w, TRUE)) + IF e.ok = TRUE THEN 1 ELSE 0
          /\ Cardinality(Outcomes(v, FALSE)) =
               Cardinality(Outcomes(w, FALSE)) + IF e.ok = FALSE THEN 1 ELSE 0
      <3> HIDE DEF w, e
      <3> QED
        BY <1>1, OutcomesAppend
    <2> HIDE DEF v
    <2> QED
      BY <2>1 DEF Counted
  <1>4. Added(b, ok) = [state |-> b.state, window |-> v,
                        successes |-> Cardinality(Outcomes(v, TRUE)),
                        failures |-> Cardinality(Outcomes(v, FALSE)),
                        scheduled |-> b.scheduled]
    <2>1. Added(b, ok) = [b EXCEPT !.window = v,
                            !.successes = b.successes + IF ok THEN 1 ELSE 0,
                            !.failures = b.failures + IF ok THEN 0 ELSE 1]
      BY DEF Added, Breaker
    <2> HIDE DEF v
    <2> QED
      BY <1>3, <2>1 DEF Breaker
  <1>5. Cardinality(Outcomes(v, TRUE)) \in Nat /\ Cardinality(Outcomes(v, FALSE)) \in Nat
    <2> HIDE DEF v
    <2> QED
      BY <1>2, OutcomesFinite
  <1>6. Ordered(v)
    <2> SUFFICES ASSUME NEW j \in DOMAIN v, NEW l \in DOMAIN v, j <= l
                 PROVE  v[l].age <= v[j].age
      BY DEF Ordered
    <2>1. CASE l <= Len(w)
      <3>1. v[l] = w[l] /\ v[j] = w[j] /\ j \in DOMAIN w /\ l \in DOMAIN w
        BY <1>1, <1>2, <2>1
      <3> QED
        BY <3>1 DEF Ordered
    <2>2. CASE l = Len(w) + 1
      <3>1. v[l].age = 0
        BY <1>2, <2>2
      <3>2. v[j].age \in Nat
        <4>1. v[j] \in Sample
          <5> HIDE DEF v
          <5> QED
            BY <1>2
        <4> QED
          BY <4>1 DEF Sample
      <3> QED
        BY <3>1, <3>2
    <2> QED
      BY <1>1, <1>2, <2>1, <2>2
  <1>7. AllRecent(v)
    <2> SUFFICES ASSUME NEW j \in DOMAIN v
                 PROVE  v[j].age <= WindowLength
      BY DEF AllRecent
    <2>1. CASE j <= Len(w)
      BY <1>1, <1>2, <2>1 DEF AllRecent
    <2>2. CASE j = Len(w) + 1
      BY <1>2, <2>2, TimeAssumption
    <2> QED
      BY <1>1, <1>2, <2>1, <2>2
  <1> HIDE DEF v, w, e
  <1>8. Added(b, ok) \in Breaker
    BY <1>1, <1>2, <1>4, <1>5, IsBreaker, ZenonT(40)
  <1>9. Counted(Added(b, ok))
    BY <1>4 DEF Counted
  <1> QED
    BY <1>4, <1>6, <1>7, <1>8, <1>9

\* resetState
LEMMA ClosedFacts ==
  ASSUME NEW b \in Breaker
  PROVE  /\ Closed(b) \in Breaker
         /\ Closed(b).state = "CLOSED" /\ Closed(b).scheduled = b.scheduled
         /\ Counted(Closed(b))
         /\ Ordered(Closed(b).window) /\ AllRecent(Closed(b).window)
  <1> DEFINE v == <<>>
  <1>1. v \in Seq(Sample) /\ DOMAIN v = {}
    OBVIOUS
  <1>2. Outcomes(v, TRUE) = {} /\ Outcomes(v, FALSE) = {}
    BY DEF Outcomes
  <1>3. "CLOSED" \in BreakerStates /\ b.scheduled \in BOOLEAN
    BY DEF Breaker, BreakerStates
  <1>4. Closed(b) = [b EXCEPT !.state = "CLOSED", !.window = v, !.successes = 0,
                              !.failures = 0]
    BY DEF Closed
  <1> HIDE DEF v
  <1>5. Closed(b) = [state |-> "CLOSED", window |-> v, successes |-> 0,
                     failures |-> 0, scheduled |-> b.scheduled]
    BY <1>4 DEF Breaker
  <1>6. Closed(b) \in Breaker
    BY <1>1, <1>3, <1>5, IsBreaker
  <1>7. Cardinality(Outcomes(v, TRUE)) = 0 /\ Cardinality(Outcomes(v, FALSE)) = 0
    BY <1>2, FS_EmptySet
  <1>8. Counted(Closed(b))
    <2>1. /\ Closed(b).window = v
          /\ Closed(b).successes = 0 /\ Closed(b).failures = 0
      BY <1>5
    <2> QED
      BY <1>7, <2>1, Zenon DEF Counted
  <1>9. Ordered(v) /\ AllRecent(v)
    BY <1>1 DEF Ordered, AllRecent
  <1> QED
    BY <1>5, <1>6, <1>8, <1>9

\* openBreaker changes neither counters nor window.
LEMMA OpenedFacts ==
  ASSUME NEW b \in Breaker
  PROVE  /\ Opened(b) \in Breaker
         /\ Opened(b).state = "OPEN" /\ Opened(b).scheduled = TRUE
         /\ Opened(b).window = b.window /\ Opened(b).successes = b.successes
         /\ Opened(b).failures = b.failures
  BY DEF Opened, Breaker, BreakerStates

\* A breaker as it is between two notifications
Sound(b) ==
  /\ b \in Breaker
  /\ b.state = "OPEN" <=> b.scheduled
  /\ Counted(b)
  /\ Ordered(b.window)

\* A success keeps the breaker sound and schedules no event
\* (notifySuccessfulCompletion).
LEMMA SucceededFacts ==
  ASSUME NEW b, Sound(b), NEW k \in 0..Len(b.window), TooOld(b.window, k)
  PROVE  /\ Sound(Succeeded(b, k))
         /\ Succeeded(b, k).scheduled = b.scheduled
         /\ Succeeded(b, k).state = "OPEN" => b.state = "OPEN"
  <1> DEFINE p == Purged(b, k)
             c == IF p.state = "HALF_OPEN" THEN Closed(p) ELSE p
  <1>1. /\ p \in Breaker /\ p.state = b.state /\ p.scheduled = b.scheduled
        /\ Counted(p) /\ Ordered(p.window) /\ AllRecent(p.window)
    BY PurgedFacts DEF Sound
  <1> HIDE DEF p
  <1>2. /\ Closed(p) \in Breaker
        /\ Closed(p).state = "CLOSED" /\ Closed(p).scheduled = p.scheduled
        /\ Counted(Closed(p))
        /\ Ordered(Closed(p).window) /\ AllRecent(Closed(p).window)
    BY <1>1, ClosedFacts
  <1>3. /\ c \in Breaker /\ c.scheduled = b.scheduled
        /\ c.state = "OPEN" <=> b.state = "OPEN"
        /\ Counted(c) /\ Ordered(c.window) /\ AllRecent(c.window)
    <2>1. CASE p.state = "HALF_OPEN"
      BY <1>1, <1>2, <2>1
    <2>2. CASE p.state # "HALF_OPEN"
      BY <1>1, <2>2
    <2> QED
      BY <2>1, <2>2
  <1>4. Succeeded(b, k) = Added(c, TRUE)
    BY DEF Succeeded, p
  <1> HIDE DEF c
  <1>5. /\ Added(c, TRUE) \in Breaker
        /\ Added(c, TRUE).state = c.state /\ Added(c, TRUE).scheduled = c.scheduled
        /\ Counted(Added(c, TRUE)) /\ Ordered(Added(c, TRUE).window)
    BY <1>3, AddedFacts
  <1> QED
    BY <1>3, <1>4, <1>5 DEF Sound

\* A failure keeps the breaker sound; it opens a closed breaker only if the
\* error rate of the recent calls has reached the threshold, and whoever opens
\* it has an event scheduled (notifyArrivalFailure).
LEMMA FailedFacts ==
  ASSUME NEW b, Sound(b), NEW k \in 0..Len(b.window), TooOld(b.window, k)
  PROVE  /\ Sound(FailedCall(b, k))
         /\ b.scheduled => FailedCall(b, k).scheduled
         /\ b.state = "CLOSED" /\ FailedCall(b, k).state = "OPEN" =>
              RateReached(FailedCall(b, k)) /\ AllRecent(FailedCall(b, k).window)
  <1> DEFINE p == Purged(b, k)
             q == Added(p, FALSE)
             c == FailedCall(b, k)
  <1>1. /\ p \in Breaker /\ p.state = b.state /\ p.scheduled = b.scheduled
        /\ Counted(p) /\ Ordered(p.window) /\ AllRecent(p.window)
    BY PurgedFacts DEF Sound
  <1>2. c = IF p.state = "HALF_OPEN" THEN Opened(p)
            ELSE IF RateReached(q) THEN Opened(q) ELSE q
    BY DEF FailedCall
  <1> HIDE DEF p, c
  <1>3. /\ q \in Breaker /\ q.state = p.state /\ q.scheduled = p.scheduled
        /\ Counted(q) /\ Ordered(q.window) /\ AllRecent(q.window)
    BY <1>1, AddedFacts
  <1> HIDE DEF q
  <1>4. CASE p.state = "HALF_OPEN"
    <2>1. c = Opened(p)
      BY <1>2, <1>4
    <2>2. /\ Opened(p) \in Breaker
          /\ Opened(p).state = "OPEN" /\ Opened(p).scheduled = TRUE
          /\ Opened(p).window = p.window /\ Opened(p).successes = p.successes
          /\ Opened(p).failures = p.failures
      BY <1>1, OpenedFacts
    <2>3. Sound(c)
      BY <1>1, <2>1, <2>2 DEF Sound, Counted
    <2> QED
      BY <1>1, <1>4, <2>1, <2>2, <2>3 DEF c
  <1>5. CASE p.state # "HALF_OPEN" /\ RateReached(q)
    <2>1. c = Opened(q)
      BY <1>2, <1>5
    <2>2. /\ Opened(q) \in Breaker
          /\ Opened(q).state = "OPEN" /\ Opened(q).scheduled = TRUE
          /\ Opened(q).window = q.window /\ Opened(q).successes = q.successes
          /\ Opened(q).failures = q.failures
      BY <1>3, OpenedFacts
    <2>3. Sound(c)
      BY <1>3, <2>1, <2>2 DEF Sound, Counted
    <2>4. RateReached(c) /\ AllRecent(c.window)
      BY <1>3, <1>5, <2>1, <2>2 DEF RateReached
    <2> QED
      BY <2>1, <2>2, <2>3, <2>4 DEF c
  <1>6. CASE p.state # "HALF_OPEN" /\ ~RateReached(q)
    <2>1. c = q
      BY <1>2, <1>6
    <2>2. Sound(c)
      BY <1>1, <1>3, <2>1 DEF Sound
    <2> QED
      BY <1>1, <1>3, <2>1, <2>2 DEF c
  <1> QED
    BY <1>4, <1>5, <1>6

-----------------------------------------------------------------------------
(* The inductive invariant.                                                *)

\* At most one event is scheduled, and it is scheduled if and only if the
\* breaker b says so.
EventsAgree(b, e) ==
  /\ e \subseteq 0..SleepWindow
  /\ IF b.scheduled THEN \E t \in 0..SleepWindow : e = {t} ELSE e = {}

\* WindowInvariant speaks of the breaker and of the events it scheduled.
LEMMA InvariantParts ==
  WindowInvariant <=> Sound(breaker) /\ EventsAgree(breaker, events)
  BY DEF WindowInvariant, TypeOK, OpenIffScheduled, WindowCounted, WindowOrdered,
         Sound, EventsAgree, Counted, Ordered

\* The same in the next state.
LEMMA InvariantPartsPrime ==
  WindowInvariant' <=> Sound(breaker') /\ EventsAgree(breaker', events')
  BY DEF WindowInvariant, TypeOK, OpenIffScheduled, WindowCounted, WindowOrdered,
         Sound, EventsAgree, Counted, Ordered

\* A new breaker is sound and has no event.
LEMMA InitInvariant == Init => WindowInvariant
  <1> DEFINE v == <<>>
  <1>1. v \in Seq(Sample) /\ DOMAIN v = {}
    OBVIOUS
  <1>2. Outcomes(v, TRUE) = {} /\ Outcomes(v, FALSE) = {}
    BY DEF Outcomes
  <1>3. /\ NewBreaker.state = "CLOSED" /\ NewBreaker.window = v
        /\ NewBreaker.successes = 0 /\ NewBreaker.failures = 0
        /\ NewBreaker.scheduled = FALSE
    BY DEF NewBreaker
  <1>4. NewBreaker = [state |-> "CLOSED", window |-> v, successes |-> 0,
                      failures |-> 0, scheduled |-> FALSE]
    BY DEF NewBreaker
  <1> HIDE DEF v
  <1>5. NewBreaker \in Breaker
    <2>1. "CLOSED" \in BreakerStates
      BY DEF BreakerStates
    <2> QED
      BY <1>1, <1>4, <2>1, IsBreaker
  <1>6. Cardinality(Outcomes(v, TRUE)) = 0 /\ Cardinality(Outcomes(v, FALSE)) = 0
    BY <1>2, FS_EmptySet
  <1>7. Counted(NewBreaker)
    BY <1>3, <1>6, Zenon DEF Counted
  <1>8. Ordered(NewBreaker.window)
    BY <1>1, <1>3 DEF Ordered
  <1>9. Sound(NewBreaker)
    BY <1>3, <1>5, <1>7, <1>8 DEF Sound
  <1>10. EventsAgree(NewBreaker, {})
    BY <1>3 DEF EventsAgree
  <1> QED
    BY <1>9, <1>10, InvariantParts DEF Init

\* A notification that leaves the breaker sound and its event scheduled
\* keeps the invariant.
LEMMA NotifyInvariant ==
  ASSUME WindowInvariant, NEW k, NEW c, Notify(k, c), Sound(c),
         breaker.scheduled => c.scheduled
  PROVE  WindowInvariant'
  <1>1. EventsAgree(breaker, events) /\ breaker' = c
    BY InvariantParts DEF Notify
  <1>2. c.scheduled \in BOOLEAN /\ breaker.scheduled \in BOOLEAN
    BY InvariantParts DEF Sound, Breaker
  <1>3. EventsAgree(c, events')
    <2>1. CASE Schedules(breaker, c)
      <3>1. events' = {SleepWindow}
        BY <1>1, <2>1 DEF Notify, Schedules, EventsAgree
      <3>2. SleepWindow \in 0..SleepWindow
        BY TimeAssumption
      <3> QED
        BY <2>1, <3>1, <3>2 DEF EventsAgree, Schedules
    <2>2. CASE ~Schedules(breaker, c)
      <3>1. events' = events
        BY <2>2 DEF Notify
      <3>2. c.scheduled = breaker.scheduled
        BY <1>2, <2>2 DEF Schedules
      <3> QED
        BY <1>1, <3>1, <3>2 DEF EventsAgree
    <2> QED
      BY <2>1, <2>2
  <1> QED
    BY <1>1, <1>3, InvariantPartsPrime

\* A half-open event reaches an open breaker, and is the only one.
LEMMA ToHalfOpenInvariant ==
  ASSUME WindowInvariant, ToHalfOpen
  PROVE  WindowInvariant'
  <1>1. Sound(breaker) /\ EventsAgree(breaker, events)
    BY InvariantParts
  <1>2. events = {0}
    BY <1>1 DEF EventsAgree, ToHalfOpen
  <1>3. events' = {} /\ breaker' = HalfOpened(breaker)
    BY <1>2 DEF ToHalfOpen
  <1>4. /\ breaker' \in Breaker
        /\ breaker'.state = "HALF_OPEN" /\ breaker'.scheduled = FALSE
        /\ breaker'.window = breaker.window
        /\ breaker'.successes = breaker.successes
        /\ breaker'.failures = breaker.failures
    BY <1>1, <1>3 DEF HalfOpened, Sound, Breaker, BreakerStates
  <1>5. Sound(breaker')
    BY <1>1, <1>4 DEF Sound, Counted
  <1>6. EventsAgree(breaker', events')
    BY <1>3, <1>4 DEF EventsAgree
  <1> QED
    BY <1>5, <1>6, InvariantPartsPrime

\* Growing older keeps outcome and order.
LEMMA OlderFacts ==
  ASSUME NEW s \in Sample
  PROVE  /\ Older(s) \in Sample /\ Older(s).ok = s.ok
         /\ Older(s).age = IF s.age > WindowLength THEN s.age ELSE s.age + 1
  BY DEF Older, Sample

\* When time passes the counters stay right and the samples in order.
LEMMA TickInvariant ==
  ASSUME WindowInvariant, Tick
  PROVE  WindowInvariant'
  <1> DEFINE w == breaker.window
             v == [j \in DOMAIN w |-> Older(w[j])]
  <1>1. Sound(breaker) /\ EventsAgree(breaker, events)
    BY InvariantParts
  <1>2. /\ w \in Seq(Sample) /\ breaker \in Breaker
    BY <1>1 DEF Sound, Breaker
  <1>3. breaker' = [breaker EXCEPT !.window = v]
    BY DEF Tick
  <1> HIDE DEF w
  <1>4. /\ DOMAIN w = 1..Len(w) /\ Len(w) \in Nat
        /\ \A j \in DOMAIN w : w[j] \in Sample
    BY <1>2
  <1>5. \A j \in DOMAIN w :
          /\ v[j] \in Sample /\ v[j].ok = w[j].ok
          /\ v[j].age = IF w[j].age > WindowLength THEN w[j].age ELSE w[j].age + 1
    BY <1>4, OlderFacts
  <1>6. v \in Seq(Sample) /\ DOMAIN v = DOMAIN w
    <2>1. v \in [1..Len(w) -> Sample]
      BY <1>4, <1>5
    <2> QED
      BY <1>4, <2>1
  <1> HIDE DEF v
  <1>7. /\ breaker' \in Breaker /\ breaker'.window = v
        /\ breaker'.state = breaker.state
        /\ breaker'.scheduled = breaker.scheduled
        /\ breaker'.successes = breaker.successes
        /\ breaker'.failures = breaker.failures
    BY <1>2, <1>3, <1>6 DEF Breaker
  <1>8. Outcomes(v, TRUE) = Outcomes(w, TRUE) /\ Outcomes(v, FALSE) = Outcomes(w, FALSE)
    BY <1>5, <1>6 DEF Outcomes
  <1>9. Counted(breaker')
    BY <1>1, <1>7, <1>8 DEF Sound, Counted, w
  <1>10. Ordered(v)
    <2> SUFFICES ASSUME NEW j \in DOMAIN v, NEW l \in DOMAIN v, j <= l
                 PROVE  v[l].age <= v[j].age
      BY DEF Ordered
    <2>1. w[l].age <= w[j].age
      BY <1>1, <1>6 DEF Sound, Ordered, w
    <2>2. w[l].age \in Nat /\ w[j].age \in Nat
      BY <1>4, <1>6 DEF Sample
    <2> QED
      BY <1>5, <1>6, <2>1, <2>2, TimeAssumption
  <1>11. Sound(breaker')
    BY <1>1, <1>7, <1>9, <1>10 DEF Sound
  <1>12. EventsAgree(breaker', events')
    <2>1. events' = {t - 1 : t \in events} /\ 0 \notin events
      BY DEF Tick
    <2>2. CASE breaker.scheduled
      <3>1. PICK t \in 0..SleepWindow : events = {t}
        BY <1>1, <2>2 DEF EventsAgree
      <3>2. events' = {t - 1} /\ t - 1 \in 0..SleepWindow
        BY <2>1, <3>1, TimeAssumption
      <3> QED
        BY <1>7, <2>2, <3>2 DEF EventsAgree
    <2>3. CASE ~breaker.scheduled
      BY <1>1, <1>7, <2>1, <2>3 DEF EventsAgree
    <2> QED
      BY <2>2, <2>3
  <1> QED
    BY <1>11, <1>12, InvariantPartsPrime

\* Every step keeps the invariant.
LEMMA NextInvariant == WindowInvariant /\ [Next]_vars => WindowInvariant'
  <1> SUFFICES ASSUME WindowInvariant, [Next]_vars
               PROVE  WindowInvariant'
    OBVIOUS
  <1>1. Sound(breaker)
    BY InvariantParts
  <1>2. CASE NotifySuccessfulCompletion
    <2>1. PICK k \in 0..Len(breaker.window) : Notify(k, Succeeded(breaker, k))
      BY <1>2 DEF NotifySuccessfulCompletion
    <2>2. Sound(Succeeded(breaker, k)) /\ Succeeded(breaker, k).scheduled = breaker.scheduled
      BY <1>1, <2>1, SucceededFacts DEF Notify
    <2> QED
      BY <2>1, <2>2, NotifyInvariant
  <1>3. CASE NotifyArrivalFailure
    <2>1. PICK k \in 0..Len(breaker.window) : Notify(k, FailedCall(breaker, k))
      BY <1>3 DEF NotifyArrivalFailure
    <2>2. Sound(FailedCall(breaker, k)) /\ (breaker.scheduled => FailedCall(breaker, k).scheduled)
      BY <1>1, <2>1, FailedFacts DEF Notify
    <2> QED
      BY <2>1, <2>2, NotifyInvariant
  <1>4. CASE ToHalfOpen
    BY <1>4, ToHalfOpenInvariant
  <1>5. CASE Tick
    BY <1>5, TickInvariant
  <1>6. CASE UNCHANGED vars
    BY <1>6 DEF vars, WindowInvariant, TypeOK, OpenIffScheduled, WindowCounted,
                WindowOrdered
  <1> QED
    BY <1>2, <1>3, <1>4, <1>5, <1>6 DEF Next

\* In every reachable state, for every window length, sleep window and
\* threshold: state, counters, window and scheduled event of a breaker agree
\* (TimingWindowCircuitBreakerState).
THEOREM WindowInvariantHolds == Spec => []WindowInvariant
  BY InitInvariant, NextInvariant, PTL DEF Spec

\* A breaker is open exactly while the one half-open event that will reach it
\* is scheduled (openBreaker, toHalfOpen).
THEOREM OpenIffScheduledHolds == Spec => []OpenIffScheduled
  <1>1. WindowInvariant => OpenIffScheduled
    BY DEF WindowInvariant
  <1> QED
    BY <1>1, WindowInvariantHolds, PTL

\* The counters count the window (purgeStateList, addToStateList, resetState).
THEOREM WindowCountedHolds == Spec => []WindowCounted
  <1>1. WindowInvariant => WindowCounted
    BY DEF WindowInvariant
  <1> QED
    BY <1>1, WindowInvariantHolds, PTL

-----------------------------------------------------------------------------
(* A closed breaker opens only on errors.                                  *)

\* A breaker whose samples are all recent and whose error rate has reached
\* the threshold has seen enough failures (checkErrorRate, getErrorRate).
LEMMA RateFacts ==
  ASSUME NEW b, Sound(b), AllRecent(b.window), RateReached(b)
  PROVE  LET w == b.window
             recent == {j \in DOMAIN w : w[j].age <= WindowLength}
             failed == recent \cap Outcomes(w, FALSE)
         IN  /\ Cardinality(recent) >= MinSamples
             /\ Cardinality(failed) * ErrorDen >= ErrorNum * Cardinality(recent)
  <1> DEFINE w == b.window
             recent == {j \in DOMAIN w : w[j].age <= WindowLength}
             failed == recent \cap Outcomes(w, FALSE)
             S == Outcomes(w, TRUE)
             F == Outcomes(w, FALSE)
  <1>1. w \in Seq(Sample) /\ DOMAIN w = 1..Len(w)
    BY DEF Sound, Breaker
  <1>2. \A j \in DOMAIN w : w[j].ok \in BOOLEAN
    <2>1. \A j \in DOMAIN w : w[j] \in Sample
      <3> HIDE DEF w
      <3> QED
        BY <1>1
    <2> QED
      BY <2>1 DEF Sample
  <1>3. recent = S \cup F /\ failed = F /\ S \cap F = {}
    BY <1>2 DEF AllRecent, Outcomes
  <1>4. /\ IsFiniteSet(S) /\ IsFiniteSet(F)
        /\ Cardinality(S) \in Nat /\ Cardinality(F) \in Nat
    <2> HIDE DEF w
    <2> QED
      BY <1>1, OutcomesFinite
  <1>5. b.successes = Cardinality(S) /\ b.failures = Cardinality(F)
    BY DEF Sound, Counted
  <1> HIDE DEF S, F, recent, failed
  <1>6. Cardinality(recent) = Cardinality(S) + Cardinality(F)
    <2>1. Cardinality(S \cup F) =
            Cardinality(S) + Cardinality(F) - Cardinality(S \cap F)
      BY <1>4, FS_Union
    <2>2. Cardinality(S \cap F) = 0
      BY <1>3, FS_EmptySet
    <2> QED
      BY <1>3, <1>4, <2>1, <2>2
  <1>7. /\ Cardinality(recent) >= MinSamples
        /\ Cardinality(failed) * ErrorDen >= ErrorNum * Cardinality(recent)
    <2>1. Cardinality(recent) = b.successes + b.failures /\ Cardinality(failed) = b.failures
      BY <1>3, <1>5, <1>6
    <2> HIDE DEF w
    <2> QED
      BY <2>1, Zenon DEF RateReached
  <1> QED
    BY <1>7 DEF recent, failed

\* For every window, threshold and interleaving of outcomes: a closed breaker
\* opens only if enough of the calls of the last WindowLength failed
\* (notifyArrivalFailure, purgeStateList).
THEOREM OpensOnErrorsHolds == Spec => OpensOnErrors
  <1> DEFINE Opens == breaker.state = "CLOSED" /\ breaker'.state = "OPEN"
             Errors ==
               LET w == breaker'.window
                   recent == {j \in DOMAIN w : w[j].age <= WindowLength}
                   failed == recent \cap Outcomes(w, FALSE)
               IN  /\ Cardinality(recent) >= MinSamples
                   /\ Cardinality(failed) * ErrorDen >= ErrorNum * Cardinality(recent)
  <1>1. ASSUME WindowInvariant, [Next]_vars, Opens
        PROVE  Errors
    <2>1. Sound(breaker)
      BY <1>1, InvariantParts
    <2>2. CASE NotifySuccessfulCompletion
      <3>1. PICK k \in 0..Len(breaker.window) : Notify(k, Succeeded(breaker, k))
        BY <2>2 DEF NotifySuccessfulCompletion
      <3>2. Succeeded(breaker, k).state = "OPEN" => breaker.state = "OPEN"
        BY <2>1, <3>1, SucceededFacts DEF Notify
      <3>3. breaker' = Succeeded(breaker, k)
        BY <3>1 DEF Notify
      <3> QED
        BY <1>1, <3>2, <3>3
    <2>3. CASE NotifyArrivalFailure
      <3>1. PICK k \in 0..Len(breaker.window) : Notify(k, FailedCall(breaker, k))
        BY <2>3 DEF NotifyArrivalFailure
      <3>2. breaker' = FailedCall(breaker, k)
        BY <3>1 DEF Notify
      <3>3. Sound(breaker') /\ RateReached(breaker') /\ AllRecent(breaker'.window)
        BY <1>1, <2>1, <3>1, <3>2, FailedFacts DEF Notify
      <3> QED
        BY <3>3, RateFacts
    <2>4. CASE ToHalfOpen
      BY <1>1, <2>1, <2>4 DEF ToHalfOpen, HalfOpened, Sound, Breaker
    <2>5. CASE Tick
      BY <1>1, <2>1, <2>5 DEF Tick, Sound, Breaker
    <2>6. CASE UNCHANGED vars
      BY <1>1, <2>6 DEF vars
    <2> QED
      BY <1>1, <2>2, <2>3, <2>4, <2>5, <2>6 DEF Next
  <1>2. WindowInvariant /\ [Next]_vars => [Opens => Errors]_vars
    BY <1>1
  <1>3. OpensOnErrors <=> [][Opens => Errors]_vars
    BY DEF OpensOnErrors
  <1> HIDE DEF Opens, Errors
  <1> QED
    BY <1>2, <1>3, WindowInvariantHolds, PTL DEF Spec
=============================================================================
