----------------------- MODULE RequestHandlingProofs -----------------------
(***************************************************************************)
(* HandlingInvariant is an inductive invariant of RequestHandling, for     *)
(* every architecture and every bound.  The first lemmas are about         *)
(* sequences and requests; then each action preserves the type invariant,  *)
(* the facts about the scheduled events and the facts about the instances. *)
(***************************************************************************)
EXTENDS RequestHandlingInvariant, TLAPS, FiniteSetTheorems, SequenceTheorems

-----------------------------------------------------------------------------
(* Sequences and their ranges.                                             *)

\* The range of a sequence is the set of its elements.
LEMMA RangeElements ==
  ASSUME NEW S, NEW s \in Seq(S)
  PROVE  /\ Range(s) \subseteq S
         /\ \A x : x \in Range(s) <=> \E k \in 1..Len(s) : s[k] = x
  <1>1. DOMAIN s = 1..Len(s) /\ \A k \in 1..Len(s) : s[k] \in S
    BY LenProperties
  <1>2. Range(s) = {s[k] : k \in 1..Len(s)}
    BY <1>1 DEF Range
  <1> QED
    BY <1>1, <1>2

\* Taking the head of a queue removes nothing else from it.
LEMMA TailRange ==
  ASSUME NEW S, NEW s \in Seq(S), s # <<>>
  PROVE  /\ Head(s) \in S /\ Tail(s) \in Seq(S)
         /\ Head(s) = s[1] /\ Len(s) \in Nat \ {0}
         /\ Len(Tail(s)) = Len(s) - 1
         /\ \A k \in 1..Len(Tail(s)) : Tail(s)[k] = s[k + 1]
         /\ Range(s) = {Head(s)} \cup Range(Tail(s))
  <1>1. /\ Head(s) \in S /\ Tail(s) \in Seq(S)
        /\ Head(s) = s[1] /\ Len(s) \in Nat \ {0}
        /\ Len(Tail(s)) = Len(s) - 1
        /\ \A k \in 1..Len(Tail(s)) : Tail(s)[k] = s[k + 1]
    OBVIOUS
  <1>2. \A x : x \in Range(s) <=> \E k \in 1..Len(s) : s[k] = x
    BY RangeElements
  <1>3. \A x : x \in Range(Tail(s)) <=> \E k \in 1..Len(Tail(s)) : Tail(s)[k] = x
    <2> DEFINE t == Tail(s)
    <2>1. t \in Seq(S)
      BY <1>1
    <2> HIDE DEF t
    <2>2. \A x : x \in Range(t) <=> \E k \in 1..Len(t) : t[k] = x
      BY <2>1, RangeElements
    <2> QED
      BY <2>2 DEF t
  <1>4. ASSUME NEW x \in Range(s), x # Head(s) PROVE x \in Range(Tail(s))
    <2>1. PICK k \in 1..Len(s) : s[k] = x
      BY <1>2
    <2>2. k - 1 \in 1..Len(Tail(s)) /\ Tail(s)[k - 1] = x
      BY <2>1, <1>4, <1>1
    <2> QED
      BY <2>2, <1>3
  <1>5. ASSUME NEW x \in Range(Tail(s)) PROVE x \in Range(s)
    <2>1. PICK k \in 1..Len(Tail(s)) : Tail(s)[k] = x
      BY <1>3
    <2>2. k + 1 \in 1..Len(s) /\ s[k + 1] = x
      BY <2>1, <1>1
    <2> QED
      BY <2>2, <1>2
  <1>6. Head(s) \in Range(s)
    BY <1>1, <1>2
  <1> QED
    BY <1>1, <1>4, <1>5, <1>6

\* The elements of two queues joined are those of both.
LEMMA ConcatRange ==
  ASSUME NEW S, NEW s \in Seq(S), NEW t \in Seq(S)
  PROVE  /\ s \o t \in Seq(S)
         /\ Len(s) \in Nat /\ Len(t) \in Nat
         /\ Len(s \o t) = Len(s) + Len(t)
         /\ \A k \in 1..Len(s) + Len(t) :
              (s \o t)[k] = IF k <= Len(s) THEN s[k] ELSE t[k - Len(s)]
         /\ Range(s \o t) = Range(s) \cup Range(t)
  <1>1. /\ s \o t \in Seq(S)
        /\ Len(s) \in Nat /\ Len(t) \in Nat
        /\ Len(s \o t) = Len(s) + Len(t)
        /\ \A k \in 1..Len(s) + Len(t) :
             (s \o t)[k] = IF k <= Len(s) THEN s[k] ELSE t[k - Len(s)]
    BY ConcatProperties, LenProperties
  <1>2. \A x : x \in Range(s) <=> \E k \in 1..Len(s) : s[k] = x
    BY RangeElements
  <1>3. \A x : x \in Range(t) <=> \E k \in 1..Len(t) : t[k] = x
    BY RangeElements
  <1>4. \A x : x \in Range(s \o t) <=> \E k \in 1..Len(s \o t) : (s \o t)[k] = x
    BY <1>1, RangeElements
  <1>5. ASSUME NEW x \in Range(s \o t) PROVE x \in Range(s) \cup Range(t)
    <2>1. PICK k \in 1..Len(s) + Len(t) : (s \o t)[k] = x
      BY <1>1, <1>4
    <2>2. \/ k \in 1..Len(s) /\ s[k] = x
          \/ k - Len(s) \in 1..Len(t) /\ t[k - Len(s)] = x
      BY <2>1, <1>1
    <2> QED
      BY <2>2, <1>2, <1>3
  <1>6. ASSUME NEW x \in Range(s) PROVE x \in Range(s \o t)
    <2>1. PICK k \in 1..Len(s) : s[k] = x
      BY <1>2
    <2>2. k \in 1..Len(s \o t) /\ (s \o t)[k] = x
      BY <2>1, <1>1
    <2> QED
      BY <2>2, <1>4
  <1>7. ASSUME NEW x \in Range(t) PROVE x \in Range(s \o t)
    <2>1. PICK k \in 1..Len(t) : t[k] = x
      BY <1>3
    <2>2. Len(s) + k \in 1..Len(s \o t) /\ (s \o t)[Len(s) + k] = x
      BY <2>1, <1>1
    <2> QED
      BY <2>2, <1>4
  <1> QED
    BY <1>1, <1>5, <1>6, <1>7

\* An appended event is the only new one in the queue.
LEMMA AppendRange ==
  ASSUME NEW S, NEW s \in Seq(S), NEW e \in S
  PROVE  Range(Append(s, e)) = Range(s) \cup {e}
  <1>1. <<e>> \in Seq(S) /\ Len(<<e>>) = 1 /\ <<e>>[1] = e
    OBVIOUS
  <1>2. Append(s, e) = s \o <<e>>
    BY AppendIsConcat
  <1>3. \A x : x \in Range(<<e>>) <=> \E k \in 1..Len(<<e>>) : <<e>>[k] = x
    BY <1>1, RangeElements
  <1>4. Range(<<e>>) = {e}
    BY <1>1, <1>3
  <1>5. Range(s \o <<e>>) = Range(s) \cup Range(<<e>>)
    BY <1>1, ConcatRange, ZenonT(40)
  <1> QED
    BY <1>2, <1>4, <1>5

-----------------------------------------------------------------------------
(* Requests.                                                               *)

\* What the invariant needs to know of a step that changes requests: none is
\* lost, and none changes its operation, its handler or what is completed.
Harmless(s) ==
  /\ s \in Seq(Request) /\ Len(s) = Len(reqs)
  /\ \A r \in Id : /\ s[r].op = reqs[r].op
                   /\ s[r].handler = reqs[r].handler
                   /\ s[r].done = reqs[r].done
                   /\ s[r].computed = reqs[r].computed

\* What the type invariant says of a single request.
LEMMA ReqsType ==
  ASSUME TypeOK
  PROVE  /\ reqs \in Seq(Request) /\ Len(reqs) \in Nat
         /\ DOMAIN reqs = Id
         /\ \A r \in Id : reqs[r] \in Request
  BY LenProperties, ElementOfSeq DEF TypeOK, Id

\* A step that may also create requests
Grows(s) ==
  /\ s \in Seq(Request) /\ Len(s) >= Len(reqs)
  /\ \A r \in Id : /\ s[r].op = reqs[r].op
                   /\ s[r].handler = reqs[r].handler
                   /\ s[r].done = reqs[r].done
                   /\ s[r].computed = reqs[r].computed

\* A harmless update of the requests keeps those that exist.
LEMMA HarmlessGrows ==
  ASSUME TypeOK, NEW s, Harmless(s)
  PROVE  Grows(s)
  BY ReqsType DEF Harmless, Grows

\* Creating one more request keeps those that exist.
LEMMA AppendGrows ==
  ASSUME TypeOK, NEW s, Harmless(s), NEW q \in Request
  PROVE  /\ Grows(Append(s, q))
         /\ Len(Append(s, q)) = Len(reqs) + 1
         /\ Append(s, q)[Len(reqs) + 1] = q
  <1>1. /\ Append(s, q) \in Seq(Request) /\ Len(Append(s, q)) = Len(reqs) + 1
        /\ \A k \in 1..Len(reqs) : Append(s, q)[k] = s[k]
        /\ Append(s, q)[Len(reqs) + 1] = q
    BY ReqsType DEF Harmless
  <1> QED
    BY <1>1, ReqsType DEF Harmless, Grows, Id

\* A new request (InternalRequest, UserRequest) is well-typed.
LEMMA NewRequestType ==
  ASSUME NEW op \in Op, NEW p \in Nat, NEW n \in DepName \cup {None},
         NEW i \in Instance \cup {Generator}
  PROVE  /\ NewRequest(op, p, n, i) \in Request
         /\ NewRequest(op, p, n, i).handler = None
         /\ NewRequest(op, p, n, i).done = {}
         /\ ~NewRequest(op, p, n, i).computed
  BY DEF NewRequest, Request

\* The variables of TypeOK keep their types when requests are created.
LEMMA TypesKept ==
  ASSUME TypeOK, reqs' \in Seq(Request), Len(reqs') >= Len(reqs)
  PROVE  /\ Id \subseteq Id' /\ Message \subseteq Message'
         /\ Due \subseteq Due' /\ Flight \subseteq Flight'
         /\ Cancellation \subseteq Cancellation'
         /\ \A q \in Seq(Due) : q \in Seq(Due')
         /\ handling \in [Instance -> SUBSET Id']
         /\ openDeps \in [Instance -> SUBSET (Id' \X DepName)]
         /\ outgoing \in [Instance -> SUBSET Message']
         /\ cpu \in [Instance -> SUBSET Id']
         /\ finishing \subseteq Id'
         /\ urgent \in Seq(Cancellation')
         /\ due \in Seq(Due')
         /\ flight \subseteq Flight'
         /\ armed \subseteq Message'
  <1>1. Id \subseteq Id'
    BY LenProperties DEF TypeOK, Id
  <1>2. Message \subseteq Message'
    BY <1>1 DEF Message
  <1>3. /\ Due \subseteq Due' /\ Flight \subseteq Flight'
        /\ Cancellation \subseteq Cancellation'
    BY <1>2 DEF Due, Flight, Cancellation
  <1>4. \A q \in Seq(Due) : q \in Seq(Due')
    BY <1>3, SeqMonotonic
  <1>5. urgent \in Seq(Cancellation') /\ due \in Seq(Due')
    BY <1>3, SeqMonotonic DEF TypeOK
  <1>6. handling \in [Instance -> SUBSET Id'] /\ cpu \in [Instance -> SUBSET Id']
    BY <1>1 DEF TypeOK
  <1>7. openDeps \in [Instance -> SUBSET (Id' \X DepName)]
    BY <1>1 DEF TypeOK
  <1>8. outgoing \in [Instance -> SUBSET Message']
    BY <1>2 DEF TypeOK
  <1>9. finishing \subseteq Id' /\ flight \subseteq Flight' /\ armed \subseteq Message'
    BY <1>1, <1>2, <1>3 DEF TypeOK
  <1> QED
    BY <1>1, <1>2, <1>3, <1>4, <1>5, <1>6, <1>7, <1>8, <1>9

\* Leaving the requests alone is harmless.
LEMMA NoChangeHarmless ==
  ASSUME TypeOK
  PROVE  Harmless(reqs)
  BY ReqsType DEF Harmless

\* Replacing one request by one with the same handler, operation and
\* completed dependencies is harmless.
LEMMA ReplaceHarmless ==
  ASSUME TypeOK, NEW r, NEW q,
         r \in Id => /\ q \in Request /\ q.op = reqs[r].op
                     /\ q.handler = reqs[r].handler /\ q.done = reqs[r].done
                     /\ q.computed = reqs[r].computed
  PROVE  Harmless([reqs EXCEPT ![r] = q])
  <1>1. CASE r \in Id
    BY <1>1, ReqsType, ExceptSeq DEF Harmless, Id
  <1>2. CASE r \notin Id
    <2>1. [reqs EXCEPT ![r] = q] = reqs
      BY <1>2, ReqsType
    <2> QED
      BY <2>1, NoChangeHarmless
  <1> QED
    BY <1>1, <1>2

\* The updates of single fields that are harmless
LEMMA FieldsHarmless ==
  ASSUME TypeOK, NEW r
  PROVE  /\ Harmless([reqs EXCEPT ![r].succeeded = @ + 1])
         /\ Harmless([reqs EXCEPT ![r].failed = @ + 1])
         /\ \A n : Harmless([reqs EXCEPT ![r].tries[n] = 0])
         /\ \A n : Harmless([reqs EXCEPT ![r].tries[n] = @ + 1])
         /\ \A n : \A c \in Nat : Harmless([reqs EXCEPT ![r].child[n] = c])
  <1>0. r \in Id => reqs[r] \in Request
    BY ReqsType
  <1>1. Harmless([reqs EXCEPT ![r].succeeded = @ + 1])
    <2> DEFINE q == [reqs[r] EXCEPT !.succeeded = @ + 1]
    <2>1. r \in Id => /\ q \in Request /\ q.op = reqs[r].op
                      /\ q.handler = reqs[r].handler /\ q.done = reqs[r].done
                      /\ q.computed = reqs[r].computed
      BY <1>0 DEF Request
    <2> HIDE DEF q
    <2>2. Harmless([reqs EXCEPT ![r] = q])
      BY <2>1, ReplaceHarmless
    <2> QED
      BY <2>2 DEF q
  <1>2. Harmless([reqs EXCEPT ![r].failed = @ + 1])
    <2> DEFINE q == [reqs[r] EXCEPT !.failed = @ + 1]
    <2>1. r \in Id => /\ q \in Request /\ q.op = reqs[r].op
                      /\ q.handler = reqs[r].handler /\ q.done = reqs[r].done
                      /\ q.computed = reqs[r].computed
      BY <1>0 DEF Request
    <2> HIDE DEF q
    <2>2. Harmless([reqs EXCEPT ![r] = q])
      BY <2>1, ReplaceHarmless
    <2> QED
      BY <2>2 DEF q
  <1>3. ASSUME NEW n PROVE Harmless([reqs EXCEPT ![r].tries[n] = 0])
    <2> DEFINE q == [reqs[r] EXCEPT !.tries[n] = 0]
    <2>1. r \in Id => /\ q \in Request /\ q.op = reqs[r].op
                      /\ q.handler = reqs[r].handler /\ q.done = reqs[r].done
                      /\ q.computed = reqs[r].computed
      BY <1>0 DEF Request
    <2> HIDE DEF q
    <2>2. Harmless([reqs EXCEPT ![r] = q])
      BY <2>1, ReplaceHarmless
    <2> QED
      BY <2>2 DEF q
  <1>4. ASSUME NEW n PROVE Harmless([reqs EXCEPT ![r].tries[n] = @ + 1])
    <2> DEFINE q == [reqs[r] EXCEPT !.tries[n] = @ + 1]
    <2>1. r \in Id => /\ q \in Request /\ q.op = reqs[r].op
                      /\ q.handler = reqs[r].handler /\ q.done = reqs[r].done
                      /\ q.computed = reqs[r].computed
      BY <1>0 DEF Request
    <2> HIDE DEF q
    <2>2. Harmless([reqs EXCEPT ![r] = q])
      BY <2>1, ReplaceHarmless
    <2> QED
      BY <2>2 DEF q
  <1>5. ASSUME NEW n, NEW c \in Nat PROVE Harmless([reqs EXCEPT ![r].child[n] = c])
    <2> DEFINE q == [reqs[r] EXCEPT !.child[n] = c]
    <2>1. r \in Id => /\ q \in Request /\ q.op = reqs[r].op
                      /\ q.handler = reqs[r].handler /\ q.done = reqs[r].done
                      /\ q.computed = reqs[r].computed
      BY <1>0 DEF Request
    <2> HIDE DEF q
    <2>2. Harmless([reqs EXCEPT ![r] = q])
      BY <2>1, ReplaceHarmless
    <2> QED
      BY <2>2 DEF q
  <1> QED
    BY <1>1, <1>2, <1>3, <1>4, <1>5

-----------------------------------------------------------------------------
(* Arrivals and ends of shutdowns in a queue q with delayed events f.      *)

\* A queue that gets an event for a request nothing is scheduled for still
\* lets every request arrive at most once.
LEMMA AppendArrive ==
  ASSUME NEW S, NEW q \in Seq(S), NEW f, NEW e \in S,
         ArriveOnce(q, f), OnTheWay(e) => Absent(e.m.r, q, f)
  PROVE  ArriveOnce(Append(q, e), f)
  <1> DEFINE a == Append(q, e)
  <1>1. /\ a \in Seq(S) /\ Len(q) \in Nat /\ Len(a) = Len(q) + 1
        /\ \A k \in 1..Len(q) + 1 : a[k] = IF k <= Len(q) THEN q[k] ELSE e
        /\ Range(a) = Range(q) \cup {e}
    <2>1. Range(Append(q, e)) = Range(q) \cup {e}
      BY AppendRange
    <2> QED
      BY <2>1
  <1>2. DOMAIN a = 1..Len(q) + 1 /\ DOMAIN q = 1..Len(q)
    BY <1>1, LenProperties
  <1>3. \A k \in 1..Len(q) : q[k] \in Range(q)
    BY <1>2 DEF Range
  <1> HIDE DEF a
  <1>4. ASSUME NEW k \in DOMAIN a, NEW l \in DOMAIN a,
               OnTheWay(a[k]), OnTheWay(a[l]), a[k].m.r = a[l].m.r
        PROVE  k = l
    <2>1. CASE k \in 1..Len(q) /\ l \in 1..Len(q)
      BY <2>1, <1>1, <1>2, <1>4 DEF ArriveOnce
    <2>2. CASE k \in 1..Len(q) /\ l = Len(q) + 1
      BY <2>2, <1>1, <1>3, <1>4 DEF Absent
    <2>3. CASE k = Len(q) + 1 /\ l \in 1..Len(q)
      BY <2>3, <1>1, <1>3, <1>4 DEF Absent
    <2> QED
      BY <2>1, <2>2, <2>3, <1>1, <1>2
  <1>5. ASSUME NEW d \in Range(a), NEW x \in f, OnTheWay(d), OnTheWay(x)
        PROVE  d.m.r # x.m.r
    BY <1>1, <1>5 DEF ArriveOnce, Absent
  <1>6. ArriveOnce(a, f)
    BY <1>4, <1>5 DEF ArriveOnce
  <1> QED
    BY <1>6 DEF a

\* The same for a whole sequence of new events.
LEMMA ConcatArrive ==
  ASSUME NEW S, NEW q \in Seq(S), NEW f, NEW t \in Seq(S),
         ArriveOnce(q, f), ArriveOnce(t, {}),
         \A e \in Range(t) : OnTheWay(e) => Absent(e.m.r, q, f)
  PROVE  ArriveOnce(q \o t, f)
  <1> DEFINE a == q \o t
  <1>1. /\ a \in Seq(S) /\ Len(q) \in Nat /\ Len(t) \in Nat
        /\ Len(a) = Len(q) + Len(t)
        /\ \A k \in 1..Len(q) + Len(t) :
             a[k] = IF k <= Len(q) THEN q[k] ELSE t[k - Len(q)]
        /\ Range(a) = Range(q) \cup Range(t)
    BY ConcatRange
  <1>2. /\ DOMAIN a = 1..Len(q) + Len(t)
        /\ DOMAIN q = 1..Len(q) /\ DOMAIN t = 1..Len(t)
    BY <1>1, LenProperties
  <1>3. /\ \A k \in 1..Len(q) : q[k] \in Range(q)
        /\ \A k \in 1..Len(t) : t[k] \in Range(t)
    BY <1>2 DEF Range
  <1> HIDE DEF a
  <1>4. ASSUME NEW k \in DOMAIN a, NEW l \in DOMAIN a,
               OnTheWay(a[k]), OnTheWay(a[l]), a[k].m.r = a[l].m.r
        PROVE  k = l
    <2>1. CASE k \in 1..Len(q) /\ l \in 1..Len(q)
      BY <2>1, <1>1, <1>2, <1>4 DEF ArriveOnce
    <2>2. CASE k \in 1..Len(q) /\ l \notin 1..Len(q)
      <3>1. a[k] \in Range(q) /\ a[l] \in Range(t)
        BY <2>2, <1>1, <1>2, <1>3, SMTT(20)
      <3> QED
        BY <3>1, <1>4 DEF Absent
    <2>3. CASE k \notin 1..Len(q) /\ l \in 1..Len(q)
      <3>1. a[l] \in Range(q) /\ a[k] \in Range(t)
        BY <2>3, <1>1, <1>2, <1>3
      <3> QED
        BY <3>1, <1>4 DEF Absent
    <2>4. CASE k \notin 1..Len(q) /\ l \notin 1..Len(q)
      <3>1. /\ k - Len(q) \in 1..Len(t) /\ l - Len(q) \in 1..Len(t)
            /\ a[k] = t[k - Len(q)] /\ a[l] = t[l - Len(q)]
        BY <2>4, <1>1, <1>2
      <3>2. k - Len(q) = l - Len(q)
        BY <3>1, <1>4, <1>2 DEF ArriveOnce
      <3> QED
        BY <3>2, <1>1, <1>2
    <2> QED
      BY <2>1, <2>2, <2>3, <2>4
  <1>5. ASSUME NEW d \in Range(a), NEW x \in f, OnTheWay(d), OnTheWay(x)
        PROVE  d.m.r # x.m.r
    BY <1>1, <1>5 DEF ArriveOnce, Absent
  <1>6. ArriveOnce(a, f)
    BY <1>4, <1>5 DEF ArriveOnce
  <1> QED
    BY <1>6 DEF a

\* The same for a new delayed event.
LEMMA DelayArrive ==
  ASSUME NEW q, NEW f, NEW e,
         ArriveOnce(q, f), OnTheWay(e) => Absent(e.m.r, q, f)
  PROVE  ArriveOnce(q, f \cup {e})
  BY DEF ArriveOnce, Absent

\* Once the arrival of a request is taken, nothing else lets it arrive.
LEMMA TakeArrive ==
  ASSUME NEW S, NEW q \in Seq(S), q # <<>>, NEW f, ArriveOnce(q, f)
  PROVE  /\ ArriveOnce(Tail(q), f)
         /\ OnTheWay(Head(q)) => Absent(Head(q).m.r, Tail(q), f)
  <1> DEFINE t == Tail(q)
  <1>1. /\ t \in Seq(S) /\ Head(q) = q[1] /\ Len(q) \in Nat \ {0}
        /\ Len(t) = Len(q) - 1 /\ \A k \in 1..Len(t) : t[k] = q[k + 1]
        /\ Range(q) = {Head(q)} \cup Range(t)
    BY TailRange
  <1>2. DOMAIN q = 1..Len(q)
    BY LenProperties
  <1> HIDE DEF t
  <1>3. DOMAIN t = 1..Len(t) /\ \A x \in Range(t) : \E k \in 1..Len(t) : t[k] = x
    BY <1>1, LenProperties, RangeElements
  <1>4. ArriveOnce(t, f)
    <2>1. ASSUME NEW k \in DOMAIN t, NEW l \in DOMAIN t,
                 OnTheWay(t[k]), OnTheWay(t[l]), t[k].m.r = t[l].m.r
          PROVE  k = l
      <3>1. k + 1 \in DOMAIN q /\ l + 1 \in DOMAIN q
        BY <1>1, <1>2, <1>3
      <3>2. t[k] = q[k + 1] /\ t[l] = q[l + 1]
        BY <1>1, <1>3
      <3>3. k + 1 = l + 1
        BY <2>1, <3>1, <3>2 DEF ArriveOnce
      <3> QED
        BY <3>3, <1>3
    <2> QED
      BY <2>1, <1>1 DEF ArriveOnce
  <1>5. ASSUME OnTheWay(Head(q)) PROVE Absent(Head(q).m.r, t, f)
    <2>1. ASSUME NEW e \in Range(t), OnTheWay(e), e.m.r = Head(q).m.r PROVE FALSE
      <3>1. PICK k \in 1..Len(t) : t[k] = e
        BY <1>3
      <3>2. k + 1 \in DOMAIN q /\ q[k + 1] = e /\ 1 \in DOMAIN q /\ k + 1 # 1
        BY <3>1, <1>1, <1>2
      <3> QED
        BY <3>2, <2>1, <1>5, <1>1 DEF ArriveOnce
    <2>2. ASSUME NEW e \in f, OnTheWay(e) PROVE e.m.r # Head(q).m.r
      BY <2>2, <1>5, <1>1 DEF ArriveOnce
    <2> QED
      BY <2>1, <2>2 DEF Absent
  <1> QED
    BY <1>4, <1>5 DEF t

\* An event that is not the end of a shutdown may be appended.
LEMMA AppendEnd ==
  ASSUME NEW S, NEW q \in Seq(S), NEW e \in S, EndOnce(q),
         e.type = "end" => \A d \in Range(q) : d.type = "end" => d.i # e.i
  PROVE  EndOnce(Append(q, e))
  <1> DEFINE a == Append(q, e)
  <1>1. /\ a \in Seq(S) /\ Len(q) \in Nat /\ Len(a) = Len(q) + 1
        /\ \A k \in 1..Len(q) + 1 : a[k] = IF k <= Len(q) THEN q[k] ELSE e
    OBVIOUS
  <1>2. DOMAIN a = 1..Len(q) + 1 /\ DOMAIN q = 1..Len(q)
    BY <1>1, LenProperties
  <1>3. \A k \in 1..Len(q) : q[k] \in Range(q)
    BY <1>2 DEF Range
  <1> HIDE DEF a
  <1>4. ASSUME NEW k \in DOMAIN a, NEW l \in DOMAIN a,
               a[k].type = "end", a[l].type = "end", a[k].i = a[l].i
        PROVE  k = l
    <2>1. CASE k \in 1..Len(q) /\ l \in 1..Len(q)
      BY <2>1, <1>1, <1>2, <1>4 DEF EndOnce
    <2>2. CASE k \in 1..Len(q) /\ l = Len(q) + 1
      BY <2>2, <1>1, <1>3, <1>4
    <2>3. CASE k = Len(q) + 1 /\ l \in 1..Len(q)
      BY <2>3, <1>1, <1>3, <1>4
    <2> QED
      BY <2>1, <2>2, <2>3, <1>1, <1>2
  <1>5. EndOnce(a)
    BY <1>4 DEF EndOnce
  <1> QED
    BY <1>5 DEF a

\* A sequence of events that end no shutdown may be appended.
LEMMA ConcatEnd ==
  ASSUME NEW S, NEW q \in Seq(S), NEW t \in Seq(S), EndOnce(q),
         \A e \in Range(t) : e.type # "end"
  PROVE  EndOnce(q \o t)
  <1> DEFINE a == q \o t
  <1>1. /\ a \in Seq(S) /\ Len(q) \in Nat /\ Len(t) \in Nat
        /\ Len(a) = Len(q) + Len(t)
        /\ \A k \in 1..Len(q) + Len(t) :
             a[k] = IF k <= Len(q) THEN q[k] ELSE t[k - Len(q)]
    BY ConcatRange
  <1>2. /\ DOMAIN a = 1..Len(q) + Len(t)
        /\ DOMAIN q = 1..Len(q) /\ DOMAIN t = 1..Len(t)
    BY <1>1, LenProperties
  <1>3. \A k \in 1..Len(t) : t[k] \in Range(t)
    BY <1>2 DEF Range
  <1> HIDE DEF a
  <1>4. ASSUME NEW k \in DOMAIN a, a[k].type = "end"
        PROVE  k \in DOMAIN q /\ a[k] = q[k]
    BY <1>1, <1>2, <1>3, <1>4
  <1>5. EndOnce(a)
    BY <1>4 DEF EndOnce
  <1> QED
    BY <1>5 DEF a

\* Once the end of a shutdown is taken, the same one is not left.
LEMMA TakeEnd ==
  ASSUME NEW S, NEW q \in Seq(S), q # <<>>, EndOnce(q)
  PROVE  /\ EndOnce(Tail(q))
         /\ Head(q).type = "end" =>
              \A d \in Range(Tail(q)) : d.type = "end" => d.i # Head(q).i
  <1> DEFINE t == Tail(q)
  <1>1. /\ t \in Seq(S) /\ Head(q) = q[1] /\ Len(q) \in Nat \ {0}
        /\ Len(t) = Len(q) - 1 /\ \A k \in 1..Len(t) : t[k] = q[k + 1]
    BY TailRange
  <1>2. DOMAIN q = 1..Len(q)
    BY LenProperties
  <1> HIDE DEF t
  <1>3. DOMAIN t = 1..Len(t) /\ \A x \in Range(t) : \E k \in 1..Len(t) : t[k] = x
    BY <1>1, LenProperties, RangeElements
  <1>4. \A k \in DOMAIN t : k + 1 \in DOMAIN q /\ t[k] = q[k + 1] /\ k + 1 # 1
    BY <1>1, <1>2, <1>3
  <1>5. EndOnce(t)
    <2> SUFFICES ASSUME NEW k \in DOMAIN t, NEW l \in DOMAIN t,
                        t[k].type = "end", t[l].type = "end", t[k].i = t[l].i
                 PROVE  k = l
      BY DEF EndOnce
    <2>1. k + 1 = l + 1
      BY <1>4 DEF EndOnce
    <2> QED
      BY <2>1, <1>3
  <1>6. ASSUME Head(q).type = "end", NEW d \in Range(t), d.type = "end"
        PROVE  d.i # Head(q).i
    <2>1. PICK k \in DOMAIN t : t[k] = d
      BY <1>3
    <2>2. 1 \in DOMAIN q
      BY <1>1, <1>2
    <2> QED
      BY <2>1, <2>2, <1>1, <1>4, <1>6 DEF EndOnce
  <1> QED
    BY <1>5, <1>6 DEF t

-----------------------------------------------------------------------------
(* What is left of the queue and of the delayed events when e is taken     *)

Rest(e, q, f) ==
  /\ q \in Seq(Due) /\ f \subseteq Flight /\ e \in Due \cup Flight
  /\ ArriveOnce(q, f) /\ NotArrived(q, f) /\ ComputedAtHandler(q)
  /\ EndOnce(q) /\ EndIdle(q)
  /\ OnTheWay(e) => Untouched(reqs, e.m.r) /\ Absent(e.m.r, q, f)
  /\ e.type = "computed" => ~e.m.ans /\ reqs[e.m.r].handler = e.i
  /\ \A r \in finishing :
       \/ e.type = "computed" /\ e.m.r = r
       \/ \E d \in Range(q) : d.type = "computed" /\ d.m.r = r
  /\ e.type = "end" => /\ state[e.i] = "SHUTTING_DOWN" /\ handling[e.i] = {}
                       /\ \A d \in Range(q) : d.type = "end" => d.i # e.i

\* Taking the first event of due keeps what is known of the events left.
LEMMA TakeDue ==
  ASSUME HandlingInvariant, due # <<>>
  PROVE  Rest(Head(due), Tail(due), flight)
  <1>1. /\ due \in Seq(Due) /\ flight \subseteq Flight
        /\ ArriveOnce(due, flight) /\ NotArrived(due, flight)
        /\ ComputedAtHandler(due) /\ FinishingIsDue(due)
        /\ EndOnce(due) /\ EndIdle(due)
    BY DEF HandlingInvariant, TypeOK, Events
  <1>2. /\ Head(due) \in Due /\ Tail(due) \in Seq(Due)
        /\ Range(due) = {Head(due)} \cup Range(Tail(due))
    BY <1>1, TailRange
  <1>3. /\ ArriveOnce(Tail(due), flight)
        /\ OnTheWay(Head(due)) => Absent(Head(due).m.r, Tail(due), flight)
    BY <1>1, TakeArrive
  <1>4. /\ EndOnce(Tail(due))
        /\ Head(due).type = "end" =>
             \A d \in Range(Tail(due)) : d.type = "end" => d.i # Head(due).i
    BY <1>1, TakeEnd
  <1> DEFINE h == Head(due)
             t == Tail(due)
  <1> HIDE DEF h, t
  <1>5. /\ NotArrived(t, flight)
        /\ OnTheWay(h) => Untouched(reqs, h.m.r)
    BY <1>1, <1>2 DEF NotArrived, h, t
  <1>6. /\ ComputedAtHandler(t)
        /\ h.type = "computed" => ~h.m.ans /\ reqs[h.m.r].handler = h.i
    BY <1>1, <1>2 DEF ComputedAtHandler, h, t
  <1>7. \A r \in finishing :
          \/ h.type = "computed" /\ h.m.r = r
          \/ \E d \in Range(t) : d.type = "computed" /\ d.m.r = r
    BY <1>1, <1>2 DEF FinishingIsDue, h, t
  <1>8. /\ EndIdle(t)
        /\ h.type = "end" => state[h.i] = "SHUTTING_DOWN" /\ handling[h.i] = {}
    BY <1>1, <1>2 DEF EndIdle, h, t
  <1> QED
    BY <1>1, <1>2, <1>3, <1>4, <1>5, <1>6, <1>7, <1>8 DEF Rest, h, t

\* Taking a delayed event keeps what is known of the events left.
LEMMA TakeDelayed ==
  ASSUME HandlingInvariant, NEW e \in flight
  PROVE  Rest(e, due, flight \ {e})
  <1>1. /\ due \in Seq(Due) /\ flight \subseteq Flight
        /\ ArriveOnce(due, flight) /\ NotArrived(due, flight)
        /\ ComputedAtHandler(due) /\ FinishingIsDue(due)
        /\ EndOnce(due) /\ EndIdle(due)
    BY DEF HandlingInvariant, TypeOK, Events
  <1>2. e.type # "computed" /\ e.type # "end"
    BY <1>1 DEF Flight
  <1>3. /\ ArriveOnce(due, flight \ {e})
        /\ OnTheWay(e) => Absent(e.m.r, due, flight \ {e})
    BY <1>1 DEF ArriveOnce, Absent
  <1>4. /\ NotArrived(due, flight \ {e})
        /\ OnTheWay(e) => Untouched(reqs, e.m.r)
    BY <1>1 DEF NotArrived
  <1> QED
    BY <1>1, <1>2, <1>3, <1>4 DEF Rest, FinishingIsDue

-----------------------------------------------------------------------------
(* What a step has to show.                                                *)

\* A step that creates requests and closes dependencies, but computes nothing,
\* keeps the facts about the instances.
LEMMA InstancesKept ==
  ASSUME TypeOK, Instances, Grows(reqs'),
         UNCHANGED <<state, handling, cpu, finishing>>,
         \A i \in Instance : openDeps'[i] \subseteq openDeps[i]
  PROVE  Instances'
  <1>1. /\ handling \in [Instance -> SUBSET Id] /\ finishing \subseteq Id
        /\ openDeps \in [Instance -> SUBSET (Id \X DepName)]
    BY DEF TypeOK
  <1>2. HandlerKnown'
    BY <1>1 DEF Instances, HandlerKnown, Grows
  <1>3. OpenIsWaiting'
    BY <1>1 DEF Instances, OpenIsWaiting, Grows, Deps
  <1>4. ComputedOnce'
    BY DEF Instances, ComputedOnce
  <1>5. ComputingIsHandled'
    BY <1>1 DEF Instances, ComputingIsHandled, Grows, Live
  <1>6. ShutdownIsIdle'
    BY DEF Instances, ShutdownIsIdle
  <1> QED
    BY <1>2, <1>3, <1>4, <1>5, <1>6 DEF Instances

\* A new event that completes no computation and ends no shutdown
Fresh(d, s) ==
  /\ d.type \notin {"computed", "end"}
  /\ OnTheWay(d) => Untouched(s, d.m.r)

\* A step that takes an event, and schedules only events that are fresh,
\* keeps the facts about the events.
LEMMA EventsKept ==
  ASSUME TypeOK, NEW q \in Seq(Due), NEW f \in SUBSET Flight,
         NotArrived(q, f), ComputedAtHandler(q), FinishingIsDue(q), EndIdle(q),
         Grows(reqs'), UNCHANGED state, finishing' \subseteq finishing,
         \A i \in Instance : handling'[i] \subseteq handling[i],
         ArriveOnce(due', flight'), EndOnce(due'),
         Range(q) \subseteq Range(due'),
         \A d \in Range(due') : d \in Range(q) \/ Fresh(d, reqs'),
         \A d \in flight' : d \in f \/ Fresh(d, reqs')
  PROVE  Events(due, flight)'
  <1>1. Range(q) \subseteq Due
    BY RangeElements
  <1>2. \A d \in Range(q) \cup f : OnTheWay(d) => d.m.r \in Id
    BY <1>1 DEF Due, Flight, Message, OnTheWay
  <1>3. \A d \in Range(q) : d.type = "computed" => d.m.r \in Id
    BY <1>1 DEF Due, Message
  <1>4. \A d \in Range(q) : d.type = "end" => d.i \in Instance
    BY <1>1 DEF Due
  <1>5. NotArrived(due, flight)'
    BY <1>2 DEF NotArrived, Fresh, Grows, Untouched
  <1>6. ComputedAtHandler(due)'
    BY <1>3 DEF ComputedAtHandler, Fresh, Grows
  <1>7. FinishingIsDue(due)'
    BY DEF FinishingIsDue
  <1>8. EndIdle(due)'
    BY <1>4 DEF EndIdle, Fresh
  <1> QED
    BY <1>5, <1>6, <1>7, <1>8 DEF Events

\* What is left of due and flight is still well-typed.
LEMMA RestFacts ==
  ASSUME NEW e, NEW q, NEW f, Rest(e, q, f), e.type # "computed"
  PROVE  /\ q \in Seq(Due) /\ f \in SUBSET Flight
         /\ NotArrived(q, f) /\ ComputedAtHandler(q) /\ FinishingIsDue(q)
         /\ EndIdle(q) /\ ArriveOnce(q, f) /\ EndOnce(q)
         /\ e.type = "send" => e.m \in Message
         /\ e.type = "cancel" => e.m \in Message
         /\ e.type = "receive" => e.m \in Message /\ e.i \in Instance
         /\ e.type = "end" => e.i \in Instance
  BY DEF Rest, FinishingIsDue, Due, Flight

\* The messages under way of the instances keep their type.
LEMMA OutgoingType ==
  ASSUME TypeOK, NEW m \in Message
  PROVE  /\ [i \in Instance |-> outgoing[i] \cup IF i \in Senders(m) THEN {m} ELSE {}]
              \in [Instance -> SUBSET Message]
         /\ Arrived(m) \in [Instance -> SUBSET Message]
  BY DEF TypeOK, Arrived

\* Sending changes at most a counter of the retries and a statistic.
LEMMA SendReqs ==
  ASSUME TypeOK, NEW m \in Message, NEW q, NEW f, Send(m, q, f)
  PROVE  Harmless(reqs')
  <1>1. CASE OnRequestSend(m)
    BY <1>1, NoChangeHarmless, FieldsHarmless DEF OnRequestSend
  <1>2. CASE SendUserAnswer(m, q, f)
    BY <1>2, FieldsHarmless DEF SendUserAnswer
  <1> QED
    BY <1>1, <1>2 DEF Send, SendNowhere, SendUserRequest, SendInternal

\* Sending keeps the type invariant.
LEMMA SendType ==
  ASSUME HandlingInvariant, NEW e, NEW q, NEW f, Rest(e, q, f), e.type = "send",
         Send(e.m, q, f)
  PROVE  TypeOK'
  <1> DEFINE m == e.m
  <1>0. /\ TypeOK /\ m \in Message /\ q \in Seq(Due) /\ f \subseteq Flight
    BY RestFacts DEF HandlingInvariant
  <1>1. Grows(reqs')
    BY <1>0, SendReqs, HarmlessGrows
  <1>2. /\ Message \subseteq Message' /\ Due \subseteq Due' /\ Flight \subseteq Flight'
        /\ Cancellation \subseteq Cancellation' /\ q \in Seq(Due') /\ f \subseteq Flight'
        /\ handling \in [Instance -> SUBSET Id']
        /\ openDeps \in [Instance -> SUBSET (Id' \X DepName)]
        /\ outgoing \in [Instance -> SUBSET Message']
        /\ cpu \in [Instance -> SUBSET Id'] /\ finishing \subseteq Id'
        /\ urgent \in Seq(Cancellation')
        /\ armed \subseteq Message'
    BY <1>0, <1>1, TypesKept DEF Grows
  <1>3. /\ state' \in [Instance -> States]
        /\ handling' \in [Instance -> SUBSET Id']
        /\ openDeps' \in [Instance -> SUBSET (Id' \X DepName)]
        /\ notComputed' \in [Instance -> Int] /\ waiting' \in [Instance -> Int]
        /\ cpu' \in [Instance -> SUBSET Id'] /\ finishing' \subseteq Id'
        /\ aborted' \in BOOLEAN
    BY <1>0, <1>2 DEF Send, instVars, TypeOK
  <1>4. outgoing' \in [Instance -> SUBSET Message']
    <2>1. CASE OnRequestSend(m)
      BY <2>1, <1>0, <1>2, OutgoingType DEF OnRequestSend
    <2>2. CASE SendUserAnswer(m, q, f)
      BY <2>2, <1>0, <1>2 DEF SendUserAnswer
    <2> QED
      BY <2>1, <2>2 DEF Send, SendNowhere, SendUserRequest, SendInternal
  <1> HIDE DEF m
  <1>5. /\ urgent' \in Seq(Cancellation') /\ due' \in Seq(Due')
        /\ flight' \subseteq Flight' /\ armed' \subseteq Message'
        /\ older' \subseteq armed' \X armed'
    <2>0. armed \subseteq Message /\ older \subseteq armed \X armed
      BY <1>0 DEF TypeOK
    <2>1. CASE SendUserAnswer(m, q, f)
      BY <2>0, <2>1, <1>2 DEF SendUserAnswer
    <2>2. CASE SendNowhere(m, q, f)
      <3>1. Cancel(m, "NO_INSTANCE_AVAILABLE") \in Cancellation'
        BY <1>0, <1>2 DEF Cancel, Cancellation, Reasons
      <3>2. Event("cancel", m, None) \in Flight'
        BY <1>0, <1>2 DEF Event, Flight
      <3> QED
        BY <3>1, <3>2, <2>0, <2>2, <1>2 DEF SendNowhere
    <2>3. CASE SendUserRequest(m, q, f)
      <3>1. PICK i \in Instance : due' = Append(q, Event("receive", m, i))
        BY <2>3 DEF SendUserRequest, Available
      <3>2. Event("receive", m, i) \in Due'
        BY <1>0, <1>2 DEF Event, Due
      <3> QED
        BY <3>1, <3>2, <2>0, <2>3, <1>2 DEF SendUserRequest
    <2>4. CASE SendInternal(m, q, f)
      <3>1. PICK i \in Instance : flight' = f \cup {Event("receive", m, i)}
        <4>1. reqs[m.r].requester \in Instance
          BY <2>4, <1>0, ReqsType DEF SendInternal, IsUser, Message, Request
        <4> QED
          BY <2>4, <4>1 DEF SendInternal, Available
      <3>2. Event("receive", m, i) \in Flight'
        BY <1>0, <1>2 DEF Event, Flight
      <3>3. armed' \subseteq Message' /\ older' \subseteq armed' \X armed'
        BY <2>0, <2>4, <1>0, <1>2 DEF SendInternal
      <3> QED
        BY <3>1, <3>2, <3>3, <2>4, <1>2 DEF SendInternal
    <2> QED
      BY <2>1, <2>2, <2>3, <2>4 DEF Send, m
  <1>6. reqs' \in Seq(Request)
    BY <1>1 DEF Grows
  <1> QED
    BY <1>3, <1>4, <1>5, <1>6 DEF TypeOK

\* NetworkRequestSendEvent preserves the invariant.
LEMMA SendStep ==
  ASSUME HandlingInvariant, NEW e, NEW q, NEW f, Rest(e, q, f), e.type = "send",
         Send(e.m, q, f)
  PROVE  HandlingInvariant'
  <1> DEFINE m == e.m
  <1>0. /\ TypeOK /\ Instances /\ m \in Message
        /\ q \in Seq(Due) /\ f \in SUBSET Flight
        /\ NotArrived(q, f) /\ ComputedAtHandler(q) /\ FinishingIsDue(q)
        /\ EndIdle(q) /\ ArriveOnce(q, f) /\ EndOnce(q)
    BY RestFacts DEF HandlingInvariant
  <1>1. Harmless(reqs') /\ Grows(reqs')
    BY <1>0, SendReqs, HarmlessGrows
  <1>2. UNCHANGED <<state, handling, openDeps, cpu, finishing, aborted>>
    BY DEF Send, instVars
  <1>3. Instances'
    BY <1>0, <1>1, <1>2, InstancesKept
  <1>4. ~m.ans => /\ Untouched(reqs, m.r) /\ Untouched(reqs', m.r)
                  /\ Absent(m.r, q, f)
    BY <1>0, <1>1 DEF Rest, OnTheWay, Harmless, Message, Untouched
  <1> HIDE DEF m
  <1>5. Events(due, flight)'
    <2>1. CASE due' = q /\ flight' = f
      BY <2>1, <1>0, <1>1, <1>2, EventsKept
    <2>2. CASE /\ due' = q
               /\ \E d : /\ flight' = f \cup {d} /\ Fresh(d, reqs')
                         /\ OnTheWay(d) => Absent(d.m.r, q, f)
      <3>1. PICK d : /\ flight' = f \cup {d} /\ Fresh(d, reqs')
                     /\ OnTheWay(d) => Absent(d.m.r, q, f)
        BY <2>2
      <3>2. ArriveOnce(due', flight')
        BY <3>1, <2>2, <1>0, DelayArrive
      <3> QED
        BY <3>1, <3>2, <2>2, <1>0, <1>1, <1>2, EventsKept
    <2>3. CASE /\ flight' = f
               /\ \E i \in Instance : due' = Append(q, Event("receive", m, i))
               /\ ~m.ans
      <3>1. PICK i \in Instance : due' = Append(q, Event("receive", m, i))
        BY <2>3
      <3> DEFINE d == Event("receive", m, i)
      <3>2. d \in Due /\ d.type = "receive" /\ d.m = m
        BY <1>0 DEF Event, Due
      <3> HIDE DEF d
      <3>3. due' = Append(q, d)
        BY <3>1 DEF d
      <3>4. Range(due') = Range(q) \cup {d}
        BY <3>2, <3>3, <1>0, AppendRange
      <3>5. ArriveOnce(due', flight')
        BY <3>2, <3>3, <2>3, <1>0, <1>4, AppendArrive
      <3>6. EndOnce(due')
        BY <3>2, <3>3, <1>0, AppendEnd
      <3>7. Fresh(d, reqs')
        BY <3>2, <2>3, <1>4 DEF Fresh
      <3> QED
        BY <3>4, <3>5, <3>6, <3>7, <2>3, <1>0, <1>1, <1>2, EventsKept
    <2>4. CASE SendUserAnswer(m, q, f)
      BY <2>4, <2>1 DEF SendUserAnswer
    <2>5. CASE SendNowhere(m, q, f)
      <3>1. Fresh(Event("cancel", m, None), reqs') /\ ~OnTheWay(Event("cancel", m, None))
        BY DEF Event, Fresh, OnTheWay
      <3> QED
        BY <3>1, <2>5, <2>1, <2>2 DEF SendNowhere
    <2>6. CASE SendUserRequest(m, q, f)
      BY <2>6, <2>3 DEF SendUserRequest, Available
    <2>7. CASE SendInternal(m, q, f)
      <3>1. PICK i : flight' = f \cup {Event("receive", m, i)}
        BY <2>7 DEF SendInternal
      <3> DEFINE d == Event("receive", m, i)
      <3>2. /\ d.type = "receive" /\ d.m = m
        BY DEF Event
      <3>3. Fresh(d, reqs') /\ (OnTheWay(d) => Absent(d.m.r, q, f))
        BY <3>2, <1>4 DEF Fresh, OnTheWay
      <3> QED
        BY <3>1, <3>3, <2>7, <2>2 DEF SendInternal
    <2> QED
      BY <2>4, <2>5, <2>6, <2>7 DEF Send, m
  <1>6. TypeOK'
    BY SendType
  <1> QED
    BY <1>2, <1>3, <1>5, <1>6 DEF HandlingInvariant, NeverAborts

-----------------------------------------------------------------------------
(* Failures.                                                               *)

\* The parts of the invariant.
LEMMA InvariantFacts ==
  ASSUME HandlingInvariant
  PROVE  /\ TypeOK /\ Instances /\ NeverAborts
         /\ due \in Seq(Due) /\ flight \in SUBSET Flight
         /\ NotArrived(due, flight) /\ ComputedAtHandler(due)
         /\ FinishingIsDue(due) /\ EndIdle(due)
         /\ ArriveOnce(due, flight) /\ EndOnce(due)
  BY DEF HandlingInvariant, TypeOK, Events

\* A request whose computation is finishing is handled where it was received.
LEMMA FinishingHandler ==
  ASSUME HandlingInvariant
  PROVE  \A r \in finishing :
           \E d \in Range(due) :
             /\ d.type = "computed" /\ d.m = Req(r) /\ d.i \in Instance
             /\ reqs[r].handler = d.i
  <1>0. /\ due \in Seq(Due) /\ FinishingIsDue(due) /\ ComputedAtHandler(due)
    BY InvariantFacts
  <1>1. Range(due) \subseteq Due
    BY <1>0, RangeElements
  <1> SUFFICES ASSUME NEW r \in finishing
               PROVE  \E d \in Range(due) :
                        /\ d.type = "computed" /\ d.m = Req(r) /\ d.i \in Instance
                        /\ reqs[r].handler = d.i
    OBVIOUS
  <1>2. PICK d \in Range(due) : d.type = "computed" /\ d.m.r = r
    BY <1>0 DEF FinishingIsDue
  <1>3. ~d.m.ans /\ reqs[r].handler = d.i
    BY <1>0, <1>2 DEF ComputedAtHandler
  <1>4. d.i \in Instance /\ d.m \in Message
    BY <1>1, <1>2 DEF Due
  <1>5. d.m = Req(r)
    BY <1>2, <1>3, <1>4 DEF Message, Req
  <1> QED
    BY <1>2, <1>3, <1>4, <1>5

\* A request is created: it has no handler and nothing is scheduled for it.
LEMMA CreatedFacts ==
  ASSUME HandlingInvariant, NEW s, Harmless(s), NEW q \in Request,
         q.handler = None, q.done = {}, ~q.computed, reqs' = Append(s, q)
  PROVE  LET m == Req(Len(reqs) + 1)
         IN  /\ Grows(reqs') /\ m \in Message'
             /\ Absent(m.r, due, flight)
             /\ Fresh(Event("send", m, None), reqs')
  <1> DEFINE new == Len(reqs) + 1
  <1>0. TypeOK /\ due \in Seq(Due) /\ flight \subseteq Flight /\ Len(reqs) \in Nat
    BY InvariantFacts, ReqsType
  <1>1. Grows(reqs') /\ Len(reqs') = new /\ reqs'[new] = q
    BY <1>0, AppendGrows
  <1>2. new \in Id' /\ new \notin Id
    BY <1>0, <1>1 DEF Id
  <1>3. Range(due) \subseteq Due
    BY <1>0, RangeElements
  <1> HIDE DEF new
  <1>4. Absent(new, due, flight)
    BY <1>0, <1>2, <1>3 DEF Absent, OnTheWay, Due, Flight, Message
  <1>5. Req(new) \in Message' /\ Req(new).r = new
    BY <1>2 DEF Req, Message
  <1>6. Fresh(Event("send", Req(new), None), reqs')
    BY <1>1, <1>5 DEF Fresh, Event, Untouched
  <1> QED
    BY <1>1, <1>4, <1>5, <1>6 DEF new

\* Canceling timeouts keeps the type of what is left.
LEMMA DisarmType ==
  ASSUME TypeOK, NEW S, Disarm(S)
  PROVE  armed' \subseteq armed /\ older' \subseteq armed' \X armed'
  BY DEF TypeOK, Disarm

\* Failures that only the listeners outside the instances notice
LEMMA QuietFailure ==
  ASSUME HandlingInvariant, NEW m \in Message, urgent # <<>>,
         Failed(m), urgent' = Tail(urgent), Harmless(reqs'),
         UNCHANGED <<instVars, cpu, finishing, due, flight, aborted>>
  PROVE  HandlingInvariant'
  <1>0. /\ TypeOK /\ Instances /\ NeverAborts
        /\ due \in Seq(Due) /\ flight \in SUBSET Flight
        /\ NotArrived(due, flight) /\ ComputedAtHandler(due)
        /\ FinishingIsDue(due) /\ EndIdle(due)
        /\ ArriveOnce(due, flight) /\ EndOnce(due)
    BY InvariantFacts
  <1>1. Grows(reqs')
    BY <1>0, HarmlessGrows
  <1>2. UNCHANGED <<state, handling, openDeps, notComputed, waiting>>
    BY DEF instVars
  <1>3. Instances'
    BY <1>0, <1>1, <1>2, InstancesKept
  <1>4. Events(due, flight)'
    BY <1>0, <1>1, <1>2, EventsKept
  <1>5. TypeOK'
    <2>1. /\ Message \subseteq Message'
          /\ handling \in [Instance -> SUBSET Id']
          /\ openDeps \in [Instance -> SUBSET (Id' \X DepName)]
          /\ cpu \in [Instance -> SUBSET Id'] /\ finishing \subseteq Id'
          /\ urgent \in Seq(Cancellation') /\ due \in Seq(Due')
          /\ flight \subseteq Flight' /\ armed \subseteq Message'
      BY <1>0, <1>1, TypesKept DEF Grows
    <2>2. outgoing' \in [Instance -> SUBSET Message']
      BY <2>1, <1>0, OutgoingType DEF Failed
    <2>3. urgent' \in Seq(Cancellation')
      BY <2>1
    <2>4. armed' \subseteq Message' /\ older' \subseteq armed' \X armed'
      BY <2>1, <1>0, DisarmType DEF Failed
    <2> QED
      BY <2>1, <2>2, <2>3, <2>4, <1>0, <1>1, <1>2 DEF TypeOK, Grows
  <1> QED
    BY <1>0, <1>3, <1>4, <1>5 DEF HandlingInvariant, NeverAborts

\* The Retry forgetting a dependency is harmless.
LEMMA ForgetHarmless ==
  ASSUME TypeOK, NEW r
  PROVE  Harmless(Forget(r))
  BY NoChangeHarmless, FieldsHarmless DEF Forget

\* Retry.onRequestFailed preserves the invariant.
LEMMA RetryStep ==
  ASSUME HandlingInvariant, NEW m \in Message, urgent # <<>>, RetryRequest(m),
         UNCHANGED <<state, cpu, due, aborted>>
  PROVE  HandlingInvariant'
  <1> DEFINE r == m.r
             new == Len(reqs) + 1
             created == NewRequest(reqs[r].op, Parent(r), reqs[r].dep, reqs[r].requester)
             send == Event("send", Req(new), None)
  <1>0. /\ TypeOK /\ Instances /\ NeverAborts
        /\ due \in Seq(Due) /\ flight \in SUBSET Flight
        /\ NotArrived(due, flight) /\ ComputedAtHandler(due)
        /\ FinishingIsDue(due) /\ EndIdle(due)
        /\ ArriveOnce(due, flight) /\ EndOnce(due)
    BY InvariantFacts
  <1>1. reqs' = Append(Relinked(r, new), created) /\ flight' = flight \cup {send}
    BY DEF RetryRequest
  <1>2. Harmless(Relinked(r, new))
    <2>1. new \in Nat
      BY <1>0, ReqsType
    <2>2. \A x, n : \A c \in Nat : Harmless([reqs EXCEPT ![x].child[n] = c])
      BY <1>0, FieldsHarmless
    <2> QED
      BY <2>1, <2>2, Zenon DEF Relinked
  <1>3. /\ created \in Request /\ created.handler = None /\ created.done = {}
        /\ ~created.computed
    <2>1. reqs[r] \in Request
      BY <1>0, ReqsType DEF Message
    <2>2. /\ reqs[r].op \in Op /\ Parent(r) \in Nat
          /\ reqs[r].dep \in DepName \cup {None}
          /\ reqs[r].requester \in Instance \cup {Generator}
      BY <2>1 DEF Request, Parent
    <2>3. \A op \in Op, p \in Nat, n \in DepName \cup {None},
             i \in Instance \cup {Generator} :
            LET q == NewRequest(op, p, n, i)
            IN  q \in Request /\ q.handler = None /\ q.done = {} /\ ~q.computed
      BY NewRequestType
    <2> QED
      BY <2>2, <2>3
  <1>4. /\ Grows(reqs') /\ Req(new) \in Message'
        /\ Absent(Req(new).r, due, flight) /\ Fresh(send, reqs')
    BY <1>1, <1>2, <1>3, CreatedFacts
  <1>5. UNCHANGED <<state, handling, openDeps, notComputed, waiting, finishing>>
    BY DEF RetryRequest
  <1>6. Instances'
    BY <1>0, <1>4, <1>5, InstancesKept
  <1>7. Events(due, flight)'
    <2>1. ArriveOnce(due', flight')
      <3>1. send.m = Req(new)
        BY DEF Event
      <3> QED
        BY <3>1, <1>0, <1>1, <1>4, DelayArrive
    <2> QED
      BY <2>1, <1>0, <1>1, <1>4, <1>5, EventsKept
  <1>8. TypeOK'
    <2>1. /\ Message \subseteq Message'
          /\ handling \in [Instance -> SUBSET Id']
          /\ openDeps \in [Instance -> SUBSET (Id' \X DepName)]
          /\ cpu \in [Instance -> SUBSET Id'] /\ finishing \subseteq Id'
          /\ urgent \in Seq(Cancellation') /\ due \in Seq(Due')
          /\ flight \subseteq Flight' /\ armed \subseteq Message'
      BY <1>0, <1>4, TypesKept DEF Grows
    <2>2. outgoing' \in [Instance -> SUBSET Message']
      BY <2>1, <1>0, OutgoingType DEF RetryRequest, Failed
    <2>3. urgent' \in Seq(Cancellation')
      BY <2>1 DEF RetryRequest
    <2>4. armed' \subseteq Message' /\ older' \subseteq armed' \X armed'
      BY <2>1, <1>0, DisarmType DEF RetryRequest, Failed
    <2>5. flight' \subseteq Flight'
      BY <2>1, <1>1, <1>4 DEF Event, Flight
    <2> QED
      BY <2>1, <2>2, <2>3, <2>4, <2>5, <1>0, <1>4, <1>5 DEF TypeOK, Grows
  <1> QED
    BY <1>0, <1>6, <1>7, <1>8 DEF HandlingInvariant, NeverAborts

\* A counter of an instance, counted up or down
LEMMA CounterType ==
  ASSUME NEW c \in [Instance -> Int], NEW i \in Instance
  PROVE  /\ [c EXCEPT ![i] = @ + 1] \in [Instance -> Int]
         /\ [c EXCEPT ![i] = @ - 1] \in [Instance -> Int]
  <1>1. c[i] + 1 \in Int /\ c[i] - 1 \in Int
    OBVIOUS
  <1>2. \A v \in Int : [c EXCEPT ![i] = v] \in [Instance -> Int]
    OBVIOUS
  <1> QED
    BY <1>1, <1>2

\* A step that gives request p up, which waits for a dependency, keeps the facts
\* about the instances.
LEMMA GivenUpInstances ==
  ASSUME HandlingInvariant, Grows(reqs'), NEW i \in Instance, NEW p \in Id,
         NEW n \in DepName, <<p, n>> \in openDeps[i],
         handling' = [handling EXCEPT ![i] = @ \ {p}],
         openDeps' = [openDeps EXCEPT ![i] = @ \ AllDeps(p)],
         finishing' \subseteq finishing, UNCHANGED <<state, cpu>>
  PROVE  Instances' /\ \A j \in Instance : handling'[j] \subseteq handling[j]
  <1>1. TypeOK /\ Instances
    BY InvariantFacts
  <1>2. p \notin finishing /\ p \notin cpu[i]
    BY <1>1 DEF Instances, OpenIsWaiting
  <1>3. /\ handling \in [Instance -> SUBSET Id] /\ finishing \subseteq Id
        /\ openDeps \in [Instance -> SUBSET (Id \X DepName)]
        /\ cpu \in [Instance -> SUBSET Id]
    BY <1>1 DEF TypeOK
  <1>4. /\ \A j \in Instance : handling'[j] = IF j = i THEN handling[i] \ {p}
                                              ELSE handling[j]
        /\ \A j \in Instance : openDeps'[j] = IF j = i THEN openDeps[i] \ AllDeps(p)
                                              ELSE openDeps[j]
    BY <1>3
  <1>5. HandlerKnown'
    BY <1>1, <1>3, <1>4 DEF Instances, HandlerKnown, Grows
  <1>6. OpenIsWaiting'
    <2> SUFFICES ASSUME NEW j \in Instance, NEW x \in Id', NEW y \in DepName,
                        <<x, y>> \in openDeps'[j]
                 PROVE  /\ x \in handling'[j] /\ x \notin cpu'[j]
                        /\ x \notin finishing'
                        /\ y \in Deps(x)' \ reqs'[x].done
      BY DEF OpenIsWaiting
    <2>1. x \in Id /\ <<x, y>> \in openDeps[j]
      BY <1>3, <1>4
    <2>2. /\ x \in handling[j] /\ x \notin cpu[j] /\ x \notin finishing
          /\ y \in Deps(x) \ reqs[x].done
      BY <2>1, <1>1 DEF Instances, OpenIsWaiting
    <2>3. ~(x = p /\ j = i)
      <3>1. ASSUME x = p, j = i PROVE <<x, y>> \in AllDeps(p)
        BY <3>1, <2>2 DEF AllDeps
      <3> QED
        BY <3>1, <1>4
    <2> QED
      BY <2>1, <2>2, <2>3, <1>4 DEF Grows, Deps
  <1>7. ComputedOnce'
    BY <1>1 DEF Instances, ComputedOnce
  <1>8. ComputingIsHandled'
    <2>1. \A j \in Instance : cpu'[j] \subseteq IF Live(j)' THEN handling'[j] ELSE {}
      BY <1>1, <1>2, <1>4 DEF Instances, ComputingIsHandled, Live
    <2>2. ASSUME NEW x \in finishing'
          PROVE  (Live(reqs[x].handler) /\ x \in handling[reqs[x].handler])'
      <3>1. x \in finishing /\ x \in Id /\ x # p
        BY <1>2, <1>3, <2>2
      <3>2. reqs'[x].handler = reqs[x].handler
        BY <3>1 DEF Grows
      <3>3. Live(reqs[x].handler) /\ x \in handling[reqs[x].handler]
        BY <3>1, <1>1 DEF Instances, ComputingIsHandled
      <3>4. reqs[x].handler \in Instance
        BY <3>1, FinishingHandler
      <3> QED
        BY <3>1, <3>2, <3>3, <3>4, <1>4 DEF Live
    <2> QED
      BY <2>1, <2>2 DEF ComputingIsHandled
  <1>9. ShutdownIsIdle'
    BY <1>1, <1>4 DEF Instances, ShutdownIsIdle
  <1> QED
    BY <1>4, <1>5, <1>6, <1>7, <1>8, <1>9 DEF Instances

\* MicroserviceInstance.letRequestFail preserves the invariant.
LEMMA LetRequestFailStep ==
  ASSUME HandlingInvariant, NEW m \in Message, urgent # <<>>, LetRequestFail(m),
         UNCHANGED <<state, cpu, due, aborted>>
  PROVE  HandlingInvariant'
  <1> DEFINE r == m.r
             i == reqs[r].requester
             p == Parent(r)
             n == reqs[r].dep
  <1>0. /\ TypeOK /\ Instances /\ NeverAborts
        /\ due \in Seq(Due) /\ flight \in SUBSET Flight
        /\ NotArrived(due, flight) /\ ComputedAtHandler(due)
        /\ FinishingIsDue(due) /\ EndIdle(due)
        /\ ArriveOnce(due, flight) /\ EndOnce(due)
    BY InvariantFacts
  <1>1. /\ i \in Instance /\ p \in Id /\ n \in DepName
        /\ <<p, n>> \in openDeps[i] /\ p \in handling[i]
    <2>1. r \in Id /\ reqs[r] \in Request
      BY <1>0, ReqsType DEF Message
    <2>2. i \in Instance
      BY <2>1 DEF LetRequestFail, IsUser, Request
    <2> QED
      BY <2>2, <1>0 DEF LetRequestFail, Awaited, DepOf, Parent, TypeOK
  <1>2. /\ handling' = [handling EXCEPT ![i] = @ \ {p}]
        /\ openDeps' = [openDeps EXCEPT ![i] = @ \ AllDeps(p)]
        /\ finishing' \subseteq finishing
        /\ flight' = flight
        /\ waiting' = [waiting EXCEPT ![i] = @ - 1]
        /\ notComputed' = [notComputed EXCEPT ![i] = @ - 1]
    BY DEF LetRequestFail, Abandoned
  <1>3. Harmless(reqs') /\ Grows(reqs')
    BY <1>0, ForgetHarmless, HarmlessGrows DEF LetRequestFail
  <1>4. Instances' /\ \A j \in Instance : handling'[j] \subseteq handling[j]
    BY <1>1, <1>2, <1>3, GivenUpInstances
  <1> HIDE DEF i, p, n
  <1>5. Events(due, flight)'
    BY <1>0, <1>2, <1>3, <1>4, EventsKept
  <1>6. TypeOK'
    <2>1. /\ Message \subseteq Message' /\ Id \subseteq Id'
          /\ cpu \in [Instance -> SUBSET Id'] /\ finishing \subseteq Id'
          /\ handling \in [Instance -> SUBSET Id']
          /\ openDeps \in [Instance -> SUBSET (Id' \X DepName)]
          /\ urgent \in Seq(Cancellation') /\ due \in Seq(Due')
          /\ flight \subseteq Flight' /\ armed \subseteq Message'
      BY <1>0, <1>3, TypesKept DEF Grows
    <2>2. outgoing' \in [Instance -> SUBSET Message']
      BY <2>1, <1>0, OutgoingType DEF LetRequestFail, Failed
    <2>3. urgent' \in Seq(Cancellation')
      <3>1. Cancel(Req(p), "DEPENDENCY_NOT_AVAILABLE") \in Cancellation'
        BY <1>1, <2>1 DEF Cancel, Req, Cancellation, Message, Reasons
      <3> QED
        BY <2>1, <3>1 DEF LetRequestFail, p, r
    <2>4. armed' \subseteq Message' /\ older' \subseteq armed' \X armed'
      BY <2>1, <1>0, DisarmType DEF LetRequestFail, Failed
    <2>5. /\ handling' \in [Instance -> SUBSET Id']
          /\ openDeps' \in [Instance -> SUBSET (Id' \X DepName)]
      BY <1>2, <2>1
    <2>6. notComputed' \in [Instance -> Int] /\ waiting' \in [Instance -> Int]
      BY <1>1, <1>2, <1>0, CounterType DEF TypeOK
    <2> QED
      BY <2>1, <2>2, <2>3, <2>4, <2>5, <2>6, <1>0, <1>2, <1>3 DEF TypeOK, Grows
  <1> QED
    BY <1>0, <1>4, <1>5, <1>6 DEF HandlingInvariant, NeverAborts

\* NetworkRequestCanceledEvent preserves the invariant.
LEMMA CancelStep ==
  ASSUME HandlingInvariant, CancelRequest
  PROVE  HandlingInvariant'
  <1> DEFINE m == Head(urgent).m
  <1>0. urgent # <<>> /\ m \in Message /\ TypeOK
    <2>1. urgent # <<>> /\ urgent \in Seq(Cancellation) /\ TypeOK
      BY InvariantFacts DEF CancelRequest, TypeOK
    <2>2. Head(urgent) \in Cancellation
      BY <2>1
    <2> QED
      BY <2>1, <2>2 DEF Cancellation
  <1>1. UNCHANGED <<state, cpu, due, aborted>>
    BY DEF CancelRequest
  <1> HIDE DEF m
  <1>2. CASE FailAnswer(m)
    BY <1>0, <1>1, <1>2, NoChangeHarmless, QuietFailure DEF FailAnswer, instVars
  <1>3. CASE FailUserRequest(m)
    <2>1. Harmless(reqs')
      BY <1>0, <1>3, FieldsHarmless DEF FailUserRequest
    <2> QED
      BY <2>1, <1>0, <1>1, <1>3, QuietFailure DEF FailUserRequest, instVars
  <1>4. CASE RetryRequest(m)
    BY <1>0, <1>1, <1>4, RetryStep
  <1>5. CASE LetRequestFail(m)
    BY <1>0, <1>1, <1>5, LetRequestFailStep
  <1>6. CASE IgnoreFailure(m)
    <2>1. Harmless(reqs')
      BY <1>0, <1>6, ForgetHarmless DEF IgnoreFailure
    <2> QED
      BY <2>1, <1>0, <1>1, <1>6, QuietFailure DEF IgnoreFailure, instVars
  <1> QED
    BY <1>2, <1>3, <1>4, <1>5, <1>6 DEF CancelRequest, m

\* NetworkRequestTimeoutEvent preserves the invariant.
LEMMA TimeoutStep ==
  ASSUME HandlingInvariant, Timeout
  PROVE  HandlingInvariant'
  <1>0. /\ TypeOK /\ Instances /\ NeverAborts
        /\ due \in Seq(Due) /\ flight \in SUBSET Flight
        /\ NotArrived(due, flight) /\ ComputedAtHandler(due)
        /\ FinishingIsDue(due) /\ EndIdle(due)
        /\ ArriveOnce(due, flight) /\ EndOnce(due)
    BY InvariantFacts
  <1>1. /\ UNCHANGED <<reqs, state, handling, openDeps, notComputed, waiting>>
        /\ UNCHANGED <<outgoing, cpu, finishing, due, flight, aborted>>
    BY DEF Timeout, instVars
  <1>2. Grows(reqs')
    BY <1>0, <1>1, NoChangeHarmless, HarmlessGrows
  <1>3. Instances'
    BY <1>0, <1>1, <1>2, InstancesKept
  <1>4. Events(due, flight)'
    BY <1>0, <1>1, <1>2, EventsKept
  <1>5. TypeOK'
    <2>1. PICK m \in armed : urgent' = Append(urgent, Cancel(m, "TIMEOUT")) /\ Disarm({m})
      BY DEF Timeout
    <2>2. /\ Message' = Message /\ Cancellation' = Cancellation /\ Id' = Id
          /\ Due' = Due /\ Flight' = Flight
      BY <1>1 DEF Message, Id, Cancellation, Due, Flight
    <2>3. Cancel(m, "TIMEOUT") \in Cancellation
      BY <1>0, <2>1 DEF TypeOK, Cancel, Cancellation, Reasons
    <2>4. urgent' \in Seq(Cancellation)
      BY <1>0, <2>1, <2>3 DEF TypeOK
    <2>5. armed' \subseteq armed /\ older' \subseteq armed' \X armed'
      BY <1>0, <2>1, DisarmType
    <2> QED
      BY <1>0, <1>1, <2>2, <2>4, <2>5 DEF TypeOK
  <1> QED
    BY <1>0, <1>1, <1>3, <1>4, <1>5 DEF HandlingInvariant, NeverAborts

\* A delayed cancellation preserves the invariant.
LEMMA CancelLaterStep ==
  ASSUME HandlingInvariant, NEW e, NEW f, Rest(e, due, f), e.type = "cancel",
         CancelLater(e.m, f)
  PROVE  HandlingInvariant'
  <1>0. /\ TypeOK /\ Instances /\ NeverAborts /\ e.m \in Message
        /\ due \in Seq(Due) /\ f \in SUBSET Flight
        /\ NotArrived(due, f) /\ ComputedAtHandler(due)
        /\ FinishingIsDue(due) /\ EndIdle(due)
        /\ ArriveOnce(due, f) /\ EndOnce(due)
    BY InvariantFacts, RestFacts
  <1>1. /\ UNCHANGED <<reqs, state, handling, openDeps, notComputed, waiting>>
        /\ UNCHANGED <<outgoing, cpu, finishing, due, armed, older, aborted>>
        /\ flight' = f
        /\ urgent' = Append(urgent, Cancel(e.m, "NO_INSTANCE_AVAILABLE"))
    BY DEF CancelLater, instVars
  <1>2. Grows(reqs')
    BY <1>0, <1>1, NoChangeHarmless, HarmlessGrows
  <1>3. Instances'
    BY <1>0, <1>1, <1>2, InstancesKept
  <1>4. Events(due, flight)'
    BY <1>0, <1>1, <1>2, EventsKept
  <1>5. TypeOK'
    <2>1. /\ Message' = Message /\ Cancellation' = Cancellation /\ Id' = Id
          /\ Due' = Due /\ Flight' = Flight
      BY <1>1 DEF Message, Id, Cancellation, Due, Flight
    <2>2. Cancel(e.m, "NO_INSTANCE_AVAILABLE") \in Cancellation
      BY <1>0 DEF Cancel, Cancellation, Reasons
    <2>3. urgent' \in Seq(Cancellation)
      BY <1>0, <1>1, <2>2 DEF TypeOK
    <2> QED
      BY <1>0, <1>1, <2>1, <2>3 DEF TypeOK
  <1> QED
    BY <1>0, <1>1, <1>3, <1>4, <1>5 DEF HandlingInvariant, NeverAborts

-----------------------------------------------------------------------------
(* Users and instances.                                                    *)

\* A user request of the load generator preserves the invariant.
LEMMA SendNewUserRequestStep ==
  ASSUME HandlingInvariant, NEW op \in UserOp, SendNewUserRequest(op)
  PROVE  HandlingInvariant'
  <1> DEFINE created == NewRequest(op, 0, None, Generator)
             send == Event("send", Req(Len(reqs) + 1), None)
  <1>0. /\ TypeOK /\ Instances /\ NeverAborts
        /\ due \in Seq(Due) /\ flight \in SUBSET Flight
        /\ NotArrived(due, flight) /\ ComputedAtHandler(due)
        /\ FinishingIsDue(due) /\ EndIdle(due)
        /\ ArriveOnce(due, flight) /\ EndOnce(due)
    BY InvariantFacts
  <1>1. /\ reqs' = Append(reqs, created) /\ due' = Append(due, send)
        /\ UNCHANGED <<state, handling, openDeps, notComputed, waiting>>
        /\ UNCHANGED <<outgoing, cpu, finishing, urgent, flight, armed, older, aborted>>
    BY DEF SendNewUserRequest, instVars
  <1>2. /\ created \in Request /\ created.handler = None /\ created.done = {}
        /\ ~created.computed
    BY ArchitectureAssumption, NewRequestType
  <1>3. /\ Grows(reqs') /\ Req(Len(reqs) + 1) \in Message'
        /\ Absent(Req(Len(reqs) + 1).r, due, flight) /\ Fresh(send, reqs')
    <2>1. Harmless(reqs)
      BY <1>0, NoChangeHarmless
    <2> QED
      BY <2>1, <1>1, <1>2, CreatedFacts
  <1>4. send.type = "send" /\ send.m = Req(Len(reqs) + 1)
    BY DEF Event
  <1>5. send \in Due' /\ due \in Seq(Due')
    BY <1>0, <1>3, TypesKept DEF Event, Due, Grows
  <1> HIDE DEF send, created
  <1>6. Instances'
    BY <1>0, <1>1, <1>3, InstancesKept
  <1>7. Events(due, flight)'
    <2>1. Range(due') = Range(due) \cup {send}
      BY <1>1, <1>5, AppendRange
    <2>2. ArriveOnce(due', flight')
      BY <1>0, <1>1, <1>3, <1>4, <1>5, AppendArrive
    <2>3. EndOnce(due')
      BY <1>0, <1>1, <1>4, <1>5, AppendEnd
    <2> QED
      BY <2>1, <2>2, <2>3, <1>0, <1>1, <1>3, EventsKept
  <1>8. TypeOK'
    <2>1. /\ handling \in [Instance -> SUBSET Id']
          /\ openDeps \in [Instance -> SUBSET (Id' \X DepName)]
          /\ outgoing \in [Instance -> SUBSET Message']
          /\ cpu \in [Instance -> SUBSET Id'] /\ finishing \subseteq Id'
          /\ urgent \in Seq(Cancellation')
          /\ flight \subseteq Flight' /\ armed \subseteq Message'
      BY <1>0, <1>3, TypesKept DEF Grows
    <2>2. due' \in Seq(Due')
      BY <1>1, <1>5
    <2> QED
      BY <2>1, <2>2, <1>0, <1>1, <1>3 DEF TypeOK, Grows
  <1> QED
    BY <1>0, <1>1, <1>6, <1>7, <1>8 DEF HandlingInvariant, NeverAborts

-----------------------------------------------------------------------------
(* Requests that arrive.                                                   *)

\* A step in which request r gets its handler i, and requests are created
Received(s, r, i) ==
  /\ s \in Seq(Request) /\ Len(s) >= Len(reqs)
  /\ \A x \in Id : /\ s[x].op = reqs[x].op
                   /\ s[x].handler = IF x = r THEN i ELSE reqs[x].handler
                   /\ s[x].done = reqs[x].done
                   /\ s[x].computed = reqs[x].computed

\* Nothing is known of a request that arrives.
LEMMA ArrivingFacts ==
  ASSUME HandlingInvariant, NEW e, NEW q, NEW f, Rest(e, q, f),
         e.type = "receive", ~e.m.ans
  PROVE  /\ e.m.r \in Id /\ Untouched(reqs, e.m.r) /\ Absent(e.m.r, q, f)
         /\ e.m.r \notin finishing
         /\ \A j \in Instance : e.m.r \notin handling[j] /\ e.m.r \notin cpu[j]
  <1>0. TypeOK /\ Instances /\ e.m \in Message
    BY InvariantFacts, RestFacts
  <1>1. e.m.r \in Id /\ Untouched(reqs, e.m.r) /\ Absent(e.m.r, q, f)
    BY <1>0 DEF Rest, OnTheWay, Message
  <1>2. reqs[e.m.r].handler \notin Instance
    BY <1>1, ArchitectureAssumption DEF Untouched
  <1>3. e.m.r \notin finishing
    BY <1>2, FinishingHandler
  <1>4. \A j \in Instance : e.m.r \notin handling[j]
    BY <1>0, <1>2 DEF Instances, HandlerKnown
  <1>5. \A j \in Instance : e.m.r \notin cpu[j]
    BY <1>0, <1>4 DEF Instances, ComputingIsHandled
  <1> QED
    BY <1>1, <1>3, <1>4, <1>5

\* The arrival of a request keeps the facts about the events left.
LEMMA ArrivalEvents ==
  ASSUME HandlingInvariant, NEW e, NEW q, NEW f, Rest(e, q, f),
         e.type = "receive", ~e.m.ans, CanHandle(e.i, e.m),
         Received(reqs', e.m.r, e.i), UNCHANGED <<state, finishing>>,
         handling' = [handling EXCEPT ![e.i] = @ \cup {e.m.r}],
         ArriveOnce(due', flight'), EndOnce(due'), flight' = f,
         Range(q) \subseteq Range(due'),
         \A d \in Range(due') : d \in Range(q) \/ Fresh(d, reqs')
  PROVE  Events(due, flight)'
  <1> DEFINE r == e.m.r
             i == e.i
  <1>0. /\ TypeOK /\ i \in Instance
        /\ q \in Seq(Due) /\ f \in SUBSET Flight
        /\ NotArrived(q, f) /\ ComputedAtHandler(q) /\ FinishingIsDue(q)
        /\ EndIdle(q)
    BY InvariantFacts, RestFacts
  <1>1. r \in Id /\ Untouched(reqs, r) /\ Absent(r, q, f)
    BY ArrivingFacts
  <1>2. Range(q) \subseteq Due
    BY <1>0, RangeElements
  <1>3. NotArrived(due, flight)'
    <2> SUFFICES ASSUME NEW d \in Range(due') \cup flight', OnTheWay(d)
                 PROVE  Untouched(reqs', d.m.r)
      BY DEF NotArrived
    <2>1. CASE Fresh(d, reqs')
      BY <2>1 DEF Fresh
    <2>2. CASE d \in Range(q) \cup f
      <3>1. d.m.r # r /\ Untouched(reqs, d.m.r)
        BY <2>2, <1>0, <1>1 DEF Absent, NotArrived
      <3>2. d.m.r \in Id
        BY <2>2, <1>0, <1>2 DEF OnTheWay, Due, Flight, Message
      <3> QED
        BY <3>1, <3>2 DEF Received, Untouched
    <2> QED
      BY <2>1, <2>2
  <1>4. ComputedAtHandler(due)'
    <2> SUFFICES ASSUME NEW d \in Range(q), d.type = "computed"
                 PROVE  ~d.m.ans /\ reqs'[d.m.r].handler = d.i
      BY DEF ComputedAtHandler, Fresh
    <2>1. ~d.m.ans /\ reqs[d.m.r].handler = d.i
      BY <1>0 DEF ComputedAtHandler
    <2>2. d.m.r \in Id /\ d.i \in Instance
      BY <1>2 DEF Due, Message
    <2>3. d.m.r # r
      BY <2>1, <2>2, <1>1, ArchitectureAssumption DEF Untouched
    <2> QED
      BY <2>1, <2>2, <2>3 DEF Received
  <1>5. FinishingIsDue(due)'
    BY <1>0 DEF FinishingIsDue
  <1>6. EndIdle(due)'
    <2> SUFFICES ASSUME NEW d \in Range(q), d.type = "end"
                 PROVE  state[d.i] = "SHUTTING_DOWN" /\ handling'[d.i] = {}
      BY DEF EndIdle, Fresh
    <2>1. state[d.i] = "SHUTTING_DOWN" /\ handling[d.i] = {} /\ d.i \in Instance
      BY <1>0, <1>2 DEF EndIdle, Due
    <2>2. d.i # i
      BY <2>1 DEF CanHandle
    <2> QED
      BY <2>1, <2>2, <1>0 DEF TypeOK
  <1> QED
    BY <1>3, <1>4, <1>5, <1>6 DEF Events

\* The arrival of a request keeps the facts about the instances.
LEMMA ArrivalInstances ==
  ASSUME HandlingInvariant, NEW e, NEW q, NEW f, Rest(e, q, f),
         e.type = "receive", ~e.m.ans, CanHandle(e.i, e.m),
         Received(reqs', e.m.r, e.i), UNCHANGED <<state, finishing>>,
         handling' = [handling EXCEPT ![e.i] = @ \cup {e.m.r}],
         \/ /\ cpu' = [cpu EXCEPT ![e.i] = @ \cup {e.m.r}]
            /\ openDeps' = openDeps
         \/ /\ cpu' = cpu
            /\ openDeps' = [openDeps EXCEPT ![e.i] = @ \cup AllDeps(e.m.r)]
  PROVE  Instances'
  <1> DEFINE r == e.m.r
             i == e.i
  <1>0. /\ TypeOK /\ Instances /\ i \in Instance
        /\ handling \in [Instance -> SUBSET Id] /\ finishing \subseteq Id
        /\ openDeps \in [Instance -> SUBSET (Id \X DepName)]
        /\ cpu \in [Instance -> SUBSET Id]
    BY InvariantFacts, RestFacts DEF TypeOK
  <1>1. /\ r \in Id /\ Untouched(reqs, r) /\ r \notin finishing
        /\ \A j \in Instance : r \notin handling[j] /\ r \notin cpu[j]
    BY ArrivingFacts
  <1>2. Live(i)
    BY DEF CanHandle, Live
  <1> HIDE DEF r, i
  <1>3. \A j \in Instance :
          /\ handling'[j] = IF j = i THEN handling[i] \cup {r} ELSE handling[j]
          /\ cpu'[j] \subseteq IF j = i THEN cpu[i] \cup {r} ELSE cpu[j]
    BY <1>0 DEF r, i
  <1>4. \A j \in Instance : \A x \in Id', n \in DepName :
          <<x, n>> \in openDeps'[j] =>
            \/ <<x, n>> \in openDeps[j] /\ x # r
            \/ j = i /\ x = r /\ n \in Deps(r) /\ r \notin cpu'[i]
    <2> SUFFICES ASSUME NEW j \in Instance, NEW x \in Id', NEW n \in DepName,
                        <<x, n>> \in openDeps'[j]
                 PROVE  \/ <<x, n>> \in openDeps[j] /\ x # r
                        \/ j = i /\ x = r /\ n \in Deps(r) /\ r \notin cpu'[i]
      OBVIOUS
    <2>1. <<x, n>> \in openDeps[j] => x # r
      BY <1>0, <1>1 DEF Instances, OpenIsWaiting
    <2>2. CASE openDeps' = openDeps
      BY <2>1, <2>2
    <2>3. CASE cpu' = cpu /\ openDeps' = [openDeps EXCEPT ![i] = @ \cup AllDeps(r)]
      BY <2>1, <2>3, <1>0, <1>1 DEF AllDeps
    <2> QED
      BY <2>2, <2>3 DEF r, i
  <1>5. HandlerKnown'
    BY <1>0, <1>1, <1>3 DEF Instances, HandlerKnown, Received, Untouched, r, i
  <1>6. OpenIsWaiting'
    <2> SUFFICES ASSUME NEW j \in Instance, NEW x \in Id', NEW n \in DepName,
                        <<x, n>> \in openDeps'[j]
                 PROVE  /\ x \in handling'[j] /\ x \notin cpu'[j]
                        /\ x \notin finishing'
                        /\ n \in Deps(x)' \ reqs'[x].done
      BY DEF OpenIsWaiting
    <2>1. CASE <<x, n>> \in openDeps[j] /\ x # r
      <3>1. x \in Id
        BY <2>1, <1>0
      <3>2. /\ x \in handling[j] /\ x \notin cpu[j] /\ x \notin finishing
            /\ n \in Deps(x) \ reqs[x].done
        BY <2>1, <3>1, <1>0 DEF Instances, OpenIsWaiting
      <3>3. Deps(x)' = Deps(x) /\ reqs'[x].done = reqs[x].done
        BY <3>1 DEF Deps, Received
      <3> QED
        BY <2>1, <3>2, <3>3, <1>3
    <2>2. CASE j = i /\ x = r /\ n \in Deps(r) /\ r \notin cpu'[i]
      <3>1. Deps(r)' = Deps(r) /\ reqs'[r].done = {}
        BY <1>1 DEF Deps, Received, Untouched
      <3> QED
        BY <2>2, <3>1, <1>0, <1>1, <1>3
    <2> QED
      BY <2>1, <2>2, <1>4
  <1>7. ComputedOnce'
    BY <1>0, <1>1, <1>3 DEF Instances, ComputedOnce
  <1>8. ComputingIsHandled'
    <2>1. \A j \in Instance : cpu'[j] \subseteq IF Live(j)' THEN handling'[j] ELSE {}
      BY <1>0, <1>2, <1>3 DEF Instances, ComputingIsHandled, Live
    <2>2. ASSUME NEW x \in finishing'
          PROVE  (Live(reqs[x].handler) /\ x \in handling[reqs[x].handler])'
      <3>1. x \in finishing /\ x \in Id /\ x # r
        BY <1>0, <1>1
      <3>2. reqs'[x].handler = reqs[x].handler
        BY <3>1 DEF Received, r
      <3>3. Live(reqs[x].handler) /\ x \in handling[reqs[x].handler]
        BY <3>1, <1>0 DEF Instances, ComputingIsHandled
      <3>4. reqs[x].handler \in Instance
        BY <3>1, FinishingHandler
      <3> QED
        BY <3>2, <3>3, <3>4, <1>3 DEF Live
    <2> QED
      BY <2>1, <2>2 DEF ComputingIsHandled
  <1>9. ShutdownIsIdle'
    <2> SUFFICES ASSUME NEW j \in Instance, state[j] = "SHUTDOWN"
                 PROVE  handling'[j] = {} /\ openDeps'[j] = {} /\ cpu'[j] = {}
      BY DEF ShutdownIsIdle
    <2>1. j # i
      BY <1>2 DEF Live
    <2>2. openDeps'[j] = openDeps[j]
      BY <2>1, <1>0 DEF i
    <2> QED
      BY <2>1, <2>2, <1>0, <1>3 DEF Instances, ShutdownIsIdle
  <1> QED
    BY <1>5, <1>6, <1>7, <1>8, <1>9 DEF Instances

\* The type of a request that arrives
LEMMA ReceivedType ==
  ASSUME TypeOK, NEW r \in Id, NEW i \in Instance, NEW c \in [DepName -> Nat]
  PROVE  /\ Received([reqs EXCEPT ![r].handler = i], r, i)
         /\ Received([reqs EXCEPT ![r].handler = i, ![r].child = c], r, i)
         /\ Len([reqs EXCEPT ![r].handler = i, ![r].child = c]) = Len(reqs)
  <1>1. reqs[r] \in Request
    BY ReqsType
  <1>2. ASSUME NEW v \in Request, v.op = reqs[r].op, v.done = reqs[r].done,
               v.handler = i, v.computed = reqs[r].computed
        PROVE  Received([reqs EXCEPT ![r] = v], r, i) /\ Len([reqs EXCEPT ![r] = v]) = Len(reqs)
    BY <1>2, ReqsType, ExceptSeq DEF Received, Id
  <1>3. Received([reqs EXCEPT ![r].handler = i], r, i)
    <2> DEFINE v == [reqs[r] EXCEPT !.handler = i]
    <2>1. /\ v \in Request /\ v.op = reqs[r].op /\ v.done = reqs[r].done
          /\ v.handler = i /\ v.computed = reqs[r].computed
      BY <1>1 DEF Request
    <2> HIDE DEF v
    <2>2. Received([reqs EXCEPT ![r] = v], r, i)
      BY <2>1, <1>2
    <2> QED
      BY <2>2 DEF v
  <1>4. /\ Received([reqs EXCEPT ![r].handler = i, ![r].child = c], r, i)
        /\ Len([reqs EXCEPT ![r].handler = i, ![r].child = c]) = Len(reqs)
    <2> DEFINE v == [reqs[r] EXCEPT !.handler = i, !.child = c]
    <2>1. /\ v \in Request /\ v.op = reqs[r].op /\ v.done = reqs[r].done
          /\ v.handler = i /\ v.computed = reqs[r].computed
      BY <1>1 DEF Request
    <2>2. [reqs EXCEPT ![r].handler = i, ![r].child = c] = [reqs EXCEPT ![r] = v]
      BY <1>1, ReqsType DEF Request
    <2> HIDE DEF v
    <2>3. /\ Received([reqs EXCEPT ![r] = v], r, i)
          /\ Len([reqs EXCEPT ![r] = v]) = Len(reqs)
      BY <2>1, <1>2
    <2> QED
      BY <2>2, <2>3
  <1> QED
    BY <1>3, <1>4

\* What ReceiveCompositeRequest creates when the dependencies of r are opened
\* in the given order: the children, their requests, and the events that send
\* them.
ChildrenOf(r, order) ==
  [n \in DepName |->
     IF n \in Deps(r) THEN Len(reqs) + CHOOSE k \in DOMAIN order : order[k] = n
                      ELSE 0]
Created(r, i, order) ==
  [k \in DOMAIN order |-> NewRequest(TargetOf[order[k]], r, order[k], i)]
Sends(order) ==
  [k \in DOMAIN order |-> Event("send", Req(Len(reqs) + k), None)]

\* The child requests created for an arriving request are new.
LEMMA ChildrenFacts ==
  ASSUME HandlingInvariant, NEW r \in Id, NEW i \in Instance,
         NEW order \in Orders(Deps(r))
  PROVE  /\ ChildrenOf(r, order) \in [DepName -> Nat]
         /\ Created(r, i, order) \in Seq(Request)
         /\ \A k \in 1..Len(Created(r, i, order)) :
              /\ Created(r, i, order)[k].handler = None
              /\ Created(r, i, order)[k].done = {}
              /\ ~Created(r, i, order)[k].computed
         /\ DOMAIN Sends(order) = 1..Len(Created(r, i, order))
         /\ \A k \in 1..Len(Created(r, i, order)) :
              Sends(order)[k] = Event("send", Req(Len(reqs) + k), None)
  <1> DEFINE c == Cardinality(Deps(r))
             new(n) == Len(reqs) + CHOOSE k \in DOMAIN order : order[k] = n
             created == Created(r, i, order)
  <1>0. TypeOK /\ Len(reqs) \in Nat /\ r \in Nat /\ reqs[r].op \in Op
    <2>1. TypeOK /\ Len(reqs) \in Nat /\ reqs[r] \in Request
      BY InvariantFacts, ReqsType
    <2> QED
      BY <2>1 DEF Id, Request
  <1>1. Deps(r) \subseteq DepName /\ c \in Nat
    <2>1. Deps(r) \subseteq DepName
      BY <1>0, ArchitectureAssumption DEF Deps
    <2> QED
      BY <2>1, FS_Subset, FS_CardinalityType, ArchitectureAssumption
  <1>2. /\ order \in [1..c -> Deps(r)]
        /\ \A n \in Deps(r) : \E k \in 1..c : order[k] = n
    BY DEF Orders, Bijection, Surjection, Injection
  <1> HIDE DEF c
  <1>3. DOMAIN order = 1..c
    BY <1>2
  <1>4. ASSUME NEW n \in Deps(r) PROVE new(n) \in Nat
    <2>1. (CHOOSE k \in DOMAIN order : order[k] = n) \in 1..c
      BY <1>2, <1>3
    <2> QED
      BY <2>1, <1>0, <1>1
  <1>5. /\ created \in Seq(Request) /\ Len(created) = c
        /\ \A k \in 1..c : /\ created[k].handler = None /\ created[k].done = {}
                           /\ ~created[k].computed
    <2>1. ASSUME NEW k \in 1..c
          PROVE  /\ created[k] \in Request
                 /\ created[k].handler = None /\ created[k].done = {}
                 /\ ~created[k].computed
      <3>1. order[k] \in DepName /\ TargetOf[order[k]] \in Op
        BY <1>1, <1>2, ArchitectureAssumption
      <3>2. created[k] = NewRequest(TargetOf[order[k]], r, order[k], i)
        BY <1>3 DEF Created
      <3>3. i \in Instance \cup {Generator} /\ order[k] \in DepName \cup {None}
        BY <3>1
      <3> QED
        BY <3>1, <3>2, <3>3, <1>0, NewRequestType
    <2>2. created = [k \in 1..c |-> created[k]]
      BY <1>3 DEF Created
    <2> HIDE DEF created
    <2> QED
      BY <2>1, <2>2, <1>1, IsASeq, SeqDef
  <1>6. ChildrenOf(r, order) \in [DepName -> Nat]
    <2>1. ChildrenOf(r, order) = [n \in DepName |-> IF n \in Deps(r) THEN new(n) ELSE 0]
      BY DEF ChildrenOf
    <2> HIDE DEF new
    <2> QED
      BY <1>4, <2>1
  <1>7. /\ DOMAIN Sends(order) = 1..c
        /\ \A k \in 1..c :
             Sends(order)[k] = Event("send", Req(Len(reqs) + k), None)
    BY <1>3 DEF Sends
  <1> QED
    BY <1>5, <1>6, <1>7

\* Requests b are created behind the requests a, and events t will send them.
LEMMA SendCreated ==
  ASSUME HandlingInvariant, NEW e, NEW q, NEW f, Rest(e, q, f),
         e.type # "computed",
         NEW r, NEW i, NEW a, Received(a, r, i), Len(a) = Len(reqs),
         NEW b \in Seq(Request), NEW t, reqs' = a \o b,
         \A k \in 1..Len(b) :
            b[k].handler = None /\ b[k].done = {} /\ ~b[k].computed,
         t = [k \in 1..Len(b) |-> t[k]],
         \A k \in 1..Len(b) : t[k] = Event("send", Req(Len(reqs) + k), None)
  PROVE  /\ Received(reqs', r, i)
         /\ t \in Seq(Due') /\ ArriveOnce(t, {})
         /\ \A d \in Range(t) : d.type = "send" /\ Fresh(d, reqs')
         /\ \A d \in Range(t) : OnTheWay(d) => Absent(d.m.r, q, f)
  <1>0. /\ TypeOK /\ Len(reqs) \in Nat /\ Len(b) \in Nat
        /\ q \in Seq(Due) /\ f \subseteq Flight
    BY InvariantFacts, ReqsType, RestFacts
  <1>1. /\ a \in Seq(Request) /\ reqs' \in Seq(Request)
        /\ Len(reqs') = Len(reqs) + Len(b)
        /\ \A k \in 1..Len(reqs) + Len(b) :
             reqs'[k] = IF k <= Len(reqs) THEN a[k] ELSE b[k - Len(reqs)]
    <2> DEFINE c == a \o b
    <2>1. a \in Seq(Request)
      BY DEF Received
    <2>2. /\ c \in Seq(Request) /\ Len(c) = Len(a) + Len(b)
          /\ \A k \in 1..Len(a) + Len(b) :
               c[k] = IF k <= Len(a) THEN a[k] ELSE b[k - Len(a)]
      <3>1. \A u, v \in Seq(Request) :
              /\ u \o v \in Seq(Request) /\ Len(u \o v) = Len(u) + Len(v)
              /\ \A k \in 1..Len(u) + Len(v) :
                   (u \o v)[k] = IF k <= Len(u) THEN u[k] ELSE v[k - Len(u)]
        BY ConcatRange
      <3> QED
        BY <2>1, <3>1, Zenon
    <2> HIDE DEF c
    <2>3. reqs' = c
      BY DEF c
    <2> QED
      BY <2>1, <2>2, <2>3
  <1>2. Received(reqs', r, i)
    BY <1>0, <1>1 DEF Received, Id
  <1>3. ASSUME NEW k \in 1..Len(b)
        PROVE  /\ Len(reqs) + k \in Id' /\ Len(reqs) + k \notin Id
               /\ reqs'[Len(reqs) + k] = b[k]
    BY <1>0, <1>1 DEF Id
  <1>4. ASSUME NEW k \in 1..Len(b)
        PROVE  /\ t[k] \in Due' /\ t[k].type = "send"
               /\ t[k].m.r = Len(reqs) + k
               /\ Untouched(reqs', t[k].m.r)
    <2>1. Req(Len(reqs) + k) \in Message' /\ Req(Len(reqs) + k).r = Len(reqs) + k
      BY <1>3 DEF Req, Message
    <2>2. t[k] \in Due' /\ t[k].m = Req(Len(reqs) + k) /\ t[k].type = "send"
      BY <2>1 DEF Event, Due
    <2> QED
      BY <2>1, <2>2, <1>3 DEF Untouched
  <1>5. t \in Seq(Due')
    <2>1. \A k \in 1..Len(b) : t[k] \in Due'
      BY <1>4
    <2> QED
      BY <2>1, <1>0, IsASeq, SeqDef
  <1>6. ArriveOnce(t, {})
    <2>1. ASSUME NEW k \in DOMAIN t, NEW l \in DOMAIN t, t[k].m.r = t[l].m.r
          PROVE  k = l
      <3>1. Len(reqs) + k = Len(reqs) + l
        BY <2>1, <1>4
      <3> QED
        BY <3>1, <1>0
    <2> QED
      BY <2>1 DEF ArriveOnce
  <1>7. \A d \in Range(t) : \E k \in 1..Len(b) : d = t[k]
    BY DEF Range
  <1>8. \A d \in Range(t) : d.type = "send" /\ Fresh(d, reqs')
    BY <1>4, <1>7 DEF Fresh
  <1>9. ASSUME NEW d \in Range(t) PROVE Absent(d.m.r, q, f)
    <2>1. d.m.r \notin Id
      BY <1>3, <1>4, <1>7
    <2>2. Range(q) \subseteq Due
      BY <1>0, RangeElements
    <2> QED
      BY <2>1, <2>2, <1>0 DEF Absent, OnTheWay, Due, Flight, Message
  <1> QED
    BY <1>2, <1>5, <1>6, <1>8, <1>9

\* Receiving a request preserves the invariant.
LEMMA ReceiveRequestStep ==
  ASSUME HandlingInvariant, NEW e, NEW q, NEW f, Rest(e, q, f),
         e.type = "receive", ReceiveRequest(e.m, e.i, q),
         flight' = f, UNCHANGED <<state, finishing, aborted>>
  PROVE  HandlingInvariant'
  <1> DEFINE m == e.m
             r == e.m.r
             i == e.i
  <1>0. /\ TypeOK /\ NeverAborts /\ m \in Message /\ i \in Instance
        /\ q \in Seq(Due) /\ f \in SUBSET Flight
        /\ ArriveOnce(q, f) /\ EndOnce(q)
    BY InvariantFacts, RestFacts
  <1>1. /\ ~m.ans /\ CanHandle(i, m)
        /\ handling' = [handling EXCEPT ![i] = @ \cup {r}]
        /\ notComputed' = [notComputed EXCEPT ![i] = @ + 1]
        /\ outgoing' = Arrived(m)
        /\ UNCHANGED <<urgent, armed, older>>
    BY DEF ReceiveRequest
  <1>2. r \in Id
    BY <1>1, ArrivingFacts
  <1>3. SUFFICES /\ Received(reqs', r, i)
                 /\ due' \in Seq(Due') /\ ArriveOnce(due', flight') /\ EndOnce(due')
                 /\ Range(q) \subseteq Range(due')
                 /\ \A d \in Range(due') : d \in Range(q) \/ Fresh(d, reqs')
                 /\ waiting' \in [Instance -> Int]
                 /\ \/ /\ cpu' = [cpu EXCEPT ![i] = @ \cup {r}]
                       /\ openDeps' = openDeps
                    \/ /\ cpu' = cpu
                       /\ openDeps' = [openDeps EXCEPT ![i] = @ \cup AllDeps(r)]
    <2>1. Instances'
      BY <1>1, <1>3, ArrivalInstances
    <2>2. Events(due, flight)'
      BY <1>1, <1>3, ArrivalEvents
    <2>3. /\ Id \subseteq Id' /\ Message \subseteq Message' /\ Flight \subseteq Flight'
          /\ handling \in [Instance -> SUBSET Id']
          /\ openDeps \in [Instance -> SUBSET (Id' \X DepName)]
          /\ cpu \in [Instance -> SUBSET Id'] /\ finishing \subseteq Id'
          /\ urgent \in Seq(Cancellation') /\ armed \subseteq Message'
      BY <1>0, <1>3, TypesKept DEF Received
    <2>4. handling' \in [Instance -> SUBSET Id'] /\ cpu' \in [Instance -> SUBSET Id']
      <3>1. r \in Id'
        BY <1>2, <2>3
      <3>2. handling' \in [Instance -> SUBSET Id']
        BY <3>1, <1>0, <1>1, <2>3
      <3>3. [cpu EXCEPT ![i] = @ \cup {r}] \in [Instance -> SUBSET Id']
        BY <3>1, <2>3
      <3> QED
        BY <3>2, <3>3, <1>3, <2>3
    <2>5. AllDeps(r) \subseteq Id' \X DepName
      <3>1. r \in Id'
        BY <1>2, <2>3
      <3>2. reqs[r].op \in Op
        BY <1>0, <1>2, ReqsType DEF Request
      <3>3. Deps(r) \subseteq DepName
        BY <3>2, ArchitectureAssumption DEF Deps
      <3> QED
        BY <3>1, <3>3 DEF AllDeps
    <2>6. openDeps' \in [Instance -> SUBSET (Id' \X DepName)]
      <3>1. [openDeps EXCEPT ![i] = @ \cup AllDeps(r)]
              \in [Instance -> SUBSET (Id' \X DepName)]
        BY <2>3, <2>5
      <3> QED
        BY <3>1, <1>3, <2>3
    <2>7. outgoing' \in [Instance -> SUBSET Message']
      BY <1>0, <1>1, <2>3, OutgoingType
    <2>8. notComputed' \in [Instance -> Int]
      BY <1>0, <1>1, CounterType DEF TypeOK
    <2>9. TypeOK'
      BY <1>0, <1>1, <1>3, <2>3, <2>4, <2>6, <2>7, <2>8 DEF TypeOK, Received
    <2> QED
      BY <2>1, <2>2, <2>9, <1>0 DEF HandlingInvariant, NeverAborts
  <1>4. CASE ReceiveLeafRequest(r, i, q)
    <2>1. Received(reqs', r, i)
      <3>1. \A c \in [DepName -> Nat] : Received([reqs EXCEPT ![r].handler = i], r, i)
        BY <1>0, <1>2, ReceivedType
      <3>2. [n \in DepName |-> 0] \in [DepName -> Nat]
        OBVIOUS
      <3> QED
        BY <3>1, <3>2, <1>4, Zenon DEF ReceiveLeafRequest
    <2>2. due' = q /\ q \in Seq(Due')
      BY <2>1, <1>0, <1>4, TypesKept DEF ReceiveLeafRequest, Received
    <2> QED
      BY <2>1, <2>2, <1>0, <1>4 DEF ReceiveLeafRequest, TypeOK
  <1>5. CASE ReceiveCompositeRequest(r, i, q)
    <2> DEFINE base(c) == [reqs EXCEPT ![r].handler = i, ![r].child = c]
    <2>1. PICK order \in Orders(Deps(r)) :
            /\ reqs' = base(ChildrenOf(r, order)) \o Created(r, i, order)
            /\ due' = q \o Sends(order)
      BY <1>5, Zenon DEF ReceiveCompositeRequest, ChildrenOf, Created, Sends
    <2> DEFINE a == base(ChildrenOf(r, order))
               b == Created(r, i, order)
               t == Sends(order)
    <2>2. /\ ChildrenOf(r, order) \in [DepName -> Nat]
          /\ b \in Seq(Request) /\ DOMAIN t = 1..Len(b)
          /\ \A k \in 1..Len(b) :
            b[k].handler = None /\ b[k].done = {} /\ ~b[k].computed
          /\ \A k \in 1..Len(b) : t[k] = Event("send", Req(Len(reqs) + k), None)
      <3> HIDE DEF r, i
      <3>1. \A x \in Id, j \in Instance : \A o \in Orders(Deps(x)) :
              /\ ChildrenOf(x, o) \in [DepName -> Nat]
              /\ Created(x, j, o) \in Seq(Request)
              /\ \A k \in 1..Len(Created(x, j, o)) :
                   /\ Created(x, j, o)[k].handler = None
                   /\ Created(x, j, o)[k].done = {}
                   /\ ~Created(x, j, o)[k].computed
              /\ DOMAIN Sends(o) = 1..Len(Created(x, j, o))
              /\ \A k \in 1..Len(Created(x, j, o)) :
                   Sends(o)[k] = Event("send", Req(Len(reqs) + k), None)
        BY ChildrenFacts
      <3> QED
        BY <3>1, <1>0, <1>2
    <2>3. Received(a, r, i) /\ Len(a) = Len(reqs)
      <3>1. \A c \in [DepName -> Nat] :
              Received(base(c), r, i) /\ Len(base(c)) = Len(reqs)
        BY <1>0, <1>2, ReceivedType
      <3> HIDE DEF base
      <3> QED
        BY <3>1, <2>2
    <2>4. t = [k \in 1..Len(b) |-> t[k]]
      <3>1. t = [k \in DOMAIN t |-> t[k]]
        BY DEF Sends
      <3> HIDE DEF t, b
      <3> QED
        BY <3>1, <2>2
    <2> HIDE DEF base, a, b, t
    <2>5. reqs' = a \o b /\ due' = q \o t
      BY <2>1 DEF a, b, t
    <2>6. /\ Received(reqs', r, i)
          /\ t \in Seq(Due') /\ ArriveOnce(t, {})
          /\ \A d \in Range(t) : d.type = "send" /\ Fresh(d, reqs')
          /\ \A d \in Range(t) : OnTheWay(d) => Absent(d.m.r, q, f)
      <3>1. e.type # "computed"
        OBVIOUS
      <3> QED
        BY <3>1, <2>2, <2>3, <2>4, <2>5, SendCreated
    <2>7. q \in Seq(Due')
      BY <2>6, <1>0, TypesKept DEF Received
    <2>8. due' \in Seq(Due') /\ Range(due') = Range(q) \cup Range(t)
      BY <2>5, <2>6, <2>7, ConcatRange
    <2>9. ArriveOnce(due', flight') /\ EndOnce(due')
      BY <2>5, <2>6, <2>7, <1>0, ConcatArrive, ConcatEnd
    <2>10. waiting' \in [Instance -> Int]
      BY <1>0, <1>5, CounterType DEF ReceiveCompositeRequest, TypeOK
    <2> QED
      BY <2>6, <2>8, <2>9, <2>10, <1>5 DEF ReceiveCompositeRequest
  <1> QED
    BY <1>4, <1>5 DEF ReceiveRequest

\* Dependency n of request p is completed; v is what becomes of p.
LEMMA CompletedReplaced ==
  ASSUME TypeOK, NEW p \in Id, NEW n, NEW v \in Request,
         v.op = reqs[p].op, v.handler = reqs[p].handler,
         v.done = reqs[p].done \cup {n}, v.computed = reqs[p].computed,
         reqs' = [reqs EXCEPT ![p] = v]
  PROVE  /\ reqs' \in Seq(Request) /\ Len(reqs') = Len(reqs)
         /\ \A x \in Id : /\ reqs'[x].op = reqs[x].op
                          /\ reqs'[x].handler = reqs[x].handler
                          /\ reqs'[x].computed = reqs[x].computed
                          /\ x # p => reqs'[x].done = reqs[x].done
         /\ reqs'[p].done = reqs[p].done \cup {n}
  BY ReqsType, ExceptSeq DEF Id

\* A request with one more completed dependency is well-typed.
LEMMA CompletedType ==
  ASSUME TypeOK, NEW p \in Id, NEW n \in DepName,
         reqs' = [reqs EXCEPT ![p].done = @ \cup {n}, ![p].tries[n] = 0]
  PROVE  /\ reqs' \in Seq(Request) /\ Len(reqs') = Len(reqs)
         /\ \A x \in Id : /\ reqs'[x].op = reqs[x].op
                          /\ reqs'[x].handler = reqs[x].handler
                          /\ reqs'[x].computed = reqs[x].computed
                          /\ x # p => reqs'[x].done = reqs[x].done
         /\ reqs'[p].done = reqs[p].done \cup {n}
  <1> DEFINE v == [reqs[p] EXCEPT !.done = @ \cup {n}, !.tries[n] = 0]
  <1>0. reqs[p] \in Request
    BY ReqsType
  <1>1. v \in Request
    BY <1>0 DEF Request
  <1>2. /\ v.op = reqs[p].op /\ v.handler = reqs[p].handler
        /\ v.done = reqs[p].done \cup {n} /\ v.computed = reqs[p].computed
    BY <1>0 DEF Request
  <1>3. reqs' = [reqs EXCEPT ![p] = v]
    BY <1>0, ReqsType DEF Request
  <1> HIDE DEF v
  <1> QED
    BY <1>1, <1>2, <1>3, CompletedReplaced, ZenonT(40)

\* Receiving an answer preserves the invariant: a request submitted to the
\* CPU has no open dependency left.
LEMMA ReceiveAnswerStep ==
  ASSUME HandlingInvariant, NEW e, NEW q, NEW f, Rest(e, q, f),
         e.type = "receive", ReceiveAnswer(e.m, e.i, q),
         flight' = f, UNCHANGED <<state, finishing, aborted>>
  PROVE  HandlingInvariant'
  <1> DEFINE m == e.m
             i == e.i
             p == Parent(m.r)
             n == reqs[m.r].dep
  <1>0. /\ TypeOK /\ Instances /\ NeverAborts /\ m \in Message /\ i \in Instance
        /\ q \in Seq(Due) /\ f \in SUBSET Flight
        /\ NotArrived(q, f) /\ ComputedAtHandler(q) /\ FinishingIsDue(q)
        /\ EndIdle(q) /\ ArriveOnce(q, f) /\ EndOnce(q)
    BY InvariantFacts, RestFacts
  <1>1. /\ handling \in [Instance -> SUBSET Id] /\ finishing \subseteq Id
        /\ openDeps \in [Instance -> SUBSET (Id \X DepName)]
        /\ cpu \in [Instance -> SUBSET Id]
    BY <1>0 DEF TypeOK
  <1>2. /\ <<p, n>> \in openDeps[i] /\ p \in handling[i] /\ Live(i)
        /\ p \in Id /\ n \in DepName
    <2>1. <<p, n>> \in openDeps[i] /\ p \in handling[i] /\ CanHandle(i, m)
      BY DEF ReceiveAnswer, Awaited, DepOf, Parent
    <2> QED
      BY <2>1, <1>0, <1>1 DEF CanHandle, Live
  <1>3. /\ p \notin cpu[i] /\ p \notin finishing /\ reqs[p].handler = i
    BY <1>0, <1>2 DEF Instances, OpenIsWaiting, HandlerKnown
  <1>4. /\ openDeps' = [openDeps EXCEPT ![i] = @ \ {<<p, n>>}]
        /\ waiting' = [waiting EXCEPT ![i] = IF Completes(p, n) THEN @ - 1 ELSE @]
        /\ cpu' = [cpu EXCEPT ![i] = IF Completes(p, n) THEN @ \cup {p} ELSE @]
        /\ outgoing' = [Arrived(m) EXCEPT ![i] = @ \ {Req(m.r)}]
        /\ Disarm({m, Req(m.r)})
        /\ due' = q /\ flight' = f
        /\ UNCHANGED <<state, finishing, handling, notComputed, urgent, aborted>>
    BY DEF ReceiveAnswer, DepOf, Parent
  <1>5. /\ reqs' \in Seq(Request) /\ Len(reqs') = Len(reqs)
        /\ \A x \in Id : /\ reqs'[x].op = reqs[x].op
                         /\ reqs'[x].handler = reqs[x].handler
                         /\ reqs'[x].computed = reqs[x].computed
                         /\ x # p => reqs'[x].done = reqs[x].done
        /\ reqs'[p].done = reqs[p].done \cup {n}
    <2>1. reqs' = [reqs EXCEPT ![p].done = @ \cup {n}, ![p].tries[n] = 0]
      BY DEF ReceiveAnswer
    <2> HIDE DEF p, n
    <2> QED
      BY <2>1, <1>0, <1>2, CompletedType
  <1>6. Completes(p, n) => \A y \in Deps(p) \ reqs[p].done : y = n
    BY DEF Completes
  <1> HIDE DEF p, n, m, i
  <1>7. /\ \A j \in Instance :
             openDeps'[j] = IF j = i THEN openDeps[i] \ {<<p, n>>} ELSE openDeps[j]
        /\ \A j \in Instance :
             cpu'[j] \subseteq IF j = i /\ Completes(p, n) THEN cpu[i] \cup {p}
                                                          ELSE cpu[j]
    BY <1>0, <1>1, <1>4
  <1>8. Instances'
    <2>1. HandlerKnown'
      BY <1>0, <1>1, <1>4, <1>5 DEF Instances, HandlerKnown
    <2>2. OpenIsWaiting'
      <3> SUFFICES ASSUME NEW j \in Instance, NEW x \in Id', NEW y \in DepName,
                          <<x, y>> \in openDeps'[j]
                   PROVE  /\ x \in handling'[j] /\ x \notin cpu'[j]
                          /\ x \notin finishing'
                          /\ y \in Deps(x)' \ reqs'[x].done
        BY DEF OpenIsWaiting
      <3>1. x \in Id /\ <<x, y>> \in openDeps[j] /\ ~(j = i /\ x = p /\ y = n)
        BY <1>1, <1>7
      <3>2. /\ x \in handling[j] /\ x \notin cpu[j] /\ x \notin finishing
            /\ y \in Deps(x) \ reqs[x].done
        BY <3>1, <1>0 DEF Instances, OpenIsWaiting
      <3>3. x = p => j = i /\ y # n
        BY <3>1, <3>2, <1>0, <1>3 DEF Instances, HandlerKnown
      <3>4. x \notin cpu'[j]
        BY <3>2, <3>3, <1>6, <1>7
      <3>5. Deps(x)' = Deps(x)
        BY <3>1, <1>5 DEF Deps
      <3>6. y \notin reqs'[x].done
        BY <3>1, <3>2, <3>3, <1>5
      <3> QED
        BY <3>2, <3>4, <3>5, <3>6, <1>4
    <2>3. ComputedOnce'
      BY <1>0, <1>3, <1>4, <1>7 DEF Instances, ComputedOnce
    <2>4. ComputingIsHandled'
      <3>1. \A j \in Instance : cpu'[j] \subseteq IF Live(j)' THEN handling'[j] ELSE {}
        BY <1>0, <1>2, <1>4, <1>7 DEF Instances, ComputingIsHandled, Live
      <3>2. \A x \in finishing' :
              (Live(reqs[x].handler) /\ x \in handling[reqs[x].handler])'
        BY <1>0, <1>1, <1>4, <1>5 DEF Instances, ComputingIsHandled, Live
      <3> QED
        BY <3>1, <3>2 DEF ComputingIsHandled
    <2>5. ShutdownIsIdle'
      <3>1. state[i] # "SHUTDOWN"
        BY <1>2 DEF Live
      <3> QED
        BY <3>1, <1>0, <1>4, <1>7 DEF Instances, ShutdownIsIdle
    <2> QED
      BY <2>1, <2>2, <2>3, <2>4, <2>5 DEF Instances
  <1>9. Events(due, flight)'
    <2>1. Range(q) \subseteq Due
      BY <1>0, RangeElements
    <2>2. NotArrived(due, flight)'
      <3> SUFFICES ASSUME NEW d \in Range(q) \cup f, OnTheWay(d)
                   PROVE  Untouched(reqs', d.m.r)
        BY <1>4 DEF NotArrived
      <3>1. Untouched(reqs, d.m.r) /\ d.m.r \in Id
        BY <2>1, <1>0 DEF NotArrived, OnTheWay, Due, Flight, Message
      <3>2. d.m.r # p
        BY <3>1, <1>0, <1>3, ArchitectureAssumption DEF Untouched
      <3> QED
        BY <3>1, <3>2, <1>5 DEF Untouched
    <2>3. ComputedAtHandler(due)'
      BY <2>1, <1>0, <1>4, <1>5 DEF ComputedAtHandler, Due, Message
    <2>4. FinishingIsDue(due)' /\ EndIdle(due)'
      BY <1>0, <1>4 DEF FinishingIsDue, EndIdle
    <2> QED
      BY <2>2, <2>3, <2>4, <1>0, <1>4 DEF Events
  <1>10. TypeOK'
    <2>1. /\ Message \subseteq Message' /\ Id' = Id
          /\ handling \in [Instance -> SUBSET Id']
          /\ openDeps \in [Instance -> SUBSET (Id' \X DepName)]
          /\ cpu \in [Instance -> SUBSET Id'] /\ finishing \subseteq Id'
          /\ urgent \in Seq(Cancellation') /\ q \in Seq(Due')
          /\ f \subseteq Flight' /\ armed \subseteq Message'
      BY <1>0, <1>5, TypesKept, ReqsType DEF Id
    <2>2. Arrived(m) \in [Instance -> SUBSET Message']
      BY <1>0, <2>1, OutgoingType
    <2>3. outgoing' \in [Instance -> SUBSET Message']
      BY <1>0, <1>4, <2>2
    <2>4. armed' \subseteq Message' /\ older' \subseteq armed' \X armed'
      BY <2>1, <1>0, <1>4, DisarmType
    <2>5. openDeps' \in [Instance -> SUBSET (Id' \X DepName)]
      BY <1>4, <2>1
    <2>6. cpu' \in [Instance -> SUBSET Id']
      BY <1>2, <1>4, <2>1
    <2>7. waiting' \in [Instance -> Int]
      <3>1. waiting \in [Instance -> Int]
        BY <1>0 DEF TypeOK
      <3>2. waiting' = [waiting EXCEPT ![i] = @ - 1] \/ waiting' = waiting
        BY <3>1, <1>0, <1>4
      <3> QED
        BY <3>1, <3>2, <1>0, CounterType
    <2> QED
      BY <2>1, <2>3, <2>4, <2>5, <2>6, <2>7, <1>0, <1>4, <1>5 DEF TypeOK
  <1> QED
    BY <1>0, <1>4, <1>8, <1>9, <1>10 DEF HandlingInvariant, NeverAborts

\* A refused message preserves the invariant.
LEMMA RefuseStep ==
  ASSUME HandlingInvariant, NEW e, NEW q, NEW f, Rest(e, q, f),
         e.type = "receive", Refuse(e.m, e.i, q),
         flight' = f, UNCHANGED <<state, finishing, aborted>>
  PROVE  HandlingInvariant'
  <1>0. /\ TypeOK /\ Instances /\ NeverAborts /\ e.m \in Message /\ e.i \in Instance
        /\ q \in Seq(Due) /\ f \in SUBSET Flight
        /\ NotArrived(q, f) /\ ComputedAtHandler(q) /\ FinishingIsDue(q)
        /\ EndIdle(q) /\ ArriveOnce(q, f) /\ EndOnce(q)
    BY InvariantFacts, RestFacts
  <1>1. /\ UNCHANGED <<reqs, handling, notComputed, waiting, outgoing, cpu>>
        /\ UNCHANGED <<armed, older, state, finishing, aborted>>
        /\ due' = q /\ flight' = f
        /\ urgent' = Append(urgent, Cancel(e.m, "HANDLING_INSTANCE_DIED"))
        /\ \/ openDeps' = openDeps
           \/ openDeps' = [openDeps EXCEPT ![e.i] = @ \ {DepOf(e.m.r)}]
    BY DEF Refuse
  <1>2. openDeps \in [Instance -> SUBSET (Id \X DepName)]
    BY <1>0 DEF TypeOK
  <1>3. \A j \in Instance : openDeps'[j] \subseteq openDeps[j]
    BY <1>1, <1>2
  <1>4. Grows(reqs')
    BY <1>0, <1>1, NoChangeHarmless, HarmlessGrows
  <1>5. Instances'
    BY <1>0, <1>1, <1>3, <1>4, InstancesKept
  <1>6. Events(due, flight)'
    BY <1>0, <1>1, <1>4, EventsKept
  <1>7. TypeOK'
    <2>1. /\ Message' = Message /\ Cancellation' = Cancellation /\ Id' = Id
          /\ Due' = Due /\ Flight' = Flight
      BY <1>1 DEF Message, Id, Cancellation, Due, Flight
    <2>2. Cancel(e.m, "HANDLING_INSTANCE_DIED") \in Cancellation
      BY <1>0 DEF Cancel, Cancellation, Reasons
    <2>3. urgent' \in Seq(Cancellation)
      BY <1>0, <1>1, <2>2 DEF TypeOK
    <2>4. openDeps' \in [Instance -> SUBSET (Id \X DepName)]
      BY <1>1, <1>2
    <2> QED
      BY <1>0, <1>1, <2>1, <2>3, <2>4 DEF TypeOK
  <1> QED
    BY <1>0, <1>1, <1>5, <1>6, <1>7 DEF HandlingInvariant, NeverAborts

\* NetworkRequestReceiveEvent preserves the invariant.
LEMMA ReceiveStep ==
  ASSUME HandlingInvariant, NEW e, NEW q, NEW f, Rest(e, q, f),
         e.type = "receive", Receive(e.m, e.i, q, f)
  PROVE  HandlingInvariant'
  BY ReceiveRequestStep, ReceiveAnswerStep, RefuseStep DEF Receive

-----------------------------------------------------------------------------
(* Computing, killing and shutting down.                                   *)

\* A new event that says nothing wrong about its request
Sound(d, s) ==
  /\ OnTheWay(d) => Untouched(s, d.m.r)
  /\ d.type = "computed" => ~d.m.ans /\ s[d.m.r].handler = d.i

\* A step that may also complete the computation of a request with a handler
Advances(s) ==
  /\ s \in Seq(Request) /\ Len(s) >= Len(reqs)
  /\ \A r \in Id : /\ s[r].op = reqs[r].op
                   /\ s[r].handler = reqs[r].handler
                   /\ s[r].done = reqs[r].done
                   /\ s[r].computed => reqs[r].computed \/ reqs[r].handler # None

\* A step that grows the requests completes no computation.
LEMMA GrowsAdvances ==
  ASSUME NEW s, Grows(s)
  PROVE  Advances(s)
  BY DEF Grows, Advances

\* The facts about the events follow from their parts.
LEMMA EventsMade ==
  ASSUME TypeOK, NEW q \in Seq(Due), NEW f \in SUBSET Flight,
         NotArrived(q, f), ComputedAtHandler(q), Advances(reqs'), flight' = f,
         \A d \in Range(due') : d \in Range(q) \/ Sound(d, reqs'),
         ArriveOnce(due', f), EndOnce(due'), EndIdle(due)', FinishingIsDue(due)'
  PROVE  Events(due, flight)'
  <1>1. Range(q) \subseteq Due
    BY RangeElements
  <1>2. \A d \in Range(q) \cup f : OnTheWay(d) => d.m.r \in Id
    BY <1>1 DEF Due, Flight, Message, OnTheWay
  <1>3. \A d \in Range(q) : d.type = "computed" => d.m.r \in Id
    BY <1>1 DEF Due, Message
  <1>4. NotArrived(due, flight)'
    BY <1>2 DEF NotArrived, Sound, Advances, Untouched
  <1>5. ComputedAtHandler(due)'
    BY <1>3 DEF ComputedAtHandler, Sound, Advances
  <1> QED
    BY <1>4, <1>5 DEF Events

\* ComputationBurstCompletedEvent preserves the invariant.
LEMMA CompleteBurstStep ==
  ASSUME HandlingInvariant, NEW i \in Instance, NEW r \in cpu[i],
         CompleteBurst(i, r)
  PROVE  HandlingInvariant'
  <1> DEFINE d == Event("computed", Req(r), i)
  <1>0. /\ TypeOK /\ Instances /\ NeverAborts
        /\ due \in Seq(Due) /\ flight \in SUBSET Flight
        /\ NotArrived(due, flight) /\ ComputedAtHandler(due)
        /\ FinishingIsDue(due) /\ EndIdle(due)
        /\ ArriveOnce(due, flight) /\ EndOnce(due)
    BY InvariantFacts
  <1>1. /\ cpu' = [cpu EXCEPT ![i] = @ \ {r}]
        /\ finishing' = finishing \cup {r}
        /\ due' = Append(due, d)
        /\ UNCHANGED <<reqs, state, handling, openDeps, notComputed, waiting>>
        /\ UNCHANGED <<outgoing, urgent, flight, armed, older, aborted>>
    BY DEF CompleteBurst, instVars
  <1>2. /\ handling \in [Instance -> SUBSET Id] /\ finishing \subseteq Id
        /\ openDeps \in [Instance -> SUBSET (Id \X DepName)]
        /\ cpu \in [Instance -> SUBSET Id] /\ r \in Id
    BY <1>0 DEF TypeOK
  <1>3. /\ r \in handling[i] /\ Live(i) /\ reqs[r].handler = i
        /\ \A j \in Instance : r \in handling[j] => j = i
        /\ \A j \in Instance : r \in cpu[j] => j = i
    BY <1>0 DEF Instances, ComputingIsHandled, HandlerKnown
  <1>4. /\ Message' = Message /\ Cancellation' = Cancellation /\ Id' = Id
        /\ Due' = Due /\ Flight' = Flight
    BY <1>1 DEF Message, Id, Cancellation, Due, Flight
  <1>5. /\ d \in Due /\ d.type = "computed" /\ d.m = Req(r) /\ d.i = i
        /\ ~d.m.ans /\ d.m.r = r
    BY <1>2 DEF Event, Due, Req, Message
  <1> HIDE DEF d
  <1>6. Range(due') = Range(due) \cup {d}
    BY <1>0, <1>1, <1>5, AppendRange
  <1>7. \A j \in Instance : cpu'[j] = IF j = i THEN cpu[i] \ {r} ELSE cpu[j]
    BY <1>1, <1>2
  <1>8. Advances(reqs')
    BY <1>0, <1>1, NoChangeHarmless DEF Harmless, Advances
  <1>9. Events(due, flight)'
    <2>1. ArriveOnce(due', flight) /\ EndOnce(due')
      BY <1>0, <1>1, <1>5, AppendArrive, AppendEnd DEF OnTheWay
    <2>2. Sound(d, reqs')
      BY <1>1, <1>3, <1>5 DEF Sound, OnTheWay
    <2>3. EndIdle(due)' /\ FinishingIsDue(due)'
      BY <1>0, <1>1, <1>5, <1>6 DEF EndIdle, FinishingIsDue
    <2> QED
      BY <2>1, <2>2, <2>3, <1>0, <1>1, <1>6, <1>8, EventsMade
  <1>10. Instances'
    <2>1. HandlerKnown' /\ ShutdownIsIdle'
      BY <1>0, <1>1, <1>7 DEF Instances, HandlerKnown, ShutdownIsIdle
    <2>2. OpenIsWaiting'
      BY <1>0, <1>1, <1>2, <1>3, <1>4, <1>7 DEF Instances, OpenIsWaiting, Deps
    <2>3. ComputedOnce'
      BY <1>0, <1>1, <1>3, <1>7 DEF Instances, ComputedOnce
    <2>4. ComputingIsHandled'
      BY <1>0, <1>1, <1>3, <1>7 DEF Instances, ComputingIsHandled, Live
    <2> QED
      BY <2>1, <2>2, <2>3, <2>4 DEF Instances
  <1>11. TypeOK'
    <2>1. cpu' \in [Instance -> SUBSET Id] /\ finishing' \subseteq Id
      BY <1>1, <1>2
    <2>2. due' \in Seq(Due)
      BY <1>0, <1>1, <1>5
    <2> QED
      BY <2>1, <2>2, <1>0, <1>1, <1>4 DEF TypeOK
  <1> QED
    BY <1>0, <1>1, <1>9, <1>10, <1>11 DEF HandlingInvariant, NeverAborts

\* The event of a computation that has been canceled does nothing.
LEMMA CanceledComputationStep ==
  ASSUME HandlingInvariant, NEW e, NEW q, Rest(e, q, flight),
         e.type = "computed", e.m.r \notin finishing,
         CompleteComputation(e.m, e.i, q)
  PROVE  HandlingInvariant'
  <1>0. /\ TypeOK /\ Instances /\ NeverAborts
        /\ q \in Seq(Due) /\ flight \in SUBSET Flight
        /\ NotArrived(q, flight) /\ ComputedAtHandler(q)
        /\ EndIdle(q) /\ ArriveOnce(q, flight) /\ EndOnce(q)
    BY InvariantFacts DEF Rest
  <1>1. FinishingIsDue(q)
    BY DEF Rest, FinishingIsDue
  <1>2. /\ UNCHANGED <<reqs, state, handling, openDeps, notComputed, waiting>>
        /\ UNCHANGED <<outgoing, cpu, finishing, urgent, flight, armed, older>>
        /\ due' = q /\ aborted' = FALSE
    BY DEF CompleteComputation
  <1>3. Grows(reqs')
    BY <1>0, <1>2, NoChangeHarmless, HarmlessGrows
  <1>4. Instances'
    BY <1>0, <1>2, <1>3, InstancesKept
  <1>5. Events(due, flight)'
    BY <1>0, <1>1, <1>2, <1>3, EventsKept
  <1>6. TypeOK'
    <2>1. /\ Message' = Message /\ Cancellation' = Cancellation /\ Id' = Id
          /\ Due' = Due /\ Flight' = Flight
      BY <1>2 DEF Message, Id, Cancellation, Due, Flight
    <2> QED
      BY <1>0, <1>2, <2>1 DEF TypeOK
  <1> QED
    BY <1>2, <1>4, <1>5, <1>6 DEF HandlingInvariant, NeverAborts

\* The computation of request r is completed; v is what becomes of r.
LEMMA ComputedReplaced ==
  ASSUME TypeOK, NEW r \in Id, reqs[r].handler # None, NEW v \in Request,
         v.op = reqs[r].op, v.handler = reqs[r].handler, v.done = reqs[r].done,
         reqs' = [reqs EXCEPT ![r] = v]
  PROVE  /\ Advances(reqs') /\ Len(reqs') = Len(reqs)
         /\ \A x \in Id : x # r => reqs'[x] = reqs[x]
  <1>1. /\ reqs' \in Seq(Request) /\ Len(reqs') = Len(reqs)
        /\ \A x \in Id : reqs'[x] = IF x = r THEN v ELSE reqs[x]
    BY ReqsType, ExceptSeq DEF Id
  <1> QED
    BY <1>1, ReqsType DEF Advances

\* Request.setComputationCompleted of a request with a handler
LEMMA ComputedAdvances ==
  ASSUME TypeOK, NEW r \in Id, reqs[r].handler # None,
         reqs' = [reqs EXCEPT ![r].computed = TRUE]
  PROVE  /\ Advances(reqs') /\ Len(reqs') = Len(reqs)
         /\ \A x \in Id : x # r => reqs'[x] = reqs[x]
  <1> DEFINE v == [reqs[r] EXCEPT !.computed = TRUE]
  <1>1. /\ v \in Request /\ v.op = reqs[r].op
        /\ v.handler = reqs[r].handler /\ v.done = reqs[r].done
    BY ReqsType DEF Request
  <1>2. reqs' = [reqs EXCEPT ![r] = v]
    OBVIOUS
  <1> HIDE DEF v
  <1> QED
    BY <1>1, <1>2, ComputedReplaced, Zenon

\* A computed request is answered; it may be the last one of a shutdown.
LEMMA AnsweredStep ==
  ASSUME HandlingInvariant, NEW e, NEW q, Rest(e, q, flight),
         e.type = "computed", e.m.r \in finishing,
         CompleteComputation(e.m, e.i, q)
  PROVE  HandlingInvariant'
  <1> DEFINE r == e.m.r
             i == e.i
             d == Event("send", Ans(r), None)
             last == handling[i] \subseteq {r} /\ state[i] = "SHUTTING_DOWN"
  <1>0. /\ TypeOK /\ Instances /\ NeverAborts
        /\ q \in Seq(Due) /\ flight \in SUBSET Flight
        /\ NotArrived(q, flight) /\ ComputedAtHandler(q)
        /\ EndIdle(q) /\ ArriveOnce(q, flight) /\ EndOnce(q)
        /\ e \in Due \cup Flight
    BY InvariantFacts DEF Rest
  <1>1. /\ e.m \in Message /\ i \in Instance /\ ~e.m.ans /\ reqs[r].handler = i
    BY <1>0 DEF Rest, Due, Flight
  <1>2. /\ handling \in [Instance -> SUBSET Id] /\ finishing \subseteq Id
        /\ openDeps \in [Instance -> SUBSET (Id \X DepName)]
        /\ cpu \in [Instance -> SUBSET Id]
    BY <1>0 DEF TypeOK
  <1>3. /\ r \in Id /\ r \in handling[i] /\ Live(i)
        /\ \A j \in Instance : r \in handling[j] => j = i
        /\ \A j \in Instance : r \notin cpu[j]
    BY <1>0, <1>1, <1>2 DEF Instances, ComputingIsHandled, HandlerKnown, ComputedOnce
  <1>4. MayComplete(i, e.m)
    BY <1>0, <1>1, <1>3 DEF MayComplete, CanHandle, Live, Instances, HandlerKnown
  <1>5. /\ finishing' = finishing \ {r} /\ handling' = [handling EXCEPT ![i] = @ \ {r}]
        /\ reqs' = [reqs EXCEPT ![r].computed = TRUE]
        /\ notComputed' = [notComputed EXCEPT ![i] =
                              IF r \in handling[i] THEN @ - 1 ELSE @]
        /\ waiting' = [waiting EXCEPT ![i] = IF r \in handling[i] THEN @ ELSE @ + 1]
        /\ due' = IF last THEN Append(Append(q, d), EndOf(i)) ELSE Append(q, d)
        /\ aborted' = FALSE
        /\ UNCHANGED <<state, openDeps, outgoing, cpu, urgent, flight, armed, older>>
    BY <1>4 DEF CompleteComputation, Answered
  <1>6. /\ Advances(reqs') /\ Len(reqs') = Len(reqs)
        /\ \A x \in Id : x # r => reqs'[x] = reqs[x]
    <2>1. reqs[r].handler # None
      BY <1>1, ArchitectureAssumption
    <2> QED
      BY <2>1, <1>0, <1>3, <1>5, ComputedAdvances
  <1>7. /\ d.type = "send" /\ d.m = Ans(r) /\ ~OnTheWay(d)
        /\ EndOf(i).type = "end" /\ EndOf(i).i = i /\ ~OnTheWay(EndOf(i))
    BY DEF Event, EndOf, Ans, OnTheWay
  <1>8. d \in Due' /\ EndOf(i) \in Due' /\ q \in Seq(Due')
    <2>1. Ans(r) \in Message'
      BY <1>3, <1>6 DEF Ans, Message, Id
    <2> QED
      BY <2>1, <1>0, <1>1, <1>6, TypesKept DEF Event, EndOf, Due, Advances
  <1> DEFINE s == Append(q, d)
  <1>9. /\ s \in Seq(Due') /\ Range(s) = Range(q) \cup {d}
        /\ ArriveOnce(s, flight) /\ EndOnce(s)
    BY <1>0, <1>7, <1>8, AppendRange, AppendArrive, AppendEnd
  <1> HIDE DEF d, s, r, i, last
  <1>10. /\ due' = IF last THEN Append(s, EndOf(i)) ELSE s
    BY <1>5 DEF s
  <1>11. \A j \in Instance : handling'[j] = IF j = i THEN handling[i] \ {r}
                                                     ELSE handling[j]
    BY <1>1, <1>2, <1>5
  <1>12. \A x \in Range(s) : x.type = "end" => x.i # i
    <2>1. \A x \in Range(q) : x.type = "end" => x.i # i
      BY <1>0, <1>3 DEF EndIdle
    <2> QED
      BY <2>1, <1>7, <1>9
  <1>13. /\ due' \in Seq(Due') /\ ArriveOnce(due', flight) /\ EndOnce(due')
         /\ Range(s) \subseteq Range(due')
         /\ \A x \in Range(due') : x \in Range(s) \/ (last /\ x = EndOf(i))
    <2>1. CASE last
      <3>1. due' = Append(s, EndOf(i))
        BY <2>1, <1>10
      <3>2. Range(Append(s, EndOf(i))) = Range(s) \cup {EndOf(i)}
        BY <1>8, <1>9, AppendRange
      <3>3. ArriveOnce(Append(s, EndOf(i)), flight)
        BY <1>7, <1>8, <1>9, AppendArrive
      <3>4. EndOnce(Append(s, EndOf(i)))
        BY <1>7, <1>8, <1>9, <1>12, AppendEnd
      <3>5. Append(s, EndOf(i)) \in Seq(Due')
        BY <1>8, <1>9
      <3> QED
        BY <2>1, <3>1, <3>2, <3>3, <3>4, <3>5
    <2>2. CASE ~last
      BY <2>2, <1>9, <1>10
    <2> QED
      BY <2>1, <2>2
  <1>14. Events(due, flight)'
    <2>1. EndIdle(due)'
      <3> SUFFICES ASSUME NEW x \in Range(due'), x.type = "end"
                   PROVE  state[x.i] = "SHUTTING_DOWN" /\ handling'[x.i] = {}
        BY <1>5 DEF EndIdle
      <3>1. CASE x \in Range(q)
        <4>1. Range(q) \subseteq Due
          BY <1>0, RangeElements
        <4>2. x.i \in Instance
          BY <4>1, <3>1 DEF Due
        <4> QED
          BY <3>1, <4>2, <1>0, <1>11 DEF EndIdle
      <3>2. CASE last /\ x = EndOf(i)
        BY <3>2, <1>1, <1>7, <1>11 DEF last, i
      <3> QED
        BY <3>1, <3>2, <1>7, <1>9, <1>13
    <2>2. FinishingIsDue(due)'
      BY <1>5, <1>9, <1>13 DEF Rest, FinishingIsDue, r
    <2>3. \A x \in Range(due') : x \in Range(q) \/ Sound(x, reqs')
      BY <1>7, <1>9, <1>13 DEF Sound
    <2> QED
      BY <2>1, <2>2, <2>3, <1>0, <1>5, <1>6, <1>13, EventsMade
  <1>15. Instances'
    <2>1. HandlerKnown'
      BY <1>0, <1>2, <1>3, <1>6, <1>11 DEF Instances, HandlerKnown, r
    <2>2. OpenIsWaiting'
      <3> SUFFICES ASSUME NEW j \in Instance, NEW x \in Id', NEW y \in DepName,
                          <<x, y>> \in openDeps[j]
                   PROVE  /\ x \in handling'[j] /\ x \notin cpu[j]
                          /\ x \notin finishing'
                          /\ y \in Deps(x)' \ reqs'[x].done
        BY <1>5 DEF OpenIsWaiting
      <3>1. x \in Id
        BY <1>2
      <3>2. /\ x \in handling[j] /\ x \notin cpu[j] /\ x \notin finishing
            /\ y \in Deps(x) \ reqs[x].done
        BY <3>1, <1>0 DEF Instances, OpenIsWaiting
      <3>3. x # r
        BY <3>2 DEF r
      <3> QED
        BY <3>1, <3>2, <3>3, <1>5, <1>6, <1>11 DEF Advances, Deps
    <2>3. ComputedOnce'
      BY <1>0, <1>5 DEF Instances, ComputedOnce
    <2>4. ComputingIsHandled'
      <3>1. \A j \in Instance : cpu'[j] \subseteq IF Live(j)' THEN handling'[j] ELSE {}
        BY <1>0, <1>3, <1>5, <1>11 DEF Instances, ComputingIsHandled, Live
      <3>2. ASSUME NEW x \in finishing'
            PROVE  (Live(reqs[x].handler) /\ x \in handling[reqs[x].handler])'
        <4>1. x \in finishing /\ x \in Id /\ x # r
          BY <1>2, <1>5, <3>2
        <4>2. reqs'[x].handler = reqs[x].handler
          BY <4>1, <1>6 DEF Advances
        <4>3. Live(reqs[x].handler) /\ x \in handling[reqs[x].handler]
          BY <4>1, <1>0 DEF Instances, ComputingIsHandled
        <4>4. reqs[x].handler \in Instance
          BY <4>1, FinishingHandler
        <4> QED
          BY <4>1, <4>2, <4>3, <4>4, <1>5, <1>11 DEF Live
      <3> QED
        BY <3>1, <3>2 DEF ComputingIsHandled
    <2>5. ShutdownIsIdle'
      BY <1>0, <1>5, <1>11 DEF Instances, ShutdownIsIdle
    <2> QED
      BY <2>1, <2>2, <2>3, <2>4, <2>5 DEF Instances
  <1>16. TypeOK'
    <2>1. /\ handling \in [Instance -> SUBSET Id']
          /\ openDeps \in [Instance -> SUBSET (Id' \X DepName)]
          /\ outgoing \in [Instance -> SUBSET Message']
          /\ cpu \in [Instance -> SUBSET Id'] /\ finishing \subseteq Id'
          /\ urgent \in Seq(Cancellation')
          /\ flight \subseteq Flight' /\ armed \subseteq Message'
      BY <1>0, <1>6, TypesKept DEF Advances
    <2>2. handling' \in [Instance -> SUBSET Id'] /\ finishing' \subseteq Id'
      BY <2>1, <1>5
    <2>3. notComputed' \in [Instance -> Int] /\ waiting' \in [Instance -> Int]
      <3>1. notComputed \in [Instance -> Int] /\ waiting \in [Instance -> Int]
        BY <1>0 DEF TypeOK
      <3>2. notComputed' = [notComputed EXCEPT ![i] = @ - 1]
        BY <1>3, <1>5
      <3>3. waiting' = waiting
        BY <3>1, <1>3, <1>5
      <3> QED
        BY <3>1, <3>2, <3>3, <1>1, CounterType DEF i
    <2> QED
      BY <2>1, <2>2, <2>3, <1>0, <1>5, <1>6, <1>13 DEF TypeOK, Advances
  <1> QED
    BY <1>5, <1>14, <1>15, <1>16 DEF HandlingInvariant, NeverAborts

\* Retry forgets the dependencies of the requests instance i handles: nothing
\* else changes.
LEMMA ClearRetryHarmless ==
  ASSUME TypeOK, NEW i
  PROVE  Harmless(ClearRetry(i))
  <1>0. /\ reqs \in Seq(Request) /\ Len(reqs) \in Nat /\ DOMAIN reqs = Id
        /\ \A r \in Id : reqs[r] \in Request
    BY ReqsType
  <1>1. ASSUME NEW r \in Id
        PROVE  /\ ClearRetry(i)[r] \in Request
               /\ ClearRetry(i)[r].op = reqs[r].op
               /\ ClearRetry(i)[r].handler = reqs[r].handler
               /\ ClearRetry(i)[r].done = reqs[r].done
               /\ ClearRetry(i)[r].computed = reqs[r].computed
    <2> DEFINE v == [reqs[r] EXCEPT !.tries = [n \in DepName |-> 0]]
    <2>1. ClearRetry(i)[r] = IF reqs[r].handler = i THEN v ELSE reqs[r]
      BY DEF ClearRetry
    <2>2. reqs[r] \in Request
      BY <1>0
    <2>3. /\ v \in Request /\ v.op = reqs[r].op
          /\ v.handler = reqs[r].handler /\ v.done = reqs[r].done
          /\ v.computed = reqs[r].computed
      BY <2>2 DEF Request
    <2> HIDE DEF v
    <2> QED
      BY <2>1, <2>2, <2>3
  <1> DEFINE s == ClearRetry(i)
  <1>2. s = [r \in 1..Len(reqs) |-> s[r]]
    BY DEF ClearRetry, Id
  <1> HIDE DEF s
  <1>3. \A r \in 1..Len(reqs) : s[r] \in Request
    BY <1>1 DEF s, Id
  <1>4. s \in Seq(Request) /\ Len(s) = Len(reqs)
    <2>1. s \in Seq(Request)
      BY <1>0, <1>2, <1>3, IsASeq, SeqDef
    <2> QED
      BY <2>1, <1>0, <1>2, LenProperties
  <1> QED
    BY <1>1, <1>4 DEF Harmless, s

\* An environment event comes between two instants: nothing is due, so that
\* no computation is about to be completed and no shutdown about to end.
LEMMA QuiescentFacts ==
  ASSUME HandlingInvariant, Quiescent
  PROVE  due = <<>> /\ Range(due) = {} /\ finishing = {}
  <1>1. due = <<>> /\ Range(due) = {}
    BY DEF Quiescent, Range
  <1> QED
    BY <1>1, InvariantFacts DEF FinishingIsDue

\* The requesters that learn of a death
LEMMA InformedType ==
  ASSUME TypeOK, NEW i \in Instance, NEW ids \in Ascending(handling[i])
  PROVE  Informed(ids) \in Seq(Cancellation)
  <1> DEFINE c == Cardinality(handling[i])
             s == Informed(ids)
  <1>1. handling[i] \subseteq Id /\ c \in Nat
    <2>1. handling[i] \subseteq Id
      BY DEF TypeOK
    <2>2. IsFiniteSet(Id)
      BY ReqsType, FS_Interval DEF Id
    <2> QED
      BY <2>1, <2>2, FS_Subset, FS_CardinalityType
  <1>2. ids \in [1..c -> handling[i]]
    BY DEF Ascending, Orders, Bijection, Surjection, Injection
  <1> HIDE DEF c
  <1>3. \A k \in 1..c : s[k] \in Cancellation
    <2> SUFFICES ASSUME NEW k \in 1..c
                 PROVE  s[k] \in Cancellation
      OBVIOUS
    <2>1. ids[k] \in Id /\ DOMAIN ids = 1..c
      BY <1>1, <1>2
    <2>2. s[k] = Cancel(Req(ids[k]), "HANDLING_INSTANCE_DIED")
      BY <2>1 DEF Informed
    <2>3. Req(ids[k]) \in Message
      BY <2>1 DEF Req, Message
    <2> QED
      BY <2>2, <2>3 DEF Cancel, Cancellation, Reasons
  <1>4. s = [k \in 1..c |-> s[k]]
    BY <1>2 DEF Informed
  <1> HIDE DEF s
  <1>5. s \in Seq(Cancellation)
    BY <1>1, <1>3, <1>4, IsASeq, SeqDef
  <1> QED
    BY <1>5 DEF s

\* MicroserviceInstance.die preserves the invariant.
LEMMA KillStep ==
  ASSUME HandlingInvariant, NEW i \in Instance, Kill(i)
  PROVE  HandlingInvariant'
  <1>0. /\ TypeOK /\ Instances /\ NeverAborts
        /\ due \in Seq(Due) /\ flight \in SUBSET Flight
        /\ NotArrived(due, flight) /\ ComputedAtHandler(due)
        /\ FinishingIsDue(due) /\ EndIdle(due)
        /\ ArriveOnce(due, flight) /\ EndOnce(due)
    BY InvariantFacts
  <1>1. /\ state' = [state EXCEPT ![i] = "KILLED"]
        /\ reqs' = ClearRetry(i) /\ cpu' = [cpu EXCEPT ![i] = {}]
        /\ \E ids \in Ascending(handling[i]) : urgent' = Informed(ids)
        /\ UNCHANGED <<handling, openDeps, notComputed, waiting, outgoing>>
        /\ UNCHANGED <<finishing, due, flight, armed, older, aborted>>
    BY DEF Kill, CpuCleared
  <1>2. Grows(reqs')
    BY <1>0, <1>1, ClearRetryHarmless, HarmlessGrows
  <1>3. Range(due) = {} /\ finishing = {}
    BY QuiescentFacts DEF Kill
  <1>4. /\ handling \in [Instance -> SUBSET Id] /\ state \in [Instance -> States]
        /\ openDeps \in [Instance -> SUBSET (Id \X DepName)]
        /\ cpu \in [Instance -> SUBSET Id]
    BY <1>0 DEF TypeOK
  <1>5. Events(due, flight)'
    <2>1. EndIdle(due)' /\ FinishingIsDue(due)'
      BY <1>1, <1>3 DEF EndIdle, FinishingIsDue
    <2> QED
      BY <2>1, <1>0, <1>1, <1>2, GrowsAdvances, EventsMade
  <1>6. Instances'
    <2>1. HandlerKnown'
      BY <1>0, <1>1, <1>2, <1>4 DEF Instances, HandlerKnown, Grows
    <2>2. OpenIsWaiting'
      <3> SUFFICES ASSUME NEW j \in Instance, NEW x \in Id', NEW y \in DepName,
                          <<x, y>> \in openDeps[j]
                   PROVE  /\ x \in handling[j] /\ x \notin cpu'[j]
                          /\ x \notin finishing
                          /\ y \in Deps(x)' \ reqs'[x].done
        BY <1>1 DEF OpenIsWaiting
      <3>1. x \in Id
        BY <1>4
      <3>2. /\ x \in handling[j] /\ x \notin cpu[j] /\ x \notin finishing
            /\ y \in Deps(x) \ reqs[x].done
        BY <3>1, <1>0 DEF Instances, OpenIsWaiting
      <3> QED
        BY <3>1, <3>2, <1>1, <1>2, <1>4 DEF Grows, Deps
    <2>3. ComputedOnce' /\ ComputingIsHandled'
      BY <1>0, <1>1, <1>3, <1>4 DEF Instances, ComputedOnce, ComputingIsHandled, Live
    <2>4. ShutdownIsIdle'
      BY <1>0, <1>1, <1>4 DEF Instances, ShutdownIsIdle
    <2> QED
      BY <2>1, <2>2, <2>3, <2>4 DEF Instances
  <1>7. TypeOK'
    <2>1. /\ handling \in [Instance -> SUBSET Id'] /\ Cancellation \subseteq Cancellation'
          /\ openDeps \in [Instance -> SUBSET (Id' \X DepName)]
          /\ outgoing \in [Instance -> SUBSET Message']
          /\ cpu \in [Instance -> SUBSET Id'] /\ finishing \subseteq Id'
          /\ due \in Seq(Due')
          /\ flight \subseteq Flight' /\ armed \subseteq Message'
      BY <1>0, <1>2, TypesKept DEF Grows
    <2>2. urgent' \in Seq(Cancellation')
      <3>1. urgent' \in Seq(Cancellation)
        BY <1>0, <1>1, InformedType
      <3> QED
        BY <3>1, <2>1, SeqMonotonic
    <2>3. state' \in [Instance -> States]
      BY <1>1, <1>4 DEF States
    <2>4. cpu' \in [Instance -> SUBSET Id']
      BY <1>1, <2>1
    <2> QED
      BY <2>1, <2>2, <2>3, <2>4, <1>0, <1>1, <1>2 DEF TypeOK, Grows
  <1> QED
    BY <1>0, <1>1, <1>5, <1>6, <1>7 DEF HandlingInvariant, NeverAborts

\* MicroserviceInstance.startShutdown preserves the invariant.
LEMMA StartShutdownStep ==
  ASSUME HandlingInvariant, NEW i \in Instance, StartShutdown(i)
  PROVE  HandlingInvariant'
  <1>0. /\ TypeOK /\ Instances /\ NeverAborts
        /\ due \in Seq(Due) /\ flight \in SUBSET Flight
        /\ NotArrived(due, flight) /\ ComputedAtHandler(due)
        /\ ArriveOnce(due, flight) /\ EndOnce(due)
    BY InvariantFacts
  <1>1. /\ state[i] = "RUNNING" /\ state' = [state EXCEPT ![i] = "SHUTTING_DOWN"]
        /\ due' = EndIfIdle(i)
        /\ UNCHANGED <<reqs, handling, openDeps, notComputed, waiting, outgoing>>
        /\ UNCHANGED <<cpu, finishing, urgent, flight, armed, older, aborted>>
    BY DEF StartShutdown
  <1>2. due = <<>> /\ Range(due) = {} /\ finishing = {}
    BY QuiescentFacts DEF StartShutdown
  <1>3. state \in [Instance -> States]
    BY <1>0 DEF TypeOK
  <1>4. Grows(reqs')
    BY <1>0, <1>1, NoChangeHarmless, HarmlessGrows
  <1>5. /\ Message' = Message /\ Cancellation' = Cancellation /\ Id' = Id
        /\ Due' = Due /\ Flight' = Flight
    BY <1>1 DEF Message, Id, Cancellation, Due, Flight
  <1>6. /\ EndOf(i) \in Due /\ EndOf(i).type = "end" /\ EndOf(i).i = i
        /\ ~OnTheWay(EndOf(i))
    BY DEF EndOf, Event, Due, OnTheWay
  <1>7. /\ due' \in Seq(Due) /\ ArriveOnce(due', flight) /\ EndOnce(due')
        /\ \A d \in Range(due') : d = EndOf(i) /\ handling[i] = {}
    <2> DEFINE a == Append(due, EndOf(i))
    <2>1. /\ a \in Seq(Due) /\ ArriveOnce(a, flight) /\ EndOnce(a)
          /\ Range(a) = {EndOf(i)}
      <3>1. Range(a) = Range(due) \cup {EndOf(i)}
        BY <1>0, <1>6, AppendRange
      <3>2. ArriveOnce(a, flight)
        BY <1>0, <1>6, AppendArrive
      <3>3. EndOnce(a)
        BY <1>0, <1>2, <1>6, AppendEnd
      <3>4. a \in Seq(Due)
        BY <1>0, <1>6
      <3> QED
        BY <1>2, <3>1, <3>2, <3>3, <3>4
    <2>2. due' = IF handling[i] = {} THEN a ELSE due
      BY <1>1, <1>2 DEF EndIfIdle
    <2> HIDE DEF a
    <2> QED
      BY <2>1, <2>2, <1>0, <1>2
  <1>8. Events(due, flight)'
    <2>1. EndIdle(due)' /\ FinishingIsDue(due)'
      BY <1>1, <1>2, <1>3, <1>6, <1>7 DEF EndIdle, FinishingIsDue
    <2>2. \A d \in Range(due') : Sound(d, reqs')
      BY <1>6, <1>7 DEF Sound
    <2> QED
      BY <2>1, <2>2, <1>0, <1>1, <1>4, <1>7, GrowsAdvances, EventsMade
  <1>9. Instances'
    <2>1. HandlerKnown' /\ ComputedOnce'
      BY <1>0, <1>1 DEF Instances, HandlerKnown, ComputedOnce
    <2>2. OpenIsWaiting'
      BY <1>0, <1>1, <1>5 DEF Instances, OpenIsWaiting, Deps
    <2>3. ComputingIsHandled'
      BY <1>0, <1>1, <1>2, <1>3 DEF Instances, ComputingIsHandled, Live
    <2>4. ShutdownIsIdle'
      BY <1>0, <1>1, <1>3 DEF Instances, ShutdownIsIdle
    <2> QED
      BY <2>1, <2>2, <2>3, <2>4 DEF Instances
  <1>10. TypeOK'
    <2>1. state' \in [Instance -> States]
      BY <1>1, <1>3 DEF States
    <2> QED
      BY <2>1, <1>0, <1>1, <1>5, <1>7 DEF TypeOK
  <1> QED
    BY <1>0, <1>1, <1>8, <1>9, <1>10 DEF HandlingInvariant, NeverAborts

\* MicroserviceInstance.endShutdown preserves the invariant, and does not
\* throw: the shutdown it ends has been started and not been ended yet.
LEMMA EndShutdownStep ==
  ASSUME HandlingInvariant, NEW e, NEW q, Rest(e, q, flight),
         e.type = "end", EndShutdown(e.i, q)
  PROVE  HandlingInvariant'
  <1> DEFINE i == e.i
  <1>0. /\ TypeOK /\ Instances /\ NeverAborts /\ i \in Instance
        /\ q \in Seq(Due) /\ flight \in SUBSET Flight
        /\ NotArrived(q, flight) /\ ComputedAtHandler(q) /\ FinishingIsDue(q)
        /\ EndIdle(q) /\ ArriveOnce(q, flight) /\ EndOnce(q)
    BY InvariantFacts, RestFacts
  <1>1. /\ state[i] = "SHUTTING_DOWN" /\ handling[i] = {}
        /\ \A d \in Range(q) : d.type = "end" => d.i # i
    BY DEF Rest
  <1>2. /\ state' = [state EXCEPT ![i] = "SHUTDOWN"]
        /\ reqs' = ClearRetry(i) /\ aborted' = FALSE /\ due' = q
        /\ UNCHANGED <<handling, openDeps, notComputed, waiting, outgoing>>
        /\ UNCHANGED <<cpu, finishing, urgent, flight, armed, older>>
    BY <1>1 DEF EndShutdown
  <1>3. /\ handling \in [Instance -> SUBSET Id] /\ state \in [Instance -> States]
        /\ openDeps \in [Instance -> SUBSET (Id \X DepName)] /\ finishing \subseteq Id
    BY <1>0 DEF TypeOK
  <1>4. Grows(reqs')
    BY <1>0, <1>2, ClearRetryHarmless, HarmlessGrows
  <1> HIDE DEF i
  <1>5. Events(due, flight)'
    <2>1. Range(q) \subseteq Due
      BY <1>0, RangeElements
    <2>2. EndIdle(due)' /\ FinishingIsDue(due)'
      BY <2>1, <1>0, <1>1, <1>2, <1>3 DEF EndIdle, FinishingIsDue, Due
    <2> QED
      BY <2>2, <1>0, <1>2, <1>4, GrowsAdvances, EventsMade
  <1>6. Instances'
    <2>1. HandlerKnown' /\ ComputedOnce'
      BY <1>0, <1>2, <1>3, <1>4, ZenonT(40) DEF Instances, HandlerKnown, ComputedOnce, Grows
    <2>2. OpenIsWaiting'
      BY <1>0, <1>2, <1>3, <1>4 DEF Instances, OpenIsWaiting, Deps, Grows
    <2>3. ComputingIsHandled'
      <3>1. \A j \in Instance : cpu[j] \subseteq IF Live(j)' THEN handling[j] ELSE {}
        BY <1>0, <1>1, <1>2, <1>3 DEF Instances, ComputingIsHandled, Live
      <3>2. \A x \in finishing : /\ reqs'[x].handler = reqs[x].handler
                                 /\ reqs[x].handler # i
        BY <1>0, <1>1, <1>3, <1>4 DEF Instances, ComputingIsHandled, Grows
      <3> QED
        BY <3>1, <3>2, <1>0, <1>2, <1>3 DEF Instances, ComputingIsHandled, Live
    <2>4. ShutdownIsIdle'
      <3>1. openDeps[i] = {}
        BY <1>0, <1>1, <1>3 DEF Instances, OpenIsWaiting
      <3>2. cpu[i] = {}
        BY <1>0, <1>1 DEF Instances, ComputingIsHandled
      <3> QED
        BY <3>1, <3>2, <1>0, <1>1, <1>2, <1>3 DEF Instances, ShutdownIsIdle
    <2> QED
      BY <2>1, <2>2, <2>3, <2>4 DEF Instances
  <1>7. TypeOK'
    <2>1. /\ handling \in [Instance -> SUBSET Id']
          /\ openDeps \in [Instance -> SUBSET (Id' \X DepName)]
          /\ outgoing \in [Instance -> SUBSET Message']
          /\ cpu \in [Instance -> SUBSET Id'] /\ finishing \subseteq Id'
          /\ urgent \in Seq(Cancellation') /\ q \in Seq(Due')
          /\ flight \subseteq Flight' /\ armed \subseteq Message'
      BY <1>0, <1>4, TypesKept DEF Grows
    <2>2. state' \in [Instance -> States]
      BY <1>2, <1>3 DEF States
    <2> QED
      BY <2>1, <2>2, <1>0, <1>2, <1>4 DEF TypeOK, Grows
  <1> QED
    BY <1>2, <1>5, <1>6, <1>7 DEF HandlingInvariant, NeverAborts

-----------------------------------------------------------------------------
(* The invariant.                                                          *)

\* The invariant holds initially.
LEMMA InitHandling ==
  ASSUME Init
  PROVE  HandlingInvariant
  <1>1. Range(due) = {} /\ due = <<>> /\ flight = {} /\ finishing = {}
    BY DEF Init, Range
  <1>2. TypeOK
    <2>1. reqs \in Seq(Request) /\ urgent \in Seq(Cancellation) /\ due \in Seq(Due)
      BY DEF Init
    <2>2. state \in [Instance -> States]
      BY DEF Init, States
    <2>3. /\ handling \in [Instance -> SUBSET Id]
          /\ cpu \in [Instance -> SUBSET Id]
          /\ outgoing \in [Instance -> SUBSET Message]
      BY DEF Init
    <2>4. openDeps \in [Instance -> SUBSET (Id \X DepName)]
      BY DEF Init
    <2>5. notComputed \in [Instance -> Int] /\ waiting \in [Instance -> Int]
      BY DEF Init
    <2>6. /\ finishing \subseteq Id /\ flight \subseteq Flight /\ aborted \in BOOLEAN
          /\ armed \subseteq Message /\ older \subseteq armed \X armed
      BY DEF Init
    <2> QED
      BY <2>1, <2>2, <2>3, <2>4, <2>5, <2>6 DEF TypeOK
  <1>3. Events(due, flight)
    BY <1>1 DEF Events, ArriveOnce, NotArrived, ComputedAtHandler, FinishingIsDue,
                EndOnce, EndIdle
  <1>4. Instances
    BY <1>1 DEF Init, Instances, HandlerKnown, OpenIsWaiting, ComputedOnce,
                ComputingIsHandled, ShutdownIsIdle
  <1> QED
    BY <1>2, <1>3, <1>4 DEF HandlingInvariant, NeverAborts, Init

\* The first event of due preserves the invariant.
LEMMA DueStep ==
  ASSUME HandlingInvariant, ExecuteDue
  PROVE  HandlingInvariant'
  <1> DEFINE e == Head(due)
             q == Tail(due)
  <1>1. due # <<>> /\ Rest(e, q, flight)
    BY TakeDue DEF ExecuteDue
  <1> HIDE DEF e, q
  <1>2. CASE e.type = "send" /\ Send(e.m, q, flight)
    BY <1>1, <1>2, SendStep
  <1>3. CASE e.type = "receive" /\ Receive(e.m, e.i, q, flight)
    BY <1>1, <1>3, ReceiveStep
  <1>4. CASE e.type = "computed" /\ CompleteComputation(e.m, e.i, q)
    BY <1>1, <1>4, AnsweredStep, CanceledComputationStep
  <1>5. CASE e.type = "end" /\ EndShutdown(e.i, q)
    BY <1>1, <1>5, EndShutdownStep
  <1> QED
    BY <1>2, <1>3, <1>4, <1>5 DEF ExecuteDue, e, q

\* A delayed event preserves the invariant.
LEMMA DelayedStep ==
  ASSUME HandlingInvariant, ExecuteDelayed
  PROVE  HandlingInvariant'
  <1>1. PICK e \in flight :
          \/ e.type = "send"    /\ Send(e.m, due, flight \ {e})
          \/ e.type = "receive" /\ Receive(e.m, e.i, due, flight \ {e})
          \/ e.type = "cancel"  /\ CancelLater(e.m, flight \ {e})
    BY DEF ExecuteDelayed
  <1> DEFINE f == flight \ {e}
  <1>2. Rest(e, due, f)
    BY TakeDelayed
  <1> HIDE DEF f
  <1>3. CASE e.type = "send" /\ Send(e.m, due, f)
    BY <1>2, <1>3, SendStep
  <1>4. CASE e.type = "receive" /\ Receive(e.m, e.i, due, f)
    BY <1>2, <1>4, ReceiveStep
  <1>5. CASE e.type = "cancel" /\ CancelLater(e.m, f)
    BY <1>2, <1>5, CancelLaterStep
  <1> QED
    BY <1>1, <1>3, <1>4, <1>5 DEF f

\* A step that changes nothing preserves the invariant.
LEMMA StutterStep ==
  ASSUME HandlingInvariant, UNCHANGED vars
  PROVE  HandlingInvariant'
  <1>0. /\ TypeOK /\ Instances /\ NeverAborts
        /\ due \in Seq(Due) /\ flight \in SUBSET Flight
        /\ NotArrived(due, flight) /\ ComputedAtHandler(due)
        /\ FinishingIsDue(due) /\ EndIdle(due)
        /\ ArriveOnce(due, flight) /\ EndOnce(due)
    BY InvariantFacts
  <1>1. /\ UNCHANGED <<reqs, state, handling, openDeps, notComputed, waiting>>
        /\ UNCHANGED <<outgoing, cpu, finishing, urgent, due, flight, armed, older, aborted>>
    BY DEF vars, instVars, eventVars
  <1>2. Grows(reqs')
    BY <1>0, <1>1, NoChangeHarmless, HarmlessGrows
  <1>3. Instances'
    BY <1>0, <1>1, <1>2, InstancesKept
  <1>4. Events(due, flight)'
    BY <1>0, <1>1, <1>2, EventsKept
  <1>5. TypeOK'
    <2>1. /\ Message' = Message /\ Cancellation' = Cancellation /\ Id' = Id
          /\ Due' = Due /\ Flight' = Flight
      BY <1>1 DEF Message, Id, Cancellation, Due, Flight
    <2> QED
      BY <1>0, <1>1, <2>1 DEF TypeOK
  <1> QED
    BY <1>0, <1>1, <1>3, <1>4, <1>5 DEF HandlingInvariant, NeverAborts

\* Every step preserves the invariant.
LEMMA NextHandling ==
  ASSUME HandlingInvariant, [Next]_vars
  PROVE  HandlingInvariant'
  <1>1. CASE System
    <2>1. CASE CancelRequest
      BY <2>1, CancelStep
    <2>2. CASE ExecuteDue
      BY <2>2, DueStep
    <2>3. CASE ExecuteDelayed
      BY <2>3, DelayedStep
    <2>4. CASE Timeout
      BY <2>4, TimeoutStep
    <2>5. CASE \E i \in Instance : \E r \in cpu[i] : CompleteBurst(i, r)
      BY <2>5, CompleteBurstStep
    <2> QED
      BY <1>1, <2>1, <2>2, <2>3, <2>4, <2>5 DEF System
  <1>2. CASE Environment
    <2>1. CASE \E op \in UserOp : SendNewUserRequest(op)
      BY <2>1, SendNewUserRequestStep
    <2>2. CASE \E i \in Instance : Kill(i) \/ StartShutdown(i)
      BY <2>2, KillStep, StartShutdownStep
    <2> QED
      BY <1>2, <2>1, <2>2 DEF Environment
  <1>3. CASE UNCHANGED vars
    BY <1>3, StutterStep
  <1> QED
    BY <1>1, <1>2, <1>3 DEF Next

\* The handling sets, the CPUs and the event list of the instances never
\* contradict each other, whatever the architecture and the number of users,
\* kills and shutdowns (MicroserviceInstance, CPU and the event routines).
THEOREM HandlingInvariantHolds == Spec => []HandlingInvariant
  <1>1. Init => HandlingInvariant
    BY InitHandling
  <1>2. HandlingInvariant /\ [Next]_vars => HandlingInvariant'
    BY NextHandling
  <1> QED
    BY <1>1, <1>2, PTL DEF Spec

\* Every message, queue and set refers to requests that exist.
THEOREM TypeCorrect == Spec => []TypeOK
  <1>1. HandlingInvariant => TypeOK
    BY DEF HandlingInvariant
  <1> QED
    BY <1>1, HandlingInvariantHolds, PTL

\* No event routine of the request handling lets an IllegalStateException
\* escape, which would end the experiment: a ComputationCompletedEvent is
\* accepted by its instance, and a shutdown is ended only once.
THEOREM NoAbort == Spec => []NeverAborts
  <1>1. HandlingInvariant => NeverAborts
    BY DEF HandlingInvariant
  <1> QED
    BY <1>1, HandlingInvariantHolds, PTL

\* An instance computes only requests it handles, and nothing after it was
\* killed or has shut down (MicroserviceInstance.die, CPU.clear).
THEOREM ComputingHandled == Spec => []ComputingIsHandled
  <1>1. HandlingInvariant => ComputingIsHandled
    BY DEF HandlingInvariant, Instances
  <1> QED
    BY <1>1, HandlingInvariantHolds, PTL

\* An instance ends its shutdown only when it has nothing left to handle, to
\* wait for or to compute, and gets nothing afterwards
\* (MicroserviceInstance.startShutdown and endShutdown).
THEOREM ShutdownIdle == Spec => []ShutdownIsIdle
  <1>1. HandlingInvariant => ShutdownIsIdle
    BY DEF HandlingInvariant, Instances
  <1> QED
    BY <1>1, HandlingInvariantHolds, PTL
=============================================================================
