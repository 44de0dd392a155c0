-------------------------- MODULE RequestLifeProofs --------------------------
(***************************************************************************)
(* LifeInvariant is an inductive invariant of RequestHandling, for every   *)
(* architecture and every bound, and with it the properties of             *)
(* RequestHandling that HandlingInvariant does not imply.  HandlingInvari- *)
(* ant itself is taken from RequestHandlingProofs.  For each action, a     *)
(* first lemma says what it does to the requests and to the messages that  *)
(* are about to be sent, travel, are watched or are failing; then the      *)
(* parts of the invariant follow from what the actions have in common.     *)
(* The last part shows that RequestHandling implements CallTree.           *)
(***************************************************************************)
EXTENDS RequestLifeInvariant, RequestHandlingProofs

-----------------------------------------------------------------------------
(* Messages and events.                                                    *)

\* The messages of some events, one by one
LEMMA MessagesOfUnion ==
  ASSUME NEW A, NEW B, NEW type
  PROVE  MessagesOf(A \cup B, type) = MessagesOf(A, type) \cup MessagesOf(B, type)
  BY DEF MessagesOf

LEMMA MessagesOfOne ==
  ASSUME NEW e, NEW type
  PROVE  MessagesOf({e}, type) = IF e.type = type THEN {e.m} ELSE {}
  BY DEF MessagesOf

\* Every message that anybody knows of belongs to a request that exists.
LEMMA MessageSets ==
  ASSUME TypeOK
  PROVE  /\ Range(due) \subseteq Due /\ Range(urgent) \subseteq Cancellation
         /\ Scheduled \subseteq Due \cup Flight
         /\ ToSend \subseteq Message /\ Arriving \subseteq Message
         /\ Failing \subseteq Message /\ armed \subseteq Message
         /\ Heard \subseteq Message
         /\ MessagesOf(flight, "cancel") \subseteq Message
  <1>1. /\ due \in Seq(Due) /\ urgent \in Seq(Cancellation) /\ flight \subseteq Flight
        /\ armed \subseteq Message /\ outgoing \in [Instance -> SUBSET Message]
    BY DEF TypeOK
  <1>2. Range(due) \subseteq Due /\ Range(urgent) \subseteq Cancellation
    BY <1>1, RangeElements
  <1>3. Scheduled \subseteq Due \cup Flight
    BY <1>1, <1>2 DEF Scheduled
  <1>4. ToSend \subseteq Message /\ Arriving \subseteq Message
    BY <1>3 DEF ToSend, Arriving, MessagesOf, Due, Flight
  <1>5. MessagesOf(flight, "cancel") \subseteq Message
    BY <1>1 DEF MessagesOf, Flight
  <1>6. Failing \subseteq Message
    BY <1>2, <1>5 DEF Failing, Cancellation
  <1> QED
    BY <1>1, <1>2, <1>3, <1>4, <1>5, <1>6 DEF Heard

\* A message is a request or an answer.
LEMMA ReqAns ==
  /\ \A r : /\ Req(r).r = r /\ ~Req(r).ans /\ Ans(r).r = r /\ Ans(r).ans
            /\ Req(r) # Ans(r)
  /\ \A m \in Message : /\ m.r \in Id /\ m.ans \in BOOLEAN
                        /\ m = IF m.ans THEN Ans(m.r) ELSE Req(m.r)
  /\ \A r \in Id : Req(r) \in Message /\ Ans(r) \in Message
  BY DEF Req, Ans, Message

-----------------------------------------------------------------------------
(* Updating requests.                                                      *)

\* One request is replaced.
LEMMA Replaced ==
  ASSUME TypeOK, NEW p \in Id, NEW v \in Request
  PROVE  /\ [reqs EXCEPT ![p] = v] \in Seq(Request)
         /\ Len([reqs EXCEPT ![p] = v]) = Len(reqs)
         /\ [reqs EXCEPT ![p] = v][p] = v
         /\ \A x \in Id : x # p => [reqs EXCEPT ![p] = v][x] = reqs[x]
  BY ReqsType, ExceptSeq DEF Id

\* One more request is created.
LEMMA OneMore ==
  ASSUME TypeOK, NEW s \in Seq(Request), Len(s) = Len(reqs), NEW v \in Request
  PROVE  /\ Append(s, v) \in Seq(Request) /\ Len(Append(s, v)) = Len(reqs) + 1
         /\ Append(s, v)[Len(reqs) + 1] = v
         /\ \A x \in Id : Append(s, v)[x] = s[x]
  BY ReqsType DEF Id

\* What no step changes of a request: where it comes from
Kin(s) ==
  /\ Len(s) >= Len(reqs)
  /\ \A x \in Id : /\ s[x].op = reqs[x].op /\ s[x].parent = reqs[x].parent
                   /\ s[x].dep = reqs[x].dep /\ s[x].requester = reqs[x].requester

\* The requests there were still exist.
LEMMA KinId ==
  ASSUME TypeOK, Kin(reqs'), TypeOK'
  PROVE  /\ Id \subseteq Id' /\ Message \subseteq Message'
         /\ \A x \in Id : /\ IsUser(x)' = IsUser(x) /\ Parent(x)' = Parent(x)
                          /\ DepOf(x)' = DepOf(x) /\ Deps(x)' = Deps(x)
  <1>1. Id \subseteq Id'
    BY ReqsType DEF Kin, Id, TypeOK
  <1>2. Message \subseteq Message'
    BY <1>1 DEF Message
  <1> QED
    BY <1>1, <1>2 DEF Kin, IsUser, Parent, DepOf, Deps

-----------------------------------------------------------------------------
(* Parts of the invariant that a step keeps.                               *)

\* Requests keep their parents, and get their children when they arrive.
LEMMA LineageKept ==
  ASSUME TypeOK, TypeOK', Lineage, Kin(reqs'),
         \A x \in Id : reqs'[x].handler = reqs[x].handler \/ reqs[x].handler = None,
         \A x \in Id' : x \in Id \/ Born(x)',
         \A x \in Id' : \/ reqs'[x].handler = None
                        \/ /\ x \in Id
                           /\ reqs'[x].handler = reqs[x].handler
                           /\ reqs'[x].child = reqs[x].child
                        \/ Linked(x)'
  PROVE  Lineage'
  <1>0. /\ Id \subseteq Id'
        /\ \A x \in Id : /\ IsUser(x)' = IsUser(x) /\ Parent(x)' = Parent(x)
                         /\ DepOf(x)' = DepOf(x) /\ Deps(x)' = Deps(x)
        /\ \A x \in Id : reqs[x] \in Request
    BY KinId, ReqsType
  <1>1. ASSUME NEW x \in Id' PROVE Born(x)'
    <2>1. CASE x \in Id /\ IsUser(x)
      BY <2>1, <1>0 DEF Lineage, Born, Kin
    <2>2. CASE x \in Id /\ ~IsUser(x)
      <3>1. /\ Parent(x) \in Id /\ reqs[x].dep \in Deps(Parent(x))
            /\ reqs[Parent(x)].handler = reqs[x].requester
        BY <2>2 DEF Lineage, Born
      <3>2. reqs[x].requester # None
        BY <2>2, <1>0, ArchitectureAssumption DEF Request
      <3>3. reqs'[Parent(x)].handler = reqs'[x].requester
        BY <2>2, <3>1, <3>2 DEF Kin
      <3>4. /\ ~IsUser(x)' /\ Parent(x)' = Parent(x) /\ reqs'[x].dep = reqs[x].dep
            /\ Deps(Parent(x))' = Deps(Parent(x))
        BY <2>2, <1>0, <3>1 DEF Kin, Deps, Parent
      <3> QED
        BY <3>1, <3>3, <3>4, <1>0 DEF Born
    <2>3. CASE x \notin Id
      BY <2>3
    <2> QED
      BY <2>1, <2>2, <2>3
  <1>2. ASSUME NEW x \in Id' PROVE Linked(x)'
    <2>1. CASE reqs'[x].handler = None
      BY <2>1 DEF Linked
    <2>2. CASE /\ x \in Id /\ reqs'[x].handler = reqs[x].handler
               /\ reqs'[x].child = reqs[x].child /\ reqs'[x].handler # None
      <3>1. ASSUME NEW n \in Deps(x)'
            PROVE  \E c \in Id' : /\ c = reqs'[x].child[n]
                                  /\ DepOf(c)' = <<x, n>> /\ ~IsUser(c)'
        <4>1. n \in Deps(x)
          BY <1>0, <2>2
        <4>2. PICK c \in Id : /\ c = reqs[x].child[n]
                              /\ DepOf(c) = <<x, n>> /\ ~IsUser(c)
          BY <2>2, <4>1 DEF Lineage, Linked
        <4>3. DepOf(c)' = <<x, n>> /\ ~IsUser(c)'
          BY <4>2, <1>0
        <4> QED
          BY <4>2, <4>3, <2>2, <1>0
      <3> QED
        BY <3>1 DEF Linked, DepOf, IsUser
    <2> QED
      BY <2>1, <2>2
  <1> QED
    BY <1>1, <1>2 DEF Lineage

\* The messages of F are to be sent from now on, and those of N are heard of.
LEMMA MessagesKept ==
  ASSUME TypeOK, TypeOK', Messages, Kin(reqs'),
         NEW F, NEW N, F \subseteq Message', N \subseteq Message',
         ToSend' \subseteq ToSend \cup F, Heard' \subseteq Heard \cup N,
         N \cap ToSend' = {}, F \cap Heard' = {},
         \A m \in F : m.ans \/ IsUser(m.r)' \/ IsCurrent(m.r)',
         \A m \in ToSend \cap ToSend' :
            IsCurrent(m.r) => m.ans \/ IsUser(m.r) \/ IsCurrent(m.r)',
         \A x \in Id : reqs[x].computed => reqs'[x].computed,
         \A m \in F \cup N : m \in ToSend \cup Heard \/ (m.ans => reqs'[m.r].computed),
         AnswerOnce(due'), \A e \in flight' : e.type = "send" => ~e.m.ans,
         AnswersReturn', UsersAtOnce'
  PROVE  Messages'
  <1>0. /\ \A x \in Id : IsUser(x)' = IsUser(x)
        /\ ToSend \subseteq Message /\ Heard \subseteq Message
        /\ \A m \in Message : m.r \in Id
    BY KinId, MessageSets, ReqAns
  <1>1. ToSendIsUnknown'
    <2> SUFFICES ASSUME NEW m \in ToSend'
                 PROVE  m \notin Heard' /\ (m.ans \/ IsUser(m.r)' \/ IsCurrent(m.r)')
      BY DEF ToSendIsUnknown
    <2>1. CASE m \in F
      BY <2>1
    <2>2. CASE m \in ToSend
      <3>1. m \notin Heard /\ (m.ans \/ IsUser(m.r) \/ IsCurrent(m.r))
        BY <2>2 DEF Messages, ToSendIsUnknown
      <3>2. m \notin Heard'
        BY <3>1
      <3>3. m.ans \/ IsUser(m.r) \/ IsCurrent(m.r)'
        BY <2>2, <3>1
      <3> QED
        BY <2>2, <3>2, <3>3, <1>0
    <2> QED
      BY <2>1, <2>2
  <1>2. AnswersComputed'
    <2>1. ASSUME NEW m \in ToSend' \cup Heard', m.ans PROVE reqs'[m.r].computed
      <3>1. CASE m \in ToSend \cup Heard
        BY <2>1, <3>1, <1>0 DEF Messages, AnswersComputed
      <3>2. CASE m \notin ToSend \cup Heard
        BY <2>1, <3>2
      <3> QED
        BY <3>1, <3>2
    <2> QED
      BY <2>1 DEF AnswersComputed
  <1> QED
    BY <1>1, <1>2 DEF Messages

-----------------------------------------------------------------------------
(* Taking an event.                                                        *)

\* An answer that is sent once is not among the events left.
LEMMA TakeAnswer ==
  ASSUME NEW S, NEW q \in Seq(S), q # <<>>, AnswerOnce(q)
  PROVE  /\ AnswerOnce(Tail(q))
         /\ Head(q).type = "send" /\ Head(q).m.ans =>
              \A d \in Range(Tail(q)) : d.type = "send" => d.m # Head(q).m
  <1>1. /\ Tail(q) \in Seq(S) /\ Head(q) = q[1] /\ Len(q) \in Nat \ {0}
        /\ Len(Tail(q)) = Len(q) - 1
        /\ \A k \in 1..Len(Tail(q)) : Tail(q)[k] = q[k + 1]
    BY TailRange
  <1> DEFINE t == Tail(q)
             h == Head(q)
  <1>0. t \in Seq(S) /\ DOMAIN q = 1..Len(q) /\ DOMAIN t = 1..Len(t)
    BY <1>1
  <1> HIDE DEF t, h
  <1>2. \A x : x \in Range(t) <=> \E k \in 1..Len(t) : t[k] = x
    BY <1>0, RangeElements
  <1>3. DOMAIN q = 1..Len(q) /\ DOMAIN t = 1..Len(t)
    BY <1>0
  <1>4. AnswerOnce(t)
    <2> SUFFICES ASSUME NEW k \in 1..Len(t), NEW l \in 1..Len(t),
                        t[k].type = "send", t[l].type = "send",
                        t[k].m.ans, t[k].m = t[l].m
                 PROVE  k = l
      BY <1>3 DEF AnswerOnce
    <2>1. /\ t[k] = q[k + 1] /\ t[l] = q[l + 1]
          /\ k + 1 \in 1..Len(q) /\ l + 1 \in 1..Len(q)
      BY <1>1 DEF t
    <2>2. k + 1 = l + 1
      BY <2>1, <1>3 DEF AnswerOnce
    <2> QED
      BY <2>2
  <1>5. ASSUME h.type = "send", h.m.ans, NEW d \in Range(t), d.type = "send", d.m = h.m
        PROVE  FALSE
    <2>1. PICK k \in 1..Len(t) : t[k] = d
      BY <1>2
    <2>2. /\ q[k + 1] = d /\ k + 1 \in 1..Len(q) /\ q[1] = h /\ 1 \in 1..Len(q)
      BY <2>1, <1>1 DEF t, h
    <2>3. k + 1 = 1
      BY <2>2, <1>5, <1>3 DEF AnswerOnce
    <2> QED
      BY <2>3
  <1> QED
    BY <1>4, <1>5 DEF t, h

\* An answer that nobody was about to send may be appended.
LEMMA AppendAnswer ==
  ASSUME NEW S, NEW q \in Seq(S), NEW e \in S, AnswerOnce(q),
         e.type = "send" /\ e.m.ans => \A d \in Range(q) : d.type = "send" => d.m # e.m
  PROVE  AnswerOnce(Append(q, e))
  <1> DEFINE a == Append(q, e)
  <1>1. /\ a \in Seq(S) /\ Len(q) \in Nat /\ Len(a) = Len(q) + 1
        /\ \A k \in 1..Len(q) + 1 : a[k] = IF k <= Len(q) THEN q[k] ELSE e
        /\ DOMAIN q = 1..Len(q) /\ DOMAIN a = 1..Len(q) + 1
    OBVIOUS
  <1>2. \A x : x \in Range(q) <=> \E k \in 1..Len(q) : q[k] = x
    BY RangeElements
  <1> HIDE DEF a
  <1>3. ASSUME NEW k \in 1..Len(q) + 1, NEW l \in 1..Len(q) + 1,
               a[k].type = "send", a[l].type = "send", a[k].m.ans, a[k].m = a[l].m
        PROVE  k = l
    <2>1. CASE k <= Len(q) /\ l <= Len(q)
      BY <2>1, <1>1, <1>3 DEF AnswerOnce
    <2>2. CASE k <= Len(q) /\ l = Len(q) + 1
      <3>1. a[k] = q[k] /\ a[l] = e /\ q[k] \in Range(q)
        BY <2>2, <1>1, <1>2
      <3> QED
        BY <3>1, <1>3
    <2>3. CASE l <= Len(q) /\ k = Len(q) + 1
      <3>1. a[l] = q[l] /\ a[k] = e /\ q[l] \in Range(q)
        BY <2>3, <1>1, <1>2
      <3> QED
        BY <3>1, <1>3
    <2>4. CASE k = Len(q) + 1 /\ l = Len(q) + 1
      BY <2>4
    <2> QED
      BY <2>1, <2>2, <2>3, <2>4, <1>1
  <1> QED
    BY <1>1, <1>3 DEF AnswerOnce, a

\* Requests to be sent may be put behind a queue.
LEMMA ConcatAnswer ==
  ASSUME NEW S, NEW q \in Seq(S), NEW t \in Seq(S), AnswerOnce(q),
         \A d \in Range(t) : ~d.m.ans
  PROVE  AnswerOnce(q \o t)
  <1>1. /\ Len(q) \in Nat /\ Len(t) \in Nat
        /\ Len(q \o t) = Len(q) + Len(t) /\ q \o t \in Seq(S)
        /\ \A k \in 1..Len(q) + Len(t) :
              (q \o t)[k] = IF k <= Len(q) THEN q[k] ELSE t[k - Len(q)]
    BY ConcatRange
  <1>2. \A x : x \in Range(t) <=> \E k \in 1..Len(t) : t[k] = x
    BY RangeElements
  <1>3. DOMAIN q = 1..Len(q) /\ DOMAIN (q \o t) = 1..Len(q) + Len(t)
    BY <1>1
  <1> SUFFICES ASSUME NEW k \in 1..Len(q) + Len(t), NEW l \in 1..Len(q) + Len(t),
                      (q \o t)[k].type = "send", (q \o t)[l].type = "send",
                      (q \o t)[k].m.ans, (q \o t)[k].m = (q \o t)[l].m
               PROVE  k = l
    BY <1>3 DEF AnswerOnce
  <1>4. ASSUME NEW j \in 1..Len(q) + Len(t), (q \o t)[j].m.ans PROVE j <= Len(q)
    <2> SUFFICES ASSUME j > Len(q) PROVE FALSE
      BY <1>1
    <2>1. (q \o t)[j] = t[j - Len(q)] /\ j - Len(q) \in 1..Len(t)
      BY <1>1
    <2> QED
      BY <2>1, <1>2, <1>4
  <1>5. k <= Len(q) /\ l <= Len(q)
    BY <1>4
  <1> QED
    BY <1>1, <1>3, <1>5 DEF AnswerOnce

\* What is known of an event e that was taken, leaving the queue q and the
\* delayed events f
Taken(e, q, f) ==
  /\ Rest(e, q, f)
  /\ e \in Scheduled
  /\ Range(q) \subseteq Range(due) /\ f \subseteq flight
  /\ Scheduled = {e} \cup Range(q) \cup f
  /\ AnswerOnce(q)
  /\ e.type = "send" =>
       \A d \in Range(q) \cup f : d.type = "send" => d.m # e.m
  /\ MessagesOf(flight, "cancel") =
       MessagesOf(f, "cancel") \cup IF e.type = "cancel" THEN {e.m} ELSE {}

\* The first event of due is taken.
LEMMA TakenDue ==
  ASSUME LifeInvariant, due # <<>>
  PROVE  Taken(Head(due), Tail(due), flight)
  <1> DEFINE e == Head(due)
             q == Tail(due)
  <1>1. /\ Rest(e, q, flight) /\ TypeOK /\ due \in Seq(Due)
        /\ AnswerOnce(due) /\ \A d \in flight : d.type = "send" => ~d.m.ans
    BY TakeDue, InvariantFacts DEF LifeInvariant, Messages, AnswersComputed
  <1>2. /\ e \in Due /\ q \in Seq(Due) /\ Range(due) = {e} \cup Range(q)
    BY <1>1, TailRange
  <1>3. /\ AnswerOnce(q)
        /\ e.type = "send" /\ e.m.ans => \A d \in Range(q) : d.type = "send" => d.m # e.m
    BY <1>1, TakeAnswer
  <1> HIDE DEF e, q
  <1>4. e.type # "cancel" /\ (e.type = "send" => e.m \in Message)
    BY <1>2 DEF Due
  <1>5. Range(q) \subseteq Due /\ flight \subseteq Flight
    BY <1>1, <1>2, RangeElements DEF TypeOK
  <1>6. ASSUME e.type = "send", NEW d \in Range(q) \cup flight, d.type = "send", d.m = e.m
        PROVE  FALSE
    <2>1. CASE e.m.ans
      BY <2>1, <1>1, <1>3, <1>6
    <2>2. CASE ~e.m.ans
      BY <2>2, <1>1, <1>6 DEF Rest, OnTheWay, Absent
    <2> QED
      BY <2>1, <2>2, <1>4, <1>6 DEF Message
  <1>7. MessagesOf(flight, "cancel") =
          MessagesOf(flight, "cancel") \cup IF e.type = "cancel" THEN {e.m} ELSE {}
    BY <1>4
  <1>8. Scheduled = {e} \cup Range(q) \cup flight
    BY <1>2 DEF Scheduled
  <1> QED
    BY <1>1, <1>2, <1>3, <1>6, <1>7, <1>8 DEF Taken, e, q

\* A delayed event is taken.
LEMMA TakenDelayed ==
  ASSUME LifeInvariant, NEW e \in flight
  PROVE  Taken(e, due, flight \ {e})
  <1> DEFINE f == flight \ {e}
  <1>1. /\ Rest(e, due, f) /\ TypeOK
        /\ AnswerOnce(due) /\ \A d \in flight : d.type = "send" => ~d.m.ans
    BY TakeDelayed DEF LifeInvariant, Messages, AnswersComputed, HandlingInvariant
  <1>2. flight = {e} \cup f /\ f \subseteq flight
    OBVIOUS
  <1> HIDE DEF f
  <1>3. Scheduled = {e} \cup Range(due) \cup f
    BY <1>2 DEF Scheduled
  <1>4. ASSUME e.type = "send", NEW d \in Range(due) \cup f, d.type = "send", d.m = e.m
        PROVE  FALSE
    BY <1>1, <1>4 DEF Rest, OnTheWay, Absent
  <1>5. MessagesOf(flight, "cancel") =
          MessagesOf(f, "cancel") \cup IF e.type = "cancel" THEN {e.m} ELSE {}
    BY <1>2 DEF MessagesOf
  <1> QED
    BY <1>1, <1>2, <1>3, <1>4, <1>5 DEF Taken, f

-----------------------------------------------------------------------------
(* What a step leaves alone of the requests there are.                     *)

SameLife(s) ==
  \A x \in Id : /\ s[x].handler = reqs[x].handler
                /\ s[x].computed = reqs[x].computed
                /\ s[x].done = reqs[x].done
SameLinks(s)  == \A x \in Id : s[x].child = reqs[x].child
SameTries(s)  == \A x \in Id : s[x].tries = reqs[x].tries
SameCounts(s) ==
  \A x \in Id : s[x].succeeded = reqs[x].succeeded /\ s[x].failed = reqs[x].failed

\* Requests that are left alone
LEMMA NothingChanges ==
  ASSUME TypeOK
  PROVE  /\ Kin(reqs) /\ SameLife(reqs) /\ SameLinks(reqs) /\ SameTries(reqs)
         /\ SameCounts(reqs) /\ Len(reqs) = Len(reqs)
  BY ReqsType DEF Kin, SameLife, SameLinks, SameTries, SameCounts

\* Retry sets its index of one dependency.
WithTries(p, n, k) == [reqs EXCEPT ![p].tries[n] = k]

LEMMA SetTries ==
  ASSUME TypeOK, NEW p \in Id, NEW n \in DepName, NEW k \in Nat
  PROVE  LET s == WithTries(p, n, k)
         IN
         /\ s \in Seq(Request) /\ Len(s) = Len(reqs)
         /\ Kin(s) /\ SameLife(s) /\ SameLinks(s) /\ SameCounts(s)
         /\ \A x \in Id, y \in DepName :
              s[x].tries[y] = IF x = p /\ y = n THEN k ELSE reqs[x].tries[y]
  <1> DEFINE s == WithTries(p, n, k)
             v == [reqs[p] EXCEPT !.tries[n] = k]
  <1>1. reqs[p] \in Request /\ Len(reqs) \in Nat
    BY ReqsType
  <1>2. /\ v \in Request
        /\ v.op = reqs[p].op /\ v.parent = reqs[p].parent /\ v.dep = reqs[p].dep
        /\ v.requester = reqs[p].requester /\ v.handler = reqs[p].handler
        /\ v.computed = reqs[p].computed /\ v.done = reqs[p].done
        /\ v.child = reqs[p].child
        /\ v.succeeded = reqs[p].succeeded /\ v.failed = reqs[p].failed
        /\ \A y \in DepName : v.tries[y] = IF y = n THEN k ELSE reqs[p].tries[y]
    BY <1>1 DEF Request
  <1>3. s = [reqs EXCEPT ![p] = v]
    BY DEF WithTries
  <1> HIDE DEF v, s
  <1>4. /\ s \in Seq(Request) /\ Len(s) = Len(reqs)
        /\ s[p] = v /\ \A x \in Id : x # p => s[x] = reqs[x]
    BY <1>2, <1>3, Replaced
  <1>5. Kin(s) /\ SameLife(s) /\ SameLinks(s) /\ SameCounts(s)
    BY <1>1, <1>2, <1>4 DEF Kin, SameLife, SameLinks, SameCounts
  <1>6. ASSUME NEW x \in Id, NEW y \in DepName
        PROVE  s[x].tries[y] = IF x = p /\ y = n THEN k ELSE reqs[x].tries[y]
    BY <1>2, <1>4
  <1> QED
    BY <1>4, <1>5, <1>6 DEF s

\* A load generator counts a user request.
LEMMA SetCounts ==
  ASSUME TypeOK, NEW p \in Id, NEW s,
         \/ s = [reqs EXCEPT ![p].succeeded = @ + 1]
         \/ s = [reqs EXCEPT ![p].failed = @ + 1]
  PROVE  /\ s \in Seq(Request) /\ Len(s) = Len(reqs)
         /\ Kin(s) /\ SameLife(s) /\ SameLinks(s) /\ SameTries(s)
         /\ \A x \in Id : x # p => s[x] = reqs[x]
         /\ s = [reqs EXCEPT ![p].succeeded = @ + 1] =>
              s[p].succeeded = reqs[p].succeeded + 1 /\ s[p].failed = reqs[p].failed
         /\ s = [reqs EXCEPT ![p].failed = @ + 1] =>
              s[p].failed = reqs[p].failed + 1 /\ s[p].succeeded = reqs[p].succeeded
  <1>1. reqs[p] \in Request /\ Len(reqs) \in Nat
    BY ReqsType
  <1>2. ASSUME NEW v \in Request, s = [reqs EXCEPT ![p] = v],
               v.op = reqs[p].op, v.parent = reqs[p].parent, v.dep = reqs[p].dep,
               v.requester = reqs[p].requester, v.handler = reqs[p].handler,
               v.computed = reqs[p].computed, v.done = reqs[p].done,
               v.child = reqs[p].child, v.tries = reqs[p].tries
        PROVE  /\ s \in Seq(Request) /\ Len(s) = Len(reqs)
               /\ Kin(s) /\ SameLife(s) /\ SameLinks(s) /\ SameTries(s)
               /\ s[p] = v /\ \A x \in Id : x # p => s[x] = reqs[x]
    <2>1. /\ s \in Seq(Request) /\ Len(s) = Len(reqs)
          /\ s[p] = v /\ \A x \in Id : x # p => s[x] = reqs[x]
      BY <1>2, Replaced
    <2> QED
      BY <2>1, <1>1, <1>2 DEF Kin, SameLife, SameLinks, SameTries
  <1>3. ASSUME s = [reqs EXCEPT ![p].succeeded = @ + 1]
        PROVE  /\ s \in Seq(Request) /\ Len(s) = Len(reqs)
               /\ Kin(s) /\ SameLife(s) /\ SameLinks(s) /\ SameTries(s)
               /\ \A x \in Id : x # p => s[x] = reqs[x]
               /\ s[p].succeeded = reqs[p].succeeded + 1 /\ s[p].failed = reqs[p].failed
    <2> DEFINE k == reqs[p].succeeded + 1
               v == [reqs[p] EXCEPT !.succeeded = k]
    <2>0. k \in Nat
      BY <1>1 DEF Request
    <2> HIDE DEF k
    <2>1. /\ v \in Request /\ v.op = reqs[p].op /\ v.parent = reqs[p].parent
          /\ v.dep = reqs[p].dep /\ v.requester = reqs[p].requester
          /\ v.handler = reqs[p].handler /\ v.computed = reqs[p].computed
          /\ v.done = reqs[p].done /\ v.child = reqs[p].child
          /\ v.tries = reqs[p].tries
          /\ v.succeeded = k /\ v.failed = reqs[p].failed
      BY <1>1, <2>0 DEF Request
    <2>2. s = [reqs EXCEPT ![p] = v]
      BY <1>3 DEF k
    <2> HIDE DEF v
    <2> QED
      BY <2>1, <2>2, <1>2 DEF k
  <1>4. ASSUME s = [reqs EXCEPT ![p].failed = @ + 1]
        PROVE  /\ s \in Seq(Request) /\ Len(s) = Len(reqs)
               /\ Kin(s) /\ SameLife(s) /\ SameLinks(s) /\ SameTries(s)
               /\ \A x \in Id : x # p => s[x] = reqs[x]
               /\ s[p].failed = reqs[p].failed + 1 /\ s[p].succeeded = reqs[p].succeeded
    <2> DEFINE k == reqs[p].failed + 1
               v == [reqs[p] EXCEPT !.failed = k]
    <2>0. k \in Nat
      BY <1>1 DEF Request
    <2> HIDE DEF k
    <2>1. /\ v \in Request /\ v.op = reqs[p].op /\ v.parent = reqs[p].parent
          /\ v.dep = reqs[p].dep /\ v.requester = reqs[p].requester
          /\ v.handler = reqs[p].handler /\ v.computed = reqs[p].computed
          /\ v.done = reqs[p].done /\ v.child = reqs[p].child
          /\ v.tries = reqs[p].tries
          /\ v.failed = k /\ v.succeeded = reqs[p].succeeded
      BY <1>1, <2>0 DEF Request
    <2>2. s = [reqs EXCEPT ![p] = v]
      BY <1>4 DEF k
    <2> HIDE DEF v
    <2> QED
      BY <2>1, <2>2, <1>2 DEF k
  <1> QED
    BY <1>3, <1>4

\* The parts of the invariant that most proofs need
LEMMA LifeFacts ==
  ASSUME LifeInvariant
  PROVE  /\ HandlingInvariant /\ TypeOK /\ Instances /\ NeverAborts
         /\ Lineage /\ Messages /\ OpenIsCared /\ AttemptsRemembered /\ Counts
         /\ ComputedIsComplete /\ CompleteIsComputed /\ StatisticsMatch
         /\ \A r \in Id : Born(r) /\ Linked(r)
  BY InvariantFacts DEF LifeInvariant, Lineage

\* A request that an instance sends belongs to a dependency of a request that
\* this instance has received.
LEMMA InternalFacts ==
  ASSUME TypeOK, Lineage, NEW r \in Id, ~IsUser(r)
  PROVE  /\ Parent(r) \in Id /\ reqs[r].dep \in Deps(Parent(r))
         /\ reqs[r].dep \in DepName /\ Parent(r) = reqs[r].parent
         /\ reqs[r].requester \in Instance
         /\ reqs[Parent(r)].handler = reqs[r].requester
  <1>1. /\ reqs[r] \in Request
        /\ Parent(r) \in Id /\ reqs[r].dep \in Deps(Parent(r))
        /\ reqs[Parent(r)].handler = reqs[r].requester
    BY ReqsType DEF Lineage, Born
  <1>2. reqs[r].requester \in Instance
    BY <1>1 DEF IsUser, Request
  <1>3. Deps(Parent(r)) \subseteq DepName
    BY <1>1, ReqsType, ArchitectureAssumption DEF Deps, Request
  <1> QED
    BY <1>1, <1>2, <1>3 DEF Parent

-----------------------------------------------------------------------------
(* Sending.                                                                *)

\* OnRequestSend changes nothing but the index of Retry, by one.
LEMMA OnSendEffects ==
  ASSUME LifeInvariant, NEW m \in Message, OnRequestSend(m)
  PROVE  /\ Len(reqs') = Len(reqs)
         /\ Kin(reqs') /\ SameLife(reqs') /\ SameLinks(reqs') /\ SameCounts(reqs')
         /\ \A x \in Id, y \in DepName :
              reqs'[x].tries[y] =
                IF /\ ~m.ans /\ reqs[m.r].requester \in RetryInstance
                   /\ x = Parent(m.r) /\ y = reqs[m.r].dep
                THEN reqs[x].tries[y] + 1 ELSE reqs[x].tries[y]
         /\ UNION {outgoing'[i] : i \in Instance}
              \subseteq (UNION {outgoing[i] : i \in Instance}) \cup {m}
  <1>0. /\ TypeOK /\ Lineage /\ m.r \in Id
        /\ \A x \in Id : reqs[x] \in Request
    BY LifeFacts, ReqsType, ReqAns
  <1>1. UNION {outgoing'[i] : i \in Instance}
          \subseteq (UNION {outgoing[i] : i \in Instance}) \cup {m}
    BY DEF OnRequestSend
  <1>2. CASE m.ans \/ reqs[m.r].requester \notin RetryInstance
    <2>1. reqs' = reqs
      BY <1>2 DEF OnRequestSend
    <2> QED
      BY <2>1, <1>0, <1>1, <1>2, NothingChanges DEF SameTries
  <1>3. CASE ~m.ans /\ reqs[m.r].requester \in RetryInstance
    <2> DEFINE p == Parent(m.r)
               n == reqs[m.r].dep
    <2>1. ~IsUser(m.r)
      BY <1>3, ArchitectureAssumption DEF IsUser
    <2>2. p \in Id /\ n \in DepName
      BY <2>1, <1>0, InternalFacts
    <2>3. reqs[p].tries[n] + 1 \in Nat
      BY <2>2, <1>0 DEF Request
    <2> HIDE DEF p, n
    <2> DEFINE k == reqs[p].tries[n] + 1
    <2>4. reqs' = WithTries(p, n, k)
      BY <1>3 DEF OnRequestSend, WithTries, p, n
    <2> HIDE DEF k
    <2>5. /\ Len(reqs') = Len(reqs)
          /\ Kin(reqs') /\ SameLife(reqs') /\ SameLinks(reqs') /\ SameCounts(reqs')
          /\ \A x \in Id, y \in DepName :
               reqs'[x].tries[y] = IF x = p /\ y = n THEN k ELSE reqs[x].tries[y]
      BY <2>2, <2>3, <2>4, <1>0, SetTries DEF k
    <2> QED
      BY <2>5, <1>1, <1>3 DEF k, p, n
  <1> QED
    BY <1>2, <1>3

\* The messages of the events left, when e was taken
LEMMA TakenSets ==
  ASSUME NEW e, NEW q, NEW f, Taken(e, q, f)
  PROVE  LET left == Range(q) \cup f
         IN  /\ e.type = "send" => /\ e.m \in ToSend
                                   /\ MessagesOf(left, "send") = ToSend \ {e.m}
             /\ e.type # "send" => MessagesOf(left, "send") = ToSend
             /\ e.type = "receive" =>
                  /\ e.m \in Arriving
                  /\ Arriving = MessagesOf(left, "receive") \cup {e.m}
                  /\ ~e.m.ans => e.m \notin MessagesOf(left, "receive")
             /\ e.type # "receive" => MessagesOf(left, "receive") = Arriving
  <1> DEFINE left == Range(q) \cup f
  <1>1. Scheduled = {e} \cup left
    BY DEF Taken
  <1>2. e.type = "send" => \A d \in left : d.type = "send" => d.m # e.m
    BY DEF Taken
  <1>3. e.type = "receive" /\ ~e.m.ans => \A d \in left : d.type = "receive" => d.m # e.m
    BY DEF Taken, Rest, OnTheWay, Absent
  <1> HIDE DEF left
  <1> QED
    BY <1>1, <1>2, <1>3 DEF ToSend, Arriving, MessagesOf, left

\* The events D are added to the events L that are left.
Adds(L, D) ==
  /\ L \subseteq Scheduled
  /\ Scheduled' = L \cup D
  /\ \A d \in D : d.type = "receive" /\ d.m.ans => d.i = reqs'[d.m.r].requester

LEMMA AddedSets ==
  ASSUME NEW L, NEW D, Adds(L, D)
  PROVE  /\ ToSend' = MessagesOf(L, "send") \cup MessagesOf(D, "send")
         /\ Arriving' = MessagesOf(L, "receive") \cup MessagesOf(D, "receive")
  BY DEF ToSend, Arriving, Adds, MessagesOf

\* Answers still go to the requester.
LEMMA ReturnsKept ==
  ASSUME TypeOK, TypeOK', Kin(reqs'), Messages, NEW L, NEW D, Adds(L, D)
  PROVE  AnswersReturn'
  <1>1. \A d \in Scheduled : d.type = "receive" => d.m.r \in Id
    BY MessageSets, ReqAns DEF Due, Flight
  <1> SUFFICES ASSUME NEW d \in Scheduled', d.type = "receive", d.m.ans
               PROVE  d.i = reqs'[d.m.r].requester
    BY DEF AnswersReturn
  <1>2. CASE d \in L
    BY <1>1, <1>2 DEF Messages, AnswersReturn, Kin, Adds
  <1> QED
    BY <1>2 DEF Adds

\* The messages N are watched or reported to have failed from now on.
Watches(N) ==
  /\ N \subseteq Message'
  /\ armed' \cup MessagesOf(flight', "cancel")
       \subseteq armed \cup MessagesOf(flight, "cancel") \cup N
  /\ \A m \in N : ~IsUser(m.r)'

\* User requests still have no timeouts.
LEMMA UsersKept ==
  ASSUME TypeOK, TypeOK', Kin(reqs'), Messages, NEW N, Watches(N)
  PROVE  UsersAtOnce'
  <1>1. /\ armed \subseteq Message /\ MessagesOf(flight, "cancel") \subseteq Message
        /\ \A m \in Message : m.r \in Id
        /\ \A x \in Id : IsUser(x)' = IsUser(x)
    BY MessageSets, ReqAns, KinId
  <1> QED
    BY <1>1 DEF UsersAtOnce, Messages, Watches

\* What NetworkRequestSendEvent does: the message is sent, and either counted,
\* canceled or on its way, an internal one with a timeout.
LEMMA SendEffects ==
  ASSUME LifeInvariant, TypeOK', NEW e, NEW q, NEW f, Taken(e, q, f),
         e.type = "send", Send(e.m, q, f)
  PROVE  LET m == e.m
         IN
         /\ m \in Message /\ m \in ToSend /\ m \notin Heard
         /\ Len(reqs') = Len(reqs)
         /\ Kin(reqs') /\ SameLife(reqs') /\ SameLinks(reqs')
         /\ UNCHANGED <<state, handling, openDeps, notComputed, waiting, cpu,
                        finishing>>
         /\ ToSend' = ToSend \ {m}
         /\ Heard' \subseteq Heard \cup {m}
         /\ armed \subseteq armed' /\ armed' \subseteq armed \cup {m}
         /\ Failing \subseteq Failing' /\ Failing' \subseteq Failing \cup {m}
         /\ Arriving \subseteq Arriving' /\ Arriving' \subseteq Arriving \cup {m}
         /\ AnswerOnce(due') /\ \A d \in flight' : d.type = "send" => ~d.m.ans
         /\ AnswersReturn' /\ UsersAtOnce'
         /\ \/ ~m.ans /\ reqs[m.r].requester \in RetryInstance
            \/ SameTries(reqs')
         /\ \A x \in Id, y \in DepName :
              reqs'[x].tries[y] =
                IF /\ ~m.ans /\ reqs[m.r].requester \in RetryInstance
                   /\ x = Parent(m.r) /\ y = reqs[m.r].dep
                THEN reqs[x].tries[y] + 1 ELSE reqs[x].tries[y]
         /\ \/ /\ m.ans /\ IsUser(m.r) /\ urgent' = urgent /\ Arriving' = Arriving
               /\ reqs' = [reqs EXCEPT ![m.r].succeeded = @ + 1]
            \/ /\ ~m.ans /\ IsUser(m.r) /\ SameCounts(reqs') /\ urgent' = urgent
            \/ /\ ~m.ans /\ IsUser(m.r) /\ SameCounts(reqs') /\ Arriving' = Arriving
               /\ urgent' = Append(urgent, Cancel(m, "NO_INSTANCE_AVAILABLE"))
            \/ /\ ~IsUser(m.r) /\ SameCounts(reqs') /\ urgent' = urgent
               /\ IF m.ans THEN m \in Arriving' ELSE m \in armed' \cup Failing'
  <1> DEFINE m == e.m
             left == Range(q) \cup f
  <1>0. /\ TypeOK /\ Lineage /\ Messages /\ m \in Message /\ m.r \in Id
        /\ q \in Seq(Due) /\ f \subseteq Flight /\ urgent \in Seq(Cancellation)
        /\ \A x \in Id : reqs[x] \in Request
    BY LifeFacts, RestFacts, ReqsType, ReqAns DEF Taken, TypeOK
  <1>1. /\ m \in ToSend /\ MessagesOf(left, "send") = ToSend \ {m}
        /\ MessagesOf(left, "receive") = Arriving
        /\ MessagesOf(f, "cancel") = MessagesOf(flight, "cancel")
        /\ left \subseteq Scheduled /\ f \subseteq flight
        /\ AnswerOnce(q) /\ \A d \in flight : d.type = "send" => ~d.m.ans
    <2>1. /\ MessagesOf(f, "cancel") = MessagesOf(flight, "cancel")
          /\ left \subseteq Scheduled /\ f \subseteq flight /\ AnswerOnce(q)
      BY DEF Taken
    <2>2. \A d \in flight : d.type = "send" => ~d.m.ans
      BY <1>0 DEF Messages, AnswersComputed
    <2>3. /\ m \in ToSend /\ MessagesOf(left, "send") = ToSend \ {m}
          /\ MessagesOf(left, "receive") = Arriving
      BY TakenSets
    <2> QED
      BY <2>1, <2>2, <2>3
  <1>2. m \notin Heard
    BY <1>0, <1>1 DEF Messages, ToSendIsUnknown
  <1>3. UNCHANGED <<state, handling, openDeps, notComputed, waiting, cpu, finishing>>
    BY DEF Send, instVars
  <1>4. ASSUME NEW D, Adds(left, D), MessagesOf(D, "send") = {},
               MessagesOf(D, "receive") \subseteq {m}
        PROVE  /\ ToSend' = ToSend \ {m}
               /\ Arriving' = Arriving \cup MessagesOf(D, "receive")
               /\ Arriving \subseteq Arriving' /\ Arriving' \subseteq Arriving \cup {m}
               /\ Kin(reqs') => AnswersReturn'
    <2>1. /\ ToSend' = MessagesOf(left, "send") \cup MessagesOf(D, "send")
          /\ Arriving' = MessagesOf(left, "receive") \cup MessagesOf(D, "receive")
      BY <1>4, AddedSets
    <2>2. Kin(reqs') => AnswersReturn'
      BY <1>4, <1>0, ReturnsKept
    <2> QED
      BY <2>1, <2>2, <1>1, <1>4
  <1>9. MessagesOf({}, "receive") = {} /\ MessagesOf({}, "send") = {}
    BY DEF MessagesOf
  <1> HIDE DEF m, left
  <1>5. CASE SendUserAnswer(m, q, f)
    <2>1. /\ m.ans /\ IsUser(m.r)
          /\ reqs' = [reqs EXCEPT ![m.r].succeeded = @ + 1]
          /\ outgoing' = [outgoing EXCEPT ![reqs[m.r].handler] = @ \ {m}]
          /\ due' = q /\ flight' = f /\ urgent' = urgent /\ armed' = armed
      BY <1>5 DEF SendUserAnswer
    <2>2. /\ Len(reqs') = Len(reqs) /\ Kin(reqs') /\ SameLife(reqs')
          /\ SameLinks(reqs') /\ SameTries(reqs')
      BY <2>1, <1>0, SetCounts
    <2>3. Adds(left, {})
      BY <2>1, <1>1 DEF Scheduled, left, Adds
    <2>4. ToSend' = ToSend \ {m} /\ Arriving' = Arriving /\ AnswersReturn'
      BY <2>2, <2>3, <1>4, <1>9
    <2>5. /\ Failing' = Failing
          /\ MessagesOf(flight, "cancel")' = MessagesOf(flight, "cancel")
      BY <2>1, <1>1 DEF Failing
    <2>6. Heard' \subseteq Heard
      <3>1. UNION {outgoing'[i] : i \in Instance} \subseteq UNION {outgoing[i] : i \in Instance}
        BY <2>1, <1>0 DEF TypeOK
      <3> QED
        BY <2>1, <2>4, <2>5, <3>1 DEF Heard
    <2>8. UsersAtOnce'
      <3>1. Watches({})
        BY <2>1, <2>5 DEF Watches
      <3> QED
        BY <2>2, <3>1, <1>0, UsersKept
    <2>9. AnswerOnce(due') /\ \A d \in flight' : d.type = "send" => ~d.m.ans
      BY <2>1, <1>1
    <2>10. \A x \in Id, y \in DepName : reqs'[x].tries[y] = reqs[x].tries[y]
      BY <2>2 DEF SameTries
    <2>11. \A x \in Id, y \in DepName :
             reqs'[x].tries[y] =
               IF /\ ~m.ans /\ reqs[m.r].requester \in RetryInstance
                  /\ x = Parent(m.r) /\ y = reqs[m.r].dep
               THEN reqs[x].tries[y] + 1 ELSE reqs[x].tries[y]
      BY <2>1, <2>10
    <2>12. /\ armed \subseteq armed' /\ armed' \subseteq armed \cup {m}
           /\ Failing \subseteq Failing' /\ Failing' \subseteq Failing \cup {m}
           /\ Arriving \subseteq Arriving' /\ Arriving' \subseteq Arriving \cup {m}
           /\ Heard' \subseteq Heard \cup {m}
      BY <2>1, <2>4, <2>5, <2>6
    <2> QED
      BY <2>1, <2>2, <2>4, <2>8, <2>9, <2>11, <2>12, <1>0, <1>1, <1>2, <1>3 DEF m
  <1>6. CASE OnRequestSend(m)
    <2>1. /\ Len(reqs') = Len(reqs) /\ Kin(reqs') /\ SameLife(reqs')
          /\ SameLinks(reqs') /\ SameCounts(reqs')
          /\ UNION {outgoing'[i] : i \in Instance}
               \subseteq (UNION {outgoing[i] : i \in Instance}) \cup {m}
          /\ \A x \in Id, y \in DepName :
               reqs'[x].tries[y] =
                 IF /\ ~m.ans /\ reqs[m.r].requester \in RetryInstance
                    /\ x = Parent(m.r) /\ y = reqs[m.r].dep
                 THEN reqs[x].tries[y] + 1 ELSE reqs[x].tries[y]
      BY <1>0, <1>6, OnSendEffects
    <2>2. (~m.ans /\ reqs[m.r].requester \in RetryInstance) \/ SameTries(reqs')
      BY <1>0, <1>6, NothingChanges DEF OnRequestSend
    <2>3. CASE SendNowhere(m, q, f)
      <3>1. ~m.ans /\ due' = q /\ armed' = armed
        BY <2>3 DEF SendNowhere
      <3>2. CASE IsUser(m.r)
        <4>1. /\ urgent' = Append(urgent, Cancel(m, "NO_INSTANCE_AVAILABLE"))
              /\ flight' = f
          BY <2>3, <3>2 DEF SendNowhere
        <4>2. Cancel(m, "NO_INSTANCE_AVAILABLE") \in Cancellation
          BY <1>0 DEF Cancel, Cancellation, Reasons
        <4>3. Range(urgent') = Range(urgent) \cup {Cancel(m, "NO_INSTANCE_AVAILABLE")}
          BY <4>1, <4>2, <1>0, AppendRange
        <4>4. /\ Failing' = Failing \cup {m}
              /\ MessagesOf(flight, "cancel")' = MessagesOf(flight, "cancel")
          BY <4>1, <4>3, <1>1 DEF Failing, Cancel
        <4>5. Adds(left, {})
          BY <3>1, <4>1, <1>1 DEF Scheduled, left, Adds
        <4>6. ToSend' = ToSend \ {m} /\ Arriving' = Arriving /\ AnswersReturn'
          BY <2>1, <4>5, <1>4, <1>9
        <4>7. Heard' \subseteq Heard \cup {m}
          BY <2>1, <3>1, <4>4, <4>6 DEF Heard
        <4>9. UsersAtOnce'
          <5>1. Watches({})
            BY <3>1, <4>4 DEF Watches
          <5> QED
            BY <2>1, <5>1, <1>0, UsersKept
        <4>10. AnswerOnce(due') /\ \A d \in flight' : d.type = "send" => ~d.m.ans
          BY <3>1, <4>1, <1>1
        <4> QED
          BY <2>1, <2>2, <3>1, <3>2, <4>1, <4>4, <4>6, <4>7, <4>9, <4>10,
             <1>0, <1>1, <1>2, <1>3 DEF m
      <3>3. CASE ~IsUser(m.r)
        <4> DEFINE d == Event("cancel", m, None)
        <4>1. urgent' = urgent /\ flight' = f \cup {d}
          BY <2>3, <3>3 DEF SendNowhere
        <4>2. d.type = "cancel" /\ d.m = m
          BY DEF Event
        <4> HIDE DEF d
        <4>3. MessagesOf(flight', "cancel") = MessagesOf(flight, "cancel") \cup {m}
          BY <4>1, <4>2, <1>1 DEF MessagesOf
        <4>4. Failing' = Failing \cup {m}
          BY <4>1, <4>3 DEF Failing
        <4>5. Adds(left, {d})
          BY <3>1, <4>1, <4>2, <1>1 DEF Scheduled, left, Adds
        <4>6. ToSend' = ToSend \ {m} /\ Arriving' = Arriving /\ AnswersReturn'
          <5>1. MessagesOf({d}, "receive") = {} /\ MessagesOf({d}, "send") = {}
            BY <4>2 DEF MessagesOf
          <5> QED
            BY <2>1, <4>5, <5>1, <1>4
        <4>7. Heard' \subseteq Heard \cup {m}
          BY <2>1, <3>1, <4>4, <4>6 DEF Heard
        <4>9. UsersAtOnce'
          <5>1. ~IsUser(m.r)' /\ {m} \subseteq Message'
            BY <3>3, <2>1, <1>0, KinId
          <5>2. Watches({m})
            BY <3>1, <4>3, <5>1 DEF Watches
          <5> QED
            BY <2>1, <5>2, <1>0, UsersKept
        <4>10. AnswerOnce(due') /\ \A x \in flight' : x.type = "send" => ~x.m.ans
          BY <3>1, <4>1, <4>2, <1>1
        <4> QED
          BY <2>1, <2>2, <3>1, <3>3, <4>1, <4>4, <4>6, <4>7, <4>9, <4>10,
             <1>0, <1>1, <1>2, <1>3 DEF m
      <3> QED
        BY <3>2, <3>3
    <2>4. CASE SendUserRequest(m, q, f)
      <3>1. ~m.ans /\ IsUser(m.r) /\ flight' = f /\ urgent' = urgent /\ armed' = armed
        BY <2>4 DEF SendUserRequest
      <3>2. PICK i \in Instance : due' = Append(q, Event("receive", m, i))
        BY <2>4 DEF SendUserRequest, Available
      <3> DEFINE d == Event("receive", m, i)
      <3>3. d \in Due /\ d.type = "receive" /\ d.m = m
        BY <1>0 DEF Event, Due
      <3>4. due' = Append(q, d)
        BY <3>2
      <3> HIDE DEF d
      <3>5. Range(due') = Range(q) \cup {d} /\ AnswerOnce(due')
        BY <3>3, <3>4, <1>0, <1>1, AppendRange, AppendAnswer
      <3>6. Adds(left, {d})
        BY <3>1, <3>3, <3>5, <1>1 DEF Scheduled, left, Adds
      <3>7. /\ ToSend' = ToSend \ {m} /\ AnswersReturn'
            /\ Arriving \subseteq Arriving' /\ Arriving' \subseteq Arriving \cup {m}
        <4>1. MessagesOf({d}, "receive") = {m} /\ MessagesOf({d}, "send") = {}
          BY <3>3 DEF MessagesOf
        <4> QED
          BY <2>1, <3>6, <4>1, <1>4
      <3>8. /\ Failing' = Failing
            /\ MessagesOf(flight, "cancel")' = MessagesOf(flight, "cancel")
        BY <3>1, <1>1 DEF Failing
      <3>9. Heard' \subseteq Heard \cup {m}
        BY <2>1, <3>1, <3>7, <3>8 DEF Heard
      <3>11. UsersAtOnce'
        <4>1. Watches({})
          BY <3>1, <3>8 DEF Watches
        <4> QED
          BY <2>1, <4>1, <1>0, UsersKept
      <3>12. \A x \in flight' : x.type = "send" => ~x.m.ans
        BY <3>1, <1>1
      <3> QED
        BY <2>1, <2>2, <3>1, <3>5, <3>7, <3>8, <3>9, <3>11, <3>12,
           <1>0, <1>1, <1>2, <1>3 DEF m
    <2>5. CASE SendInternal(m, q, f)
      <3>1. /\ ~IsUser(m.r) /\ due' = q /\ urgent' = urgent /\ armed' = armed \cup {m}
        BY <2>5 DEF SendInternal
      <3>2. PICK i : /\ i \in IF m.ans THEN {reqs[m.r].requester}
                                       ELSE Available(reqs[m.r].op)
                     /\ flight' = f \cup {Event("receive", m, i)}
        BY <2>5 DEF SendInternal
      <3> DEFINE d == Event("receive", m, i)
      <3>3. /\ d.type = "receive" /\ d.m = m /\ flight' = f \cup {d}
            /\ m.ans => d.i = reqs[m.r].requester
        BY <3>2 DEF Event
      <3> HIDE DEF d
      <3>4. Adds(left, {d})
        <4>1. reqs'[m.r].requester = reqs[m.r].requester
          BY <2>1, <1>0 DEF Kin
        <4> QED
          BY <3>1, <3>3, <4>1, <1>1 DEF Scheduled, left, Adds
      <3>5. /\ ToSend' = ToSend \ {m} /\ m \in Arriving' /\ AnswersReturn'
            /\ Arriving \subseteq Arriving' /\ Arriving' \subseteq Arriving \cup {m}
        <4>1. MessagesOf({d}, "receive") = {m} /\ MessagesOf({d}, "send") = {}
          BY <3>3 DEF MessagesOf
        <4> QED
          BY <2>1, <3>4, <4>1, <1>4
      <3>6. /\ Failing' = Failing
            /\ MessagesOf(flight, "cancel")' = MessagesOf(flight, "cancel")
        <4>1. MessagesOf(flight', "cancel") = MessagesOf(f, "cancel")
          BY <3>3 DEF MessagesOf
        <4> QED
          BY <3>1, <4>1, <1>1 DEF Failing
      <3>7. Heard' \subseteq Heard \cup {m}
        BY <2>1, <3>1, <3>5, <3>6 DEF Heard
      <3>9. UsersAtOnce'
        <4>1. ~IsUser(m.r)' /\ {m} \subseteq Message'
          BY <3>1, <2>1, <1>0, KinId
        <4>2. Watches({m})
          BY <3>1, <3>6, <4>1 DEF Watches
        <4> QED
          BY <2>1, <4>2, <1>0, UsersKept
      <3>10. AnswerOnce(due') /\ \A x \in flight' : x.type = "send" => ~x.m.ans
        BY <3>1, <3>3, <1>1
      <3> QED
        BY <2>1, <2>2, <3>1, <3>5, <3>6, <3>7, <3>9, <3>10,
           <1>0, <1>1, <1>2, <1>3 DEF m
    <2>6. SendNowhere(m, q, f) \/ SendUserRequest(m, q, f) \/ SendInternal(m, q, f)
          \/ SendUserAnswer(m, q, f)
      BY DEF Send, m
    <2> QED
      BY <2>3, <2>4, <2>5, <2>6, <1>5
  <1> QED
    BY <1>5, <1>6 DEF Send, SendNowhere, SendUserRequest, SendInternal, m

\* The messages N are heard of from now on, and nothing new is to be sent.
Tells(N) ==
  /\ N \subseteq Message' /\ Heard' \subseteq Heard \cup N
  /\ ToSend' \subseteq ToSend /\ N \cap ToSend' = {}
  /\ \A m \in N : m \in ToSend \cup Heard \/ ~m.ans

\* A request stays the child of its dependency.
LEMMA StillCurrent ==
  ASSUME TypeOK, Lineage, Kin(reqs'), NEW r \in Id, ~IsUser(r),
         reqs'[Parent(r)].child[reqs[r].dep] = reqs[Parent(r)].child[reqs[r].dep]
  PROVE  IsCurrent(r)' = IsCurrent(r)
  <1>1. Parent(r) \in Id
    BY InternalFacts
  <1> QED
    BY <1>1 DEF IsCurrent, Parent, Kin

\* Most steps keep how requests and dependencies refer to each other, and
\* have nothing new to send.
LEMMA QuietMessages ==
  ASSUME TypeOK, TypeOK', Lineage, Messages, Kin(reqs'), SameLinks(reqs'),
         \A x \in Id : reqs[x].computed => reqs'[x].computed,
         NEW N, Tells(N),
         AnswerOnce(due'), \A d \in flight' : d.type = "send" => ~d.m.ans,
         AnswersReturn', UsersAtOnce'
  PROVE  Messages'
  <1>1. ToSend \subseteq Message /\ \A x \in Message : x.r \in Id
    BY MessageSets, ReqAns
  <1>2. \A x \in ToSend \cap ToSend' :
          IsCurrent(x.r) => x.ans \/ IsUser(x.r) \/ IsCurrent(x.r)'
    <2> SUFFICES ASSUME NEW x \in ToSend, IsCurrent(x.r), ~IsUser(x.r)
                 PROVE  IsCurrent(x.r)'
      OBVIOUS
    <2>1. x.r \in Id /\ Parent(x.r) \in Id
      BY <1>1, InternalFacts
    <2> QED
      BY <2>1, StillCurrent DEF SameLinks
  <1> DEFINE F == {}
  <1>3. /\ F \subseteq Message' /\ N \subseteq Message'
        /\ ToSend' \subseteq ToSend \cup F /\ Heard' \subseteq Heard \cup N
        /\ N \cap ToSend' = {} /\ F \cap Heard' = {}
        /\ \A x \in F : x.ans \/ IsUser(x.r)' \/ IsCurrent(x.r)'
        /\ \A x \in F \cup N : x \in ToSend \cup Heard \/ (x.ans => reqs'[x.r].computed)
    BY DEF Tells
  <1> HIDE DEF F
  <1> QED
    BY <1>2, <1>3, MessagesKept

LEMMA QuietLineage ==
  ASSUME TypeOK, TypeOK', Lineage, Kin(reqs'), Len(reqs') = Len(reqs),
         SameLinks(reqs'), \A x \in Id : reqs'[x].handler = reqs[x].handler
  PROVE  Lineage'
  <1>1. Id' = Id
    BY DEF Id
  <1> QED
    BY <1>1, LineageKept DEF SameLinks

\* Sending keeps the requests as they are, and what is known of messages.
LEMMA SendMessages ==
  ASSUME LifeInvariant, TypeOK', NEW e, NEW q, NEW f, Taken(e, q, f),
         e.type = "send", Send(e.m, q, f)
  PROVE  Lineage' /\ Messages'
  <1>1. PICK m \in Message :
          /\ m \in ToSend /\ m \notin Heard
          /\ Len(reqs') = Len(reqs)
          /\ Kin(reqs') /\ SameLife(reqs') /\ SameLinks(reqs')
          /\ ToSend' = ToSend \ {m} /\ Heard' \subseteq Heard \cup {m}
          /\ AnswerOnce(due') /\ \A d \in flight' : d.type = "send" => ~d.m.ans
          /\ AnswersReturn' /\ UsersAtOnce'
    BY SendEffects
  <1>2. TypeOK /\ Lineage /\ Messages /\ Message' = Message
    BY <1>1, LifeFacts DEF Id, Message
  <1>3. Tells({m})
    BY <1>1, <1>2 DEF Tells
  <1> QED
    BY <1>1, <1>2, <1>3, QuietLineage, QuietMessages DEF SameLife

-----------------------------------------------------------------------------
(* Receiving.                                                              *)

\* What is to be sent now that an event was taken from the queue q
Sending(q, D) == Range(due') = Range(q) \cup D /\ \A d \in D : d.type = "send"

\* What the arrival of a message does to the events
LEMMA ReceiveSets ==
  ASSUME LifeInvariant, TypeOK', NEW e, NEW q, NEW f, Taken(e, q, f),
         e.type = "receive", flight' = f,
         NEW D, Sending(q, D)
  PROVE  LET m == e.m
         IN
         /\ m \in Message /\ m.r \in Id /\ e.i \in Instance
         /\ m \in Arriving /\ m \in Heard
         /\ m.ans => e.i = reqs[m.r].requester /\ ~IsUser(m.r)
         /\ ~m.ans => m \notin Arriving'
         /\ Arriving' \subseteq Arriving /\ Arriving \subseteq Arriving' \cup {m}
         /\ ToSend' = ToSend \cup MessagesOf(D, "send")
         /\ MessagesOf(flight', "cancel") = MessagesOf(flight, "cancel")
         /\ q \in Seq(Due) /\ AnswerOnce(q)
         /\ \A d \in flight' : d.type = "send" => ~d.m.ans
         /\ Kin(reqs') => AnswersReturn'
  <1> DEFINE m == e.m
             left == Range(q) \cup f
  <1>0. /\ TypeOK /\ Lineage /\ Messages /\ m \in Message /\ m.r \in Id
        /\ e.i \in Instance /\ q \in Seq(Due) /\ AnswerOnce(q)
    BY LifeFacts, RestFacts, ReqAns DEF Taken
  <1>1. /\ m \in Arriving /\ Arriving = MessagesOf(left, "receive") \cup {m}
        /\ ~m.ans => m \notin MessagesOf(left, "receive")
        /\ MessagesOf(left, "send") = ToSend
    <2>1. Scheduled = {e} \cup left
      BY DEF Taken
    <2>2. m \in Arriving /\ (~m.ans => m \notin MessagesOf(left, "receive"))
      BY TakenSets
    <2> HIDE DEF left
    <2>3. /\ MessagesOf(left, "send") = ToSend
          /\ Arriving = MessagesOf(left, "receive") \cup {m}
      BY <2>1 DEF ToSend, Arriving, MessagesOf
    <2> QED
      BY <2>2, <2>3
  <1>2. m.ans => e.i = reqs[m.r].requester /\ ~IsUser(m.r)
    <2>1. m.ans => e.i = reqs[m.r].requester
      BY <1>0 DEF Taken, Messages, AnswersReturn
    <2> QED
      BY <2>1, <1>0, ArchitectureAssumption DEF IsUser
  <1>3. Adds(left, D)
    BY DEF Adds, Scheduled, Taken, Sending
  <1>4. /\ ToSend' = ToSend \cup MessagesOf(D, "send")
        /\ Arriving' = MessagesOf(left, "receive")
    <2>1. /\ ToSend' = MessagesOf(left, "send") \cup MessagesOf(D, "send")
          /\ Arriving' = MessagesOf(left, "receive") \cup MessagesOf(D, "receive")
      BY <1>3, AddedSets
    <2>2. MessagesOf(D, "receive") = {}
      BY DEF MessagesOf, Sending
    <2> QED
      BY <2>1, <2>2, <1>1
  <1>5. MessagesOf(flight', "cancel") = MessagesOf(flight, "cancel")
    BY DEF Taken
  <1>6. \A d \in flight' : d.type = "send" => ~d.m.ans
    BY <1>0 DEF Messages, AnswersComputed, Taken
  <1>7. Kin(reqs') => AnswersReturn'
    BY <1>0, <1>3, ReturnsKept
  <1>8. m \in Heard
    BY <1>1 DEF Heard
  <1> QED
    BY <1>0, <1>1, <1>2, <1>4, <1>5, <1>6, <1>7, <1>8

\* A message that has arrived is no longer outgoing.
LEMMA ArrivedSets ==
  ASSUME TypeOK, NEW m
  PROVE  /\ \A i \in Instance : Arrived(m)[i] \subseteq outgoing[i]
         /\ outgoing' = Arrived(m) =>
              UNION {outgoing'[i] : i \in Instance} \subseteq UNION {outgoing[i] : i \in Instance}
  BY DEF Arrived, TypeOK

\* One more message is reported to have failed.
LEMMA FailingAppend ==
  ASSUME TypeOK, NEW c \in Cancellation, urgent' = Append(urgent, c),
         MessagesOf(flight', "cancel") = MessagesOf(flight, "cancel")
  PROVE  Failing' = Failing \cup {c.m}
  <1>1. Range(urgent') = Range(urgent) \cup {c}
    BY AppendRange DEF TypeOK
  <1> QED
    BY <1>1 DEF Failing

\* A message is refused: it has failed.  An open dependency of a running
\* instance loses no answer.
LEMMA RefuseEffects ==
  ASSUME LifeInvariant, TypeOK', NEW e, NEW q, NEW f, Taken(e, q, f),
         e.type = "receive", Refuse(e.m, e.i, q), flight' = f,
         UNCHANGED <<state, finishing>>
  PROVE  LET m == e.m
         IN
         /\ m \in Message /\ m.r \in Id /\ e.i \in Instance
         /\ UNCHANGED <<reqs, state, handling, notComputed, waiting, cpu, finishing, armed>>
         /\ ToSend' = ToSend /\ Failing' = Failing \cup {m}
         /\ ~m.ans => m \notin Arriving'
         /\ Arriving' \subseteq Arriving /\ Arriving \subseteq Arriving' \cup {m}
         /\ urgent' = Append(urgent, Cancel(m, "HANDLING_INSTANCE_DIED"))
         /\ m \in Arriving
         /\ m.ans => e.i = reqs[m.r].requester /\ ~IsUser(m.r)
         /\ openDeps' = IF CanHandle(e.i, m)
                        THEN [openDeps EXCEPT ![e.i] = @ \ {DepOf(m.r)}]
                        ELSE openDeps
         /\ Lineage' /\ Messages'
  <1> DEFINE m == e.m
  <1>1. /\ UNCHANGED <<reqs, state, handling, notComputed, waiting, cpu, finishing, armed, outgoing>>
        /\ due' = q /\ urgent' = Append(urgent, Cancel(m, "HANDLING_INSTANCE_DIED"))
        /\ openDeps' = IF CanHandle(e.i, m)
                       THEN [openDeps EXCEPT ![e.i] = @ \ {DepOf(m.r)}]
                       ELSE openDeps
    BY DEF Refuse
  <1>2. /\ TypeOK /\ Lineage /\ Messages
        /\ Kin(reqs') /\ SameLife(reqs') /\ SameLinks(reqs') /\ Len(reqs') = Len(reqs)
        /\ Message' = Message
    BY <1>1, LifeFacts, NothingChanges DEF Message, Id
  <1>3. /\ m \in Message /\ m.r \in Id /\ e.i \in Instance
        /\ m \in Arriving /\ m \in Heard
        /\ m.ans => e.i = reqs[m.r].requester /\ ~IsUser(m.r)
        /\ ~m.ans => m \notin Arriving'
        /\ Arriving' \subseteq Arriving /\ Arriving \subseteq Arriving' \cup {m}
        /\ ToSend' = ToSend \cup MessagesOf({}, "send")
        /\ MessagesOf(flight', "cancel") = MessagesOf(flight, "cancel")
        /\ AnswerOnce(q) /\ \A d \in flight' : d.type = "send" => ~d.m.ans
        /\ AnswersReturn'
    <2>1. Sending(q, {})
      BY <1>1 DEF Sending
    <2> QED
      BY <2>1, <1>2, ReceiveSets
  <1> HIDE DEF m
  <1>4. Failing' = Failing \cup {m}
    <2>1. Cancel(m, "HANDLING_INSTANCE_DIED") \in Cancellation
      BY <1>3 DEF Cancel, Cancellation, Reasons
    <2> QED
      BY <2>1, <1>1, <1>2, <1>3, FailingAppend DEF Cancel
  <1>5. ToSend' = ToSend
    BY <1>3 DEF MessagesOf
  <1>6. Tells({m})
    <2>1. m \notin ToSend
      BY <1>2, <1>3 DEF Messages, ToSendIsUnknown
    <2>2. Heard' \subseteq Heard \cup {m}
      BY <1>1, <1>3, <1>4 DEF Heard
    <2> QED
      BY <2>1, <2>2, <1>2, <1>3, <1>5 DEF Tells
  <1>7. Watches({})
    BY <1>1, <1>3 DEF Watches
  <1>8. UsersAtOnce'
    BY <1>2, <1>7, UsersKept
  <1>9. Lineage' /\ Messages'
    BY <1>1, <1>2, <1>3, <1>6, <1>8, QuietLineage, QuietMessages DEF SameLife
  <1> QED
    BY <1>1, <1>3, <1>4, <1>5, <1>9 DEF m

\* The answer m closes dependency n of request p at instance i.
Closes(m, i, p, n) ==
  /\ m \in Message /\ m = Ans(m.r) /\ m.r \in Id /\ ~IsUser(m.r)
  /\ p \in Id /\ n \in DepName /\ p = Parent(m.r) /\ DepOf(m.r) = <<p, n>>
  /\ i \in Instance /\ i = reqs[m.r].requester
  /\ p \in handling[i] /\ <<p, n>> \in openDeps[i] /\ IsCurrent(m.r)
  /\ Kin(reqs') /\ Len(reqs') = Len(reqs) /\ SameLinks(reqs') /\ SameCounts(reqs')
  /\ \A x \in Id : /\ reqs'[x].handler = reqs[x].handler
                   /\ reqs'[x].computed = reqs[x].computed
                   /\ reqs'[x].done = IF x = p THEN reqs[x].done \cup {n}
                                               ELSE reqs[x].done
  /\ \A x \in Id, y \in DepName :
       reqs'[x].tries[y] = IF x = p /\ y = n THEN 0 ELSE reqs[x].tries[y]
  /\ UNCHANGED <<state, handling, notComputed, finishing, urgent>>
  /\ openDeps' = [openDeps EXCEPT ![i] = @ \ {<<p, n>>}]
  /\ waiting' = [waiting EXCEPT ![i] = IF Completes(p, n) THEN @ - 1 ELSE @]
  /\ cpu' = [cpu EXCEPT ![i] = IF Completes(p, n) THEN @ \cup {p} ELSE @]
  /\ ToSend' = ToSend /\ Failing' = Failing
  /\ armed' = armed \ {m, Req(m.r)}
  /\ m \in Arriving /\ reqs[m.r].computed
  /\ Arriving' \subseteq Arriving /\ Arriving \subseteq Arriving' \cup {m}

LEMMA AnswerEffects ==
  ASSUME LifeInvariant, TypeOK', NEW e, NEW q, NEW f, Taken(e, q, f),
         e.type = "receive", ReceiveAnswer(e.m, e.i, q), flight' = f,
         UNCHANGED <<state, finishing>>
  PROVE  /\ \E p \in Id, n \in DepName : Closes(e.m, e.i, p, n)
         /\ Lineage' /\ Messages'
  <1> DEFINE m == e.m
             p == Parent(m.r)
             n == reqs[m.r].dep
  <1>1. /\ m.ans /\ Awaited(e.i, m.r)
        /\ openDeps' = [openDeps EXCEPT ![e.i] = @ \ {DepOf(m.r)}]
        /\ reqs' = [reqs EXCEPT ![p].done = @ \cup {n}, ![p].tries[n] = 0]
        /\ waiting' = [waiting EXCEPT ![e.i] = IF Completes(p, n) THEN @ - 1 ELSE @]
        /\ cpu' = [cpu EXCEPT ![e.i] = IF Completes(p, n) THEN @ \cup {p} ELSE @]
        /\ outgoing' = [Arrived(m) EXCEPT ![e.i] = @ \ {Req(m.r)}]
        /\ armed' = armed \ {m, Req(m.r)}
        /\ due' = q
        /\ UNCHANGED <<state, handling, notComputed, finishing, urgent>>
    BY DEF ReceiveAnswer, Disarm
  <1>2. TypeOK /\ Lineage /\ Messages /\ \A x \in Id : reqs[x] \in Request
    BY LifeFacts, ReqsType
  <1>3. /\ m \in Message /\ m.r \in Id /\ e.i \in Instance
        /\ m \in Arriving /\ m \in Heard
        /\ e.i = reqs[m.r].requester /\ ~IsUser(m.r)
        /\ Arriving' \subseteq Arriving /\ Arriving \subseteq Arriving' \cup {m}
        /\ ToSend' = ToSend \cup MessagesOf({}, "send")
        /\ MessagesOf(flight', "cancel") = MessagesOf(flight, "cancel")
        /\ AnswerOnce(q) /\ \A d \in flight' : d.type = "send" => ~d.m.ans
        /\ Kin(reqs') => AnswersReturn'
    <2>1. Sending(q, {})
      BY <1>1 DEF Sending
    <2>2. m.ans
      BY <1>1
    <2> QED
      BY <2>1, <2>2, ReceiveSets
  <1> HIDE DEF m
  <1>4. /\ p \in Id /\ n \in DepName /\ DepOf(m.r) = <<p, n>>
        /\ p \in handling[e.i] /\ <<p, n>> \in openDeps[e.i] /\ IsCurrent(m.r)
        /\ m = Ans(m.r) /\ reqs[m.r].computed
    <2>1. p \in Id /\ n \in DepName
      BY <1>2, <1>3, InternalFacts
    <2>2. DepOf(m.r) = <<p, n>>
      BY DEF DepOf, Parent
    <2>3. reqs[m.r].computed
      BY <1>1, <1>2, <1>3 DEF Messages, AnswersComputed
    <2>4. m = Ans(m.r)
      BY <1>1, <1>3, ReqAns
    <2> QED
      BY <2>1, <2>2, <2>3, <2>4, <1>1 DEF Awaited
  <1> HIDE DEF m, p, n
  <1>5. /\ Kin(reqs') /\ Len(reqs') = Len(reqs) /\ SameLinks(reqs') /\ SameCounts(reqs')
        /\ \A x \in Id : /\ reqs'[x].handler = reqs[x].handler
                         /\ reqs'[x].computed = reqs[x].computed
                         /\ reqs'[x].done = IF x = p THEN reqs[x].done \cup {n}
                                                     ELSE reqs[x].done
        /\ \A x \in Id, y \in DepName :
             reqs'[x].tries[y] = IF x = p /\ y = n THEN 0 ELSE reqs[x].tries[y]
    <2> DEFINE k == reqs[p].done \cup {n}
               v == [reqs[p] EXCEPT !.done = @ \cup {n}, !.tries[n] = 0]
    <2>0. reqs[p] \in Request /\ DOMAIN reqs = Id
      BY <1>2, <1>4, ReqsType
    <2>1. reqs' = [reqs EXCEPT ![p] = v]
      BY <1>1, <1>4, <2>0 DEF Request
    <2>2. v \in Request
      BY <1>4, <2>0 DEF Request
    <2>3. /\ v.op = reqs[p].op /\ v.parent = reqs[p].parent
          /\ v.dep = reqs[p].dep /\ v.requester = reqs[p].requester
          /\ v.handler = reqs[p].handler /\ v.computed = reqs[p].computed
          /\ v.done = k /\ v.child = reqs[p].child
          /\ v.succeeded = reqs[p].succeeded /\ v.failed = reqs[p].failed
      BY <2>0 DEF Request
    <2>8. v.tries = [reqs[p].tries EXCEPT ![n] = 0]
      BY <2>0 DEF Request
    <2> HIDE DEF v
    <2>9. \A y \in DepName : v.tries[y] = IF y = n THEN 0 ELSE reqs[p].tries[y]
      BY <1>4, <2>0, <2>8 DEF Request
    <2>4. /\ Len(reqs') = Len(reqs)
          /\ reqs'[p] = v /\ \A x \in Id : x # p => reqs'[x] = reqs[x]
      BY <2>1, <2>2, <1>2, <1>4, Replaced
    <2>5. \A x \in Id, y \in DepName :
             reqs'[x].tries[y] = IF x = p /\ y = n THEN 0 ELSE reqs[x].tries[y]
      BY <2>4, <2>9
    <2>6. Kin(reqs') /\ SameLinks(reqs') /\ SameCounts(reqs')
      BY <2>3, <2>4, <1>2, ReqsType DEF Kin, SameLinks, SameCounts
    <2> QED
      BY <2>3, <2>4, <2>5, <2>6 DEF k
  <1>6. ToSend' = ToSend /\ Failing' = Failing
    BY <1>1, <1>3 DEF MessagesOf, Failing
  <1>7. Tells({})
    <2>1. UNION {outgoing'[i] : i \in Instance} \subseteq UNION {outgoing[i] : i \in Instance}
      <3>1. outgoing' \in [Instance -> SUBSET Message'] /\ DOMAIN Arrived(m) = Instance
        BY DEF TypeOK, Arrived
      <3>2. \A i \in Instance : outgoing'[i] \subseteq Arrived(m)[i]
        BY <1>1, <3>1
      <3>3. \A i \in Instance : outgoing'[i] \subseteq outgoing[i]
        BY <3>2, <1>2, ArrivedSets
      <3> QED
        BY <3>3
    <2>2. Heard' \subseteq Heard
      BY <2>1, <1>1, <1>3, <1>6 DEF Heard
    <2> QED
      BY <2>2, <1>6 DEF Tells
  <1>8. UsersAtOnce'
    <2>1. Watches({})
      BY <1>1, <1>3 DEF Watches
    <2> QED
      BY <2>1, <1>2, <1>5, UsersKept
  <1>9. Lineage' /\ Messages'
    BY <1>1, <1>2, <1>3, <1>5, <1>7, <1>8, QuietLineage, QuietMessages
  <1>10. /\ openDeps' = [openDeps EXCEPT ![e.i] = @ \ {<<p, n>>}]
         /\ p = Parent(m.r)
    BY <1>1, <1>4 DEF p
  <1>11. /\ waiting' = [waiting EXCEPT ![e.i] = IF Completes(p, n) THEN @ - 1 ELSE @]
         /\ cpu' = [cpu EXCEPT ![e.i] = IF Completes(p, n) THEN @ \cup {p} ELSE @]
         /\ armed' = armed \ {m, Req(m.r)}
         /\ UNCHANGED <<state, handling, notComputed, finishing, urgent>>
    BY <1>1
  <1>12. Closes(m, e.i, p, n)
    BY <1>3, <1>4, <1>5, <1>6, <1>10, <1>11 DEF Closes
  <1> QED
    BY <1>4, <1>9, <1>12 DEF m

\* Request r arrives at instance i, that handles it from now on.
Begins(r, i) ==
  /\ r \in Id /\ i \in Instance /\ Live(i) /\ Untouched(reqs, r)
  /\ r \notin finishing /\ \A j \in Instance : r \notin handling[j] /\ r \notin cpu[j]
  /\ handling' = [handling EXCEPT ![i] = @ \cup {r}]
  /\ notComputed' = [notComputed EXCEPT ![i] = @ + 1]
  /\ UNCHANGED <<state, finishing, urgent, armed>>
  /\ Kin(reqs') /\ SameTries(reqs') /\ SameCounts(reqs')
  /\ \A x \in Id : /\ reqs'[x].handler = IF x = r THEN i ELSE reqs[x].handler
                   /\ reqs'[x].computed = reqs[x].computed
                   /\ reqs'[x].done = reqs[x].done
                   /\ x # r => reqs'[x].child = reqs[x].child
  /\ Req(r) \in Arriving /\ Req(r) \notin Arriving' /\ Req(r) \notin ToSend
  /\ \A m \in Arriving : m # Req(r) => m \in Arriving'
  /\ Arriving' \subseteq Arriving /\ Failing' = Failing

\* What is known when a request arrives, whether it has dependencies or not:
\* D are the events that send its child requests.
LEMMA BeginsEffects ==
  ASSUME LifeInvariant, TypeOK', NEW e, NEW q, NEW f, Taken(e, q, f),
         e.type = "receive", ReceiveRequest(e.m, e.i, q), flight' = f,
         UNCHANGED <<state, finishing>>, NEW D, Sending(q, D),
         Kin(reqs'), SameTries(reqs'), SameCounts(reqs'),
         \A x \in Id : /\ reqs'[x].handler = IF x = e.m.r THEN e.i ELSE reqs[x].handler
                       /\ reqs'[x].computed = reqs[x].computed
                       /\ reqs'[x].done = reqs[x].done
                       /\ x # e.m.r => reqs'[x].child = reqs[x].child
  PROVE  /\ Begins(e.m.r, e.i) /\ e.m = Req(e.m.r)
         /\ ToSend' = ToSend \cup MessagesOf(D, "send") /\ Heard' \subseteq Heard
         /\ q \in Seq(Due) /\ AnswerOnce(q)
         /\ \A d \in flight' : d.type = "send" => ~d.m.ans
         /\ AnswersReturn' /\ UsersAtOnce'
  <1> DEFINE m == e.m
             r == e.m.r
             i == e.i
  <1>0. TypeOK /\ HandlingInvariant /\ Lineage /\ Messages
    BY LifeFacts
  <1>1. /\ ~m.ans /\ CanHandle(i, m)
        /\ handling' = [handling EXCEPT ![i] = @ \cup {r}]
        /\ notComputed' = [notComputed EXCEPT ![i] = @ + 1]
        /\ outgoing' = Arrived(m)
        /\ UNCHANGED <<state, finishing, urgent, armed>>
    BY DEF ReceiveRequest
  <1>2. /\ r \in Id /\ Untouched(reqs, r) /\ r \notin finishing
        /\ \A j \in Instance : r \notin handling[j] /\ r \notin cpu[j]
    BY <1>0, <1>1, ArrivingFacts DEF Taken
  <1>3. /\ m \in Message /\ i \in Instance
        /\ m \in Arriving /\ m \in Heard /\ m \notin Arriving'
        /\ Arriving' \subseteq Arriving /\ Arriving \subseteq Arriving' \cup {m}
        /\ ToSend' = ToSend \cup MessagesOf(D, "send")
        /\ MessagesOf(flight', "cancel") = MessagesOf(flight, "cancel")
        /\ q \in Seq(Due) /\ AnswerOnce(q)
        /\ \A d \in flight' : d.type = "send" => ~d.m.ans
        /\ AnswersReturn'
    BY <1>1, ReceiveSets
  <1> HIDE DEF m, r, i
  <1>4. m = Req(r)
    BY <1>1, <1>3, ReqAns DEF r, m
  <1>5. Live(i)
    BY <1>1 DEF CanHandle, Live
  <1>6. Failing' = Failing
    BY <1>1, <1>3 DEF Failing
  <1>7. m \notin ToSend
    BY <1>0, <1>3 DEF Messages, ToSendIsUnknown
  <1>8. \A x \in Id : /\ reqs'[x].handler = IF x = r THEN i ELSE reqs[x].handler
                      /\ reqs'[x].computed = reqs[x].computed
                      /\ reqs'[x].done = reqs[x].done
                      /\ x # r => reqs'[x].child = reqs[x].child
    BY DEF r, i
  <1>9. Begins(r, i)
    BY <1>1, <1>2, <1>3, <1>4, <1>5, <1>6, <1>7, <1>8 DEF Begins
  <1>10. Heard' \subseteq Heard
    <2>1. UNION {outgoing'[j] : j \in Instance} \subseteq UNION {outgoing[j] : j \in Instance}
      BY <1>0, <1>1, ArrivedSets
    <2> QED
      BY <2>1, <1>1, <1>3, <1>6 DEF Heard
  <1>11. UsersAtOnce'
    <2>1. Watches({})
      BY <1>1, <1>3 DEF Watches
    <2> QED
      BY <2>1, <1>0, UsersKept
  <1> QED
    BY <1>3, <1>4, <1>9, <1>10, <1>11 DEF m, r, i

\* A request without dependencies goes to the CPU.
BeginsLeaf(r, i) ==
  /\ Begins(r, i) /\ Deps(r) = {}
  /\ Len(reqs') = Len(reqs) /\ SameLinks(reqs')
  /\ cpu' = [cpu EXCEPT ![i] = @ \cup {r}]
  /\ UNCHANGED <<waiting, openDeps>>
  /\ ToSend' = ToSend

LEMMA LeafEffects ==
  ASSUME LifeInvariant, TypeOK', NEW e, NEW q, NEW f, Taken(e, q, f),
         e.type = "receive", ReceiveRequest(e.m, e.i, q), flight' = f,
         UNCHANGED <<state, finishing>>, ReceiveLeafRequest(e.m.r, e.i, q)
  PROVE  BeginsLeaf(e.m.r, e.i) /\ Lineage' /\ Messages'
  <1> DEFINE r == e.m.r
             i == e.i
  <1>1. /\ Deps(r) = {} /\ reqs' = [reqs EXCEPT ![r].handler = i]
        /\ cpu' = [cpu EXCEPT ![i] = @ \cup {r}] /\ due' = q
        /\ UNCHANGED <<waiting, openDeps>>
    BY DEF ReceiveLeafRequest
  <1>2. TypeOK /\ Lineage /\ Messages /\ HandlingInvariant
    BY LifeFacts
  <1>3. r \in Id /\ i \in Instance
    <2>1. e.m \in Message /\ e.i \in Instance
      BY RestFacts DEF Taken
    <2> QED
      BY <2>1, ReqAns
  <1> HIDE DEF r, i
  <1>4. /\ Len(reqs') = Len(reqs) /\ Kin(reqs') /\ SameLinks(reqs')
        /\ SameTries(reqs') /\ SameCounts(reqs')
        /\ \A x \in Id : /\ reqs'[x].handler = IF x = r THEN i ELSE reqs[x].handler
                         /\ reqs'[x].computed = reqs[x].computed
                         /\ reqs'[x].done = reqs[x].done
    <2> DEFINE v == [reqs[r] EXCEPT !.handler = i]
    <2>1. reqs[r] \in Request /\ Len(reqs) \in Nat
      BY <1>2, <1>3, ReqsType
    <2>2. /\ v \in Request /\ v.op = reqs[r].op /\ v.parent = reqs[r].parent
          /\ v.dep = reqs[r].dep /\ v.requester = reqs[r].requester
          /\ v.handler = i /\ v.computed = reqs[r].computed
          /\ v.done = reqs[r].done /\ v.child = reqs[r].child
          /\ v.tries = reqs[r].tries
          /\ v.succeeded = reqs[r].succeeded /\ v.failed = reqs[r].failed
      BY <1>3, <2>1 DEF Request
    <2>3. reqs' = [reqs EXCEPT ![r] = v]
      BY <1>1
    <2> HIDE DEF v
    <2>4. /\ Len(reqs') = Len(reqs)
          /\ reqs'[r] = v /\ \A x \in Id : x # r => reqs'[x] = reqs[x]
      BY <2>2, <2>3, <1>2, <1>3, Replaced
    <2> QED
      BY <2>1, <2>2, <2>4 DEF Kin, SameLinks, SameTries, SameCounts
  <1>5. /\ Begins(r, i) /\ ToSend' = ToSend \cup MessagesOf({}, "send")
        /\ Heard' \subseteq Heard /\ AnswerOnce(q)
        /\ \A d \in flight' : d.type = "send" => ~d.m.ans
        /\ AnswersReturn' /\ UsersAtOnce'
    <2>1. Sending(q, {})
      BY <1>1 DEF Sending
    <2>2. \A x \in Id : x # r => reqs'[x].child = reqs[x].child
      BY <1>4 DEF SameLinks
    <2> QED
      BY <2>1, <2>2, <1>4, BeginsEffects DEF r, i
  <1>6. ToSend' = ToSend
    BY <1>5 DEF MessagesOf
  <1>7. BeginsLeaf(r, i)
    BY <1>1, <1>4, <1>5, <1>6 DEF BeginsLeaf
  <1>8. Lineage'
    <2>1. Id' = Id
      BY <1>4 DEF Id
    <2>2. Deps(r)' = {}
      BY <1>1, <1>3, <1>4 DEF Deps, Kin
    <2>3. reqs[r].handler = None
      BY <1>5 DEF Begins, Untouched
    <2>4. Linked(r)'
      BY <2>2 DEF Linked
    <2> QED
      BY <2>1, <2>3, <2>4, <1>2, <1>4, LineageKept DEF SameLinks
  <1>9. Messages'
    <2>1. Tells({})
      BY <1>5, <1>6 DEF Tells
    <2> QED
      BY <2>1, <1>1, <1>2, <1>4, <1>5, QuietMessages
  <1> QED
    BY <1>7, <1>8, <1>9 DEF r, i

\* A request that nothing has happened to yet
Unborn(v) ==
  /\ v.handler = None /\ ~v.computed /\ v.done = {}
  /\ v.succeeded = 0 /\ v.failed = 0
  /\ \A y \in DepName : v.tries[y] = 0

\* A request with dependencies waits for a child request of each.
BeginsComposite(r, i) ==
  /\ Begins(r, i) /\ Deps(r) # {} /\ Deps(r) \subseteq DepName
  /\ openDeps' = [openDeps EXCEPT ![i] = @ \cup AllDeps(r)]
  /\ waiting' = [waiting EXCEPT ![i] = @ + 1]
  /\ UNCHANGED cpu
  /\ Id \subseteq Id'
  /\ \A c \in Id' \ Id :
       /\ reqs'[c].parent = r /\ reqs'[c].dep \in Deps(r)
       /\ reqs'[c].requester = i /\ Unborn(reqs'[c])
       /\ reqs'[r].child[reqs'[c].dep] = c
       /\ reqs'[c].op = TargetOf[reqs'[c].dep]
  /\ \A n \in Deps(r) :
       reqs'[r].child[n] \in Id' \ Id /\ reqs'[reqs'[r].child[n]].dep = n
  /\ ToSend' = ToSend \cup {Req(c) : c \in Id' \ Id}

\* The requests when r arrives at i and its dependencies are opened in the
\* given order
WithChildren(r, i, order) ==
  [reqs EXCEPT ![r].handler = i, ![r].child = ChildrenOf(r, order)]
    \o Created(r, i, order)

\* The child requests and their dependencies
LEMMA CreatedChildren ==
  ASSUME LifeInvariant, NEW r \in Id, NEW i \in Instance,
         NEW order \in Orders(Deps(r)),
         reqs' = WithChildren(r, i, order)
  PROVE  /\ Id \subseteq Id' /\ Kin(reqs') /\ SameTries(reqs') /\ SameCounts(reqs')
         /\ \A x \in Id : /\ reqs'[x].handler = IF x = r THEN i ELSE reqs[x].handler
                          /\ reqs'[x].computed = reqs[x].computed
                          /\ reqs'[x].done = reqs[x].done
                          /\ x # r => reqs'[x].child = reqs[x].child
         /\ \A c \in Id' \ Id :
              /\ reqs'[c].parent = r /\ reqs'[c].dep \in Deps(r)
              /\ reqs'[c].requester = i /\ Unborn(reqs'[c])
              /\ reqs'[r].child[reqs'[c].dep] = c
              /\ reqs'[c].op = TargetOf[reqs'[c].dep]
         /\ \A n \in Deps(r) :
              reqs'[r].child[n] \in Id' \ Id /\ reqs'[reqs'[r].child[n]].dep = n
         /\ \A c : c \in Id' \ Id <=> \E k \in DOMAIN order : c = Len(reqs) + k
         /\ Deps(r) \subseteq DepName
  <1> DEFINE c == Cardinality(Deps(r))
             kids == ChildrenOf(r, order)
             a == [reqs EXCEPT ![r].handler = i, ![r].child = kids]
             b == Created(r, i, order)
             v == [reqs[r] EXCEPT !.handler = i, !.child = kids]
  <1>0. /\ TypeOK /\ HandlingInvariant /\ Len(reqs) \in Nat
        /\ reqs[r] \in Request /\ reqs \in Seq(Request) /\ DOMAIN reqs = Id
    BY LifeFacts, ReqsType
  <1>1. Deps(r) \subseteq DepName /\ c \in Nat
    <2>1. Deps(r) \subseteq DepName
      BY <1>0, ArchitectureAssumption DEF Deps, Request
    <2> QED
      BY <2>1, FS_Subset, FS_CardinalityType, ArchitectureAssumption
  <1>2. /\ order \in [1..c -> Deps(r)] /\ DOMAIN order = 1..c
        /\ \A n \in Deps(r) : \E k \in 1..c : order[k] = n
        /\ \A k, l \in 1..c : order[k] = order[l] => k = l
    BY DEF Orders, Bijection, Surjection, Injection, IsInjective
  <1>3. kids \in [DepName -> Nat] /\ b \in Seq(Request)
    BY <1>0, ChildrenFacts
  <1> HIDE DEF c
  <1>4. /\ Len(b) = c
        /\ \A k \in 1..c : b[k] = NewRequest(TargetOf[order[k]], r, order[k], i)
    <2>1. DOMAIN b = 1..c /\ \A k \in 1..c : b[k] = NewRequest(TargetOf[order[k]], r, order[k], i)
      BY <1>2 DEF Created
    <2> HIDE DEF b
    <2>2. DOMAIN b = 1..Len(b) /\ Len(b) \in Nat
      BY <1>3, LenProperties
    <2>3. Len(b) = c
      BY <2>1, <2>2, <1>1
    <2> QED
      BY <2>1, <2>3
  <1>5. \A k \in 1..c : kids[order[k]] = Len(reqs) + k
    <2> SUFFICES ASSUME NEW k \in 1..c PROVE kids[order[k]] = Len(reqs) + k
      OBVIOUS
    <2>1. order[k] \in Deps(r) /\ order[k] \in DepName
      BY <1>1, <1>2
    <2>2. (CHOOSE l \in DOMAIN order : order[l] = order[k]) = k
      BY <1>2
    <2> QED
      BY <2>1, <2>2 DEF ChildrenOf
  <1> HIDE DEF kids
  <1>6. /\ v \in Request /\ v.op = reqs[r].op /\ v.parent = reqs[r].parent
        /\ v.dep = reqs[r].dep /\ v.requester = reqs[r].requester
        /\ v.handler = i /\ v.computed = reqs[r].computed
        /\ v.done = reqs[r].done /\ v.child = kids /\ v.tries = reqs[r].tries
        /\ v.succeeded = reqs[r].succeeded /\ v.failed = reqs[r].failed
    BY <1>0, <1>3 DEF Request
  <1>7. a = [reqs EXCEPT ![r] = v]
    BY <1>0 DEF Request
  <1> HIDE DEF v
  <1>8. /\ a \in Seq(Request) /\ Len(a) = Len(reqs)
        /\ a[r] = v /\ \A x \in Id : x # r => a[x] = reqs[x]
    BY <1>0, <1>6, <1>7, Replaced
  <1> HIDE DEF a, b
  <1>9. reqs' = a \o b
    BY DEF a, b, kids, WithChildren
  <1>10. /\ Len(reqs') = Len(reqs) + c
         /\ \A x \in 1..Len(reqs) + c :
              reqs'[x] = IF x <= Len(reqs) THEN a[x] ELSE b[x - Len(reqs)]
    <2>1. /\ Len(a \o b) = Len(a) + Len(b)
          /\ \A x \in 1..Len(a) + Len(b) :
               (a \o b)[x] = IF x <= Len(a) THEN a[x] ELSE b[x - Len(a)]
      BY <1>3, <1>8, ConcatRange
    <2> QED
      BY <2>1, <1>4, <1>8, <1>9
  <1>11. \A x \in Id : reqs'[x] = a[x]
    <2> SUFFICES ASSUME NEW x \in Id PROVE reqs'[x] = a[x]
      OBVIOUS
    <2>1. x \in 1..Len(reqs) + c /\ x <= Len(reqs)
      BY <1>0, <1>1 DEF Id
    <2> QED
      BY <2>1, <1>10
  <1>12. /\ \A x : x \in Id' \ Id <=> \E k \in DOMAIN order : x = Len(reqs) + k
         /\ Id \subseteq Id'
    <2>1. Id' = 1..Len(reqs) + c /\ Id = 1..Len(reqs)
      BY <1>10 DEF Id
    <2>2. ASSUME NEW x \in Id' \ Id PROVE \E k \in 1..c : x = Len(reqs) + k
      <3>1. x - Len(reqs) \in 1..c /\ x = Len(reqs) + (x - Len(reqs))
        BY <2>1, <2>2, <1>0, <1>1
      <3> QED
        BY <3>1
    <2>3. \A k \in 1..c : Len(reqs) + k \in Id' \ Id
      BY <2>1, <1>0, <1>1
    <2>4. Id \subseteq Id'
      BY <2>1, <1>0, <1>1
    <2> QED
      BY <2>2, <2>3, <2>4, <1>2
  <1>13. /\ Kin(reqs') /\ SameTries(reqs') /\ SameCounts(reqs')
         /\ \A x \in Id : /\ reqs'[x].handler = IF x = r THEN i ELSE reqs[x].handler
                          /\ reqs'[x].computed = reqs[x].computed
                          /\ reqs'[x].done = reqs[x].done
                          /\ x # r => reqs'[x].child = reqs[x].child
    <2>1. Len(reqs') >= Len(reqs)
      BY <1>0, <1>1, <1>10
    <2>2. reqs'[r] = v /\ \A x \in Id : x # r => reqs'[x] = reqs[x]
      BY <1>8, <1>11
    <2> QED
      BY <2>1, <2>2, <1>6 DEF Kin, SameTries, SameCounts
  <1>14. reqs'[r].child = kids
    BY <1>6, <1>8, <1>11
  <1>15. \A k \in 1..c : reqs'[Len(reqs) + k] = NewRequest(TargetOf[order[k]], r, order[k], i)
    <2> SUFFICES ASSUME NEW k \in 1..c
                 PROVE  reqs'[Len(reqs) + k] = NewRequest(TargetOf[order[k]], r, order[k], i)
      OBVIOUS
    <2>1. /\ Len(reqs) + k \in 1..Len(reqs) + c /\ ~(Len(reqs) + k <= Len(reqs))
          /\ (Len(reqs) + k) - Len(reqs) = k
      BY <1>0, <1>1
    <2> QED
      BY <2>1, <1>4, <1>10
  <1>17. ASSUME NEW x \in Id' \ Id
         PROVE  /\ reqs'[x].parent = r /\ reqs'[x].dep \in Deps(r)
                /\ reqs'[x].requester = i /\ Unborn(reqs'[x])
                /\ reqs'[r].child[reqs'[x].dep] = x
                /\ reqs'[x].op = TargetOf[reqs'[x].dep]
    <2>1. PICK k \in 1..c : x = Len(reqs) + k
      BY <1>2, <1>12
    <2>2. reqs'[x] = NewRequest(TargetOf[order[k]], r, order[k], i)
      BY <2>1, <1>15
    <2>3. order[k] \in Deps(r)
      BY <1>2
    <2>4. /\ reqs'[x].parent = r /\ reqs'[x].dep = order[k]
          /\ reqs'[x].requester = i /\ Unborn(reqs'[x])
          /\ reqs'[x].op = TargetOf[order[k]]
      BY <2>2 DEF NewRequest, Unborn
    <2>5. reqs'[r].child[order[k]] = x
      BY <2>1, <1>5, <1>14
    <2> QED
      BY <2>3, <2>4, <2>5
  <1>18. ASSUME NEW n \in Deps(r)
         PROVE  reqs'[r].child[n] \in Id' \ Id /\ reqs'[reqs'[r].child[n]].dep = n
    <2>1. PICK k \in 1..c : order[k] = n
      BY <1>2
    <2>2. reqs'[r].child[n] = Len(reqs) + k
      BY <2>1, <1>5, <1>14
    <2>3. reqs'[Len(reqs) + k].dep = n
      <3>1. reqs'[Len(reqs) + k] = NewRequest(TargetOf[order[k]], r, order[k], i)
        BY <1>15
      <3>2. reqs'[Len(reqs) + k].dep = order[k]
        BY <3>1 DEF NewRequest
      <3> QED
        BY <2>1, <3>2
    <2> QED
      BY <2>2, <2>3, <1>2, <1>12
  <1>19. \A x \in Id' \ Id :
           /\ reqs'[x].parent = r /\ reqs'[x].dep \in Deps(r)
           /\ reqs'[x].requester = i /\ Unborn(reqs'[x])
           /\ reqs'[r].child[reqs'[x].dep] = x
           /\ reqs'[x].op = TargetOf[reqs'[x].dep]
    BY <1>17
  <1>20. \A n \in Deps(r) :
           reqs'[r].child[n] \in Id' \ Id /\ reqs'[reqs'[r].child[n]].dep = n
    BY <1>18
  <1> QED
    BY <1>1, <1>12, <1>13, <1>19, <1>20, Zenon

\* The child requests are the only thing that is new.
LEMMA CompositeEffects ==
  ASSUME LifeInvariant, TypeOK', NEW e, NEW q, NEW f, Taken(e, q, f),
         e.type = "receive", ReceiveRequest(e.m, e.i, q), flight' = f,
         UNCHANGED <<state, finishing>>, ReceiveCompositeRequest(e.m.r, e.i, q)
  PROVE  BeginsComposite(e.m.r, e.i) /\ Lineage' /\ Messages'
  <1> DEFINE r == e.m.r
             i == e.i
  <1>1. /\ Deps(r) # {}
        /\ openDeps' = [openDeps EXCEPT ![i] = @ \cup AllDeps(r)]
        /\ waiting' = [waiting EXCEPT ![i] = @ + 1]
        /\ UNCHANGED cpu
    BY DEF ReceiveCompositeRequest
  <1>2. PICK order \in Orders(Deps(r)) :
          reqs' = WithChildren(r, i, order) /\ due' = q \o Sends(order)
    BY Zenon DEF ReceiveCompositeRequest, WithChildren, ChildrenOf, Created, Sends
  <1>3. /\ TypeOK /\ Lineage /\ Messages /\ HandlingInvariant
        /\ r \in Id /\ i \in Instance /\ q \in Seq(Due)
    <2>1. e.m \in Message /\ e.i \in Instance /\ q \in Seq(Due)
      BY RestFacts DEF Taken
    <2> QED
      BY <2>1, LifeFacts, ReqAns
  <1> HIDE DEF r, i
  <1>4. /\ Id \subseteq Id' /\ Kin(reqs') /\ SameTries(reqs') /\ SameCounts(reqs')
        /\ \A x \in Id : /\ reqs'[x].handler = IF x = r THEN i ELSE reqs[x].handler
                         /\ reqs'[x].computed = reqs[x].computed
                         /\ reqs'[x].done = reqs[x].done
                         /\ x # r => reqs'[x].child = reqs[x].child
    BY <1>2, <1>3, CreatedChildren
  <1>5. /\ \A c \in Id' \ Id :
              /\ reqs'[c].parent = r /\ reqs'[c].dep \in Deps(r)
              /\ reqs'[c].requester = i /\ Unborn(reqs'[c])
              /\ reqs'[r].child[reqs'[c].dep] = c
              /\ reqs'[c].op = TargetOf[reqs'[c].dep]
        /\ \A n \in Deps(r) :
             reqs'[r].child[n] \in Id' \ Id /\ reqs'[reqs'[r].child[n]].dep = n
        /\ Deps(r) \subseteq DepName
    BY <1>2, <1>3, CreatedChildren
  <1>6. \A c : c \in Id' \ Id <=> \E k \in DOMAIN order : c = Len(reqs) + k
    BY <1>2, <1>3, CreatedChildren
  <1> DEFINE t == Sends(order)
             D == Range(t)
  <1>7. /\ DOMAIN t = DOMAIN order
        /\ \A k \in DOMAIN t : t[k] = Event("send", Req(Len(reqs) + k), None)
    BY DEF Sends
  <1>8. \E K \in Nat : DOMAIN order = 1..K
    <2>1. Deps(r) \subseteq DepName
      BY <1>5
    <2>2. Cardinality(Deps(r)) \in Nat
      BY <2>1, FS_Subset, FS_CardinalityType, ArchitectureAssumption
    <2>3. DOMAIN order = 1..Cardinality(Deps(r))
      BY <1>2 DEF Orders, Bijection, Injection
    <2> QED
      BY <2>2, <2>3
  <1>9. /\ D = {Event("send", Req(c), None) : c \in Id' \ Id}
        /\ t = [k \in DOMAIN t |-> t[k]]
    <2>1. D = {t[k] : k \in DOMAIN t}
      BY DEF Range
    <2>2. t = [k \in DOMAIN t |-> t[k]]
      BY DEF Sends
    <2> HIDE DEF t, D
    <2> QED
      BY <2>1, <2>2, <1>6, <1>7
  <1> HIDE DEF t, D
  <1>10. /\ MessagesOf(D, "send") = {Req(c) : c \in Id' \ Id}
         /\ \A d \in D : d.type = "send" /\ ~d.m.ans /\ d \in Due'
    <2>1. \A c : /\ Event("send", Req(c), None).type = "send"
                 /\ Event("send", Req(c), None).m = Req(c)
                 /\ Event("send", Req(c), None).i = None
                 /\ ~Req(c).ans
      BY DEF Event, Req
    <2>2. \A c \in Id' \ Id : Event("send", Req(c), None) \in Due'
      BY DEF Event, Due, Message, Req
    <2> QED
      BY <2>1, <2>2, <1>9 DEF MessagesOf
  <1>11. t \in Seq(Due') /\ q \in Seq(Due')
    <2>1. q \in Seq(Due')
      <3>1. Len(reqs') >= Len(reqs)
        BY <1>4 DEF Kin
      <3> QED
        BY <3>1, <1>3, TypesKept DEF TypeOK
    <2>2. \A k \in DOMAIN t : t[k] \in Due'
      BY <1>10, <1>9, <1>7, <1>6
    <2>3. PICK K \in Nat : DOMAIN t = 1..K
      BY <1>7, <1>8
    <2> QED
      BY <2>1, <2>2, <2>3, <1>9, SeqDef
  <1>12. due' = q \o t /\ Range(due') = Range(q) \cup D
    <2>1. due' = q \o t
      BY <1>2 DEF t
    <2> QED
      BY <2>1, <1>11, ConcatRange DEF D
  <1>13. /\ Begins(r, i) /\ ToSend' = ToSend \cup MessagesOf(D, "send")
         /\ Heard' \subseteq Heard /\ AnswerOnce(q)
         /\ \A d \in flight' : d.type = "send" => ~d.m.ans
         /\ AnswersReturn' /\ UsersAtOnce'
    <2>1. Sending(q, D)
      BY <1>10, <1>12 DEF Sending
    <2> QED
      BY <2>1, <1>4, BeginsEffects DEF r, i
  <1>14. BeginsComposite(r, i)
    BY <1>1, <1>4, <1>5, <1>10, <1>13 DEF BeginsComposite
  <1>15. Deps(r)' = Deps(r)
    BY <1>3, <1>4 DEF Deps, Kin
  <1>16. Lineage'
    <2>1. ASSUME NEW x \in Id' \ Id PROVE Born(x)'
      <3>1. /\ reqs'[x].parent = r /\ reqs'[x].dep \in Deps(r)
            /\ reqs'[x].requester = i /\ reqs'[r].handler = i
        BY <2>1, <1>3, <1>4, <1>5
      <3>2. ~IsUser(x)'
        BY <3>1, <1>3, ArchitectureAssumption DEF IsUser
      <3> QED
        BY <3>1, <3>2, <1>3, <1>4, <1>15 DEF Born, Parent
    <2>2. Linked(r)'
      <3> SUFFICES ASSUME NEW n \in Deps(r)
                   PROVE  \E c \in Id' : /\ c = reqs'[r].child[n]
                                         /\ DepOf(c)' = <<r, n>> /\ ~IsUser(c)'
        BY <1>15 DEF Linked, DepOf, IsUser
      <3>1. PICK c \in Id' \ Id : c = reqs'[r].child[n] /\ reqs'[c].dep = n
        BY <1>5
      <3>2. reqs'[c].parent = r /\ reqs'[c].requester = i
        BY <1>5
      <3> QED
        BY <3>1, <3>2, <1>3, ArchitectureAssumption DEF DepOf, IsUser
    <2>3. \A x \in Id' \ Id : reqs'[x].handler = None
      BY <1>5 DEF Unborn
    <2>4. reqs[r].handler = None
      BY <1>13 DEF Begins, Untouched
    <2>5. \A x \in Id : reqs'[x].handler = reqs[x].handler \/ reqs[x].handler = None
      BY <1>4, <2>4
    <2>6. \A x \in Id' : \/ reqs'[x].handler = None
                         \/ /\ x \in Id
                            /\ reqs'[x].handler = reqs[x].handler
                            /\ reqs'[x].child = reqs[x].child
                         \/ Linked(x)'
      <3> SUFFICES ASSUME NEW x \in Id' PROVE \/ reqs'[x].handler = None
                         \/ /\ x \in Id
                            /\ reqs'[x].handler = reqs[x].handler
                            /\ reqs'[x].child = reqs[x].child
                         \/ Linked(x)'
        OBVIOUS
      <3>1. CASE x = r
        <4>1. PICK y : y = x
          OBVIOUS
        <4> QED
          BY <3>1, <2>2 DEF Linked
      <3> QED
        BY <3>1, <2>3, <1>4
    <2>7. \A x \in Id' : x \in Id \/ Born(x)'
      BY <2>1
    <2> QED
      BY <2>5, <2>6, <2>7, <1>3, <1>4, LineageKept
  <1>17. Messages'
    <2> DEFINE F == {Req(c) : c \in Id' \ Id}
               N == {}
    <2>1. F \subseteq Message'
      <3> SUFFICES ASSUME NEW c \in Id' PROVE Req(c) \in Message'
        OBVIOUS
      <3> QED
        BY DEF Message, Req
    <2>2. \A m \in F : ~m.ans /\ m.r \in Id' \ Id
      BY DEF Req
    <2>3. Heard \subseteq Message /\ ToSend \subseteq Message /\ \A m \in Message : m.r \in Id
      BY <1>3, MessageSets, ReqAns
    <2>4. F \cap Heard' = {}
      BY <2>2, <2>3, <1>13
    <2>5. \A m \in F : m.ans \/ IsUser(m.r)' \/ IsCurrent(m.r)'
      <3> SUFFICES ASSUME NEW m \in F PROVE IsCurrent(m.r)'
        OBVIOUS
      <3>1. PICK c \in Id' \ Id : m.r = c
        BY <2>2
      <3>2. IsCurrent(c)'
        BY <1>5 DEF IsCurrent, Parent
      <3> QED
        BY <3>1, <3>2 DEF IsCurrent, Parent
    <2>6. \A m \in ToSend \cap ToSend' :
            IsCurrent(m.r) => m.ans \/ IsUser(m.r) \/ IsCurrent(m.r)'
      <3> SUFFICES ASSUME NEW m \in ToSend, IsCurrent(m.r), ~IsUser(m.r)
                   PROVE  IsCurrent(m.r)'
        OBVIOUS
      <3>1. /\ m.r \in Id /\ Parent(m.r) \in Id
            /\ reqs[Parent(m.r)].handler = reqs[m.r].requester
            /\ reqs[m.r].requester \in Instance
        BY <1>3, <2>3, InternalFacts
      <3>2. Parent(m.r) # r
        BY <3>1, <1>13, ArchitectureAssumption DEF Begins, Untouched
      <3> QED
        BY <3>1, <3>2, <1>3, <1>4, StillCurrent
    <2>7. AnswerOnce(due')
      <3>1. \A d \in Range(t) : ~d.m.ans
        BY <1>10 DEF D
      <3> QED
        BY <3>1, <1>11, <1>12, <1>13, ConcatAnswer
    <2>8. /\ N \subseteq Message' /\ N \cap ToSend' = {}
          /\ ToSend' \subseteq ToSend \cup F /\ Heard' \subseteq Heard \cup N
          /\ \A m \in F \cup N : m \in ToSend \cup Heard \/ (m.ans => reqs'[m.r].computed)
      BY <2>2, <1>10, <1>13
    <2>9. \A x \in Id : reqs[x].computed => reqs'[x].computed
      BY <1>4
    <2> HIDE DEF F, N
    <2> QED
      BY <2>1, <2>4, <2>5, <2>6, <2>7, <2>8, <2>9, <1>3, <1>4, <1>13, MessagesKept
  <1> QED
    BY <1>14, <1>16, <1>17 DEF r, i

-----------------------------------------------------------------------------
(* Computing.                                                              *)

\* Request r is computed at instance i, and its answer is to be sent.
Computes(r, i) ==
  /\ r \in finishing /\ r \in Id /\ i \in Instance /\ Live(i)
  /\ reqs[r].handler = i /\ r \in handling[i] /\ ~reqs[r].computed
  /\ Len(reqs') = Len(reqs) /\ Kin(reqs') /\ SameLinks(reqs')
  /\ SameTries(reqs') /\ SameCounts(reqs')
  /\ \A x \in Id : /\ reqs'[x].handler = reqs[x].handler
                   /\ reqs'[x].done = reqs[x].done
                   /\ reqs'[x].computed = (x = r \/ reqs[x].computed)
  /\ finishing' = finishing \ {r}
  /\ handling' = [handling EXCEPT ![i] = @ \ {r}]
  /\ notComputed' = [notComputed EXCEPT ![i] = @ - 1]
  /\ UNCHANGED <<state, waiting, openDeps, cpu, urgent, armed>>
  /\ ToSend' = ToSend \cup {Ans(r)} /\ Ans(r) \notin ToSend \cup Heard
  /\ Arriving' = Arriving /\ Failing' = Failing

\* A canceled computation completes without effect.
LEMMA CanceledEffects ==
  ASSUME LifeInvariant, TypeOK', NEW e, NEW q, Taken(e, q, flight),
         e.type = "computed", CompleteComputation(e.m, e.i, q),
         e.m.r \notin finishing
  PROVE  /\ UNCHANGED <<reqs, state, handling, notComputed, waiting, openDeps, cpu,
                        finishing, urgent, armed>>
         /\ ToSend' = ToSend /\ Arriving' = Arriving /\ Failing' = Failing
         /\ Lineage' /\ Messages'
  <1> DEFINE left == Range(q) \cup flight
  <1>1. /\ UNCHANGED <<reqs, state, handling, notComputed, waiting, openDeps, cpu,
                       urgent, armed, outgoing, flight>>
        /\ finishing' = finishing /\ due' = q
    BY DEF CompleteComputation
  <1>2. /\ TypeOK /\ Lineage /\ Messages /\ Message' = Message
        /\ Kin(reqs') /\ SameLife(reqs') /\ SameLinks(reqs') /\ Len(reqs') = Len(reqs)
    BY <1>1, LifeFacts, NothingChanges DEF Message, Id
  <1>3. /\ Scheduled' = left /\ Scheduled = {e} \cup left /\ AnswerOnce(q)
    BY <1>1 DEF Scheduled, Taken
  <1> HIDE DEF left
  <1>4. ToSend' = ToSend /\ Arriving' = Arriving
    BY <1>3 DEF ToSend, Arriving, MessagesOf
  <1>5. Failing' = Failing /\ MessagesOf(flight', "cancel") = MessagesOf(flight, "cancel")
    BY <1>1 DEF Failing
  <1>6. Tells({})
    BY <1>1, <1>4, <1>5 DEF Tells, Heard
  <1>7. AnswersReturn' /\ UsersAtOnce'
    <2>1. Watches({})
      BY <1>1, <1>5 DEF Watches
    <2>2. Adds(left, {})
      BY <1>3 DEF Adds
    <2> QED
      BY <2>1, <2>2, <1>2, UsersKept, ReturnsKept
  <1>8. AnswerOnce(due') /\ \A d \in flight' : d.type = "send" => ~d.m.ans
    BY <1>1, <1>2, <1>3 DEF Messages, AnswersComputed
  <1> QED
    BY <1>1, <1>2, <1>4, <1>5, <1>6, <1>7, <1>8, QuietLineage, QuietMessages DEF SameLife

LEMMA ComputesEffects ==
  ASSUME LifeInvariant, TypeOK', NeverAborts', NEW e, NEW q, Taken(e, q, flight),
         e.type = "computed", CompleteComputation(e.m, e.i, q),
         e.m.r \in finishing
  PROVE  Computes(e.m.r, e.i) /\ Lineage' /\ Messages'
  <1> DEFINE r == e.m.r
             i == e.i
             left == Range(q) \cup flight
             s == Event("send", Ans(r), None)
             last == handling[i] \subseteq {r} /\ state[i] = "SHUTTING_DOWN"
  <1>1. MayComplete(i, e.m)
    BY DEF CompleteComputation, NeverAborts
  <1>2. /\ finishing' = finishing \ {r}
        /\ reqs' = [reqs EXCEPT ![r].computed = TRUE]
        /\ notComputed' = [notComputed EXCEPT ![i] =
                             IF r \in handling[i] THEN @ - 1 ELSE @]
        /\ waiting' = [waiting EXCEPT ![i] =
                         IF r \in handling[i] THEN @ ELSE @ + 1]
        /\ handling' = Answered(i, r)
        /\ due' = IF last THEN Append(Append(q, s), EndOf(i)) ELSE Append(q, s)
        /\ UNCHANGED <<state, openDeps, outgoing, cpu, urgent, flight, armed>>
    BY <1>1 DEF CompleteComputation
  <1>3. TypeOK /\ Lineage /\ Messages /\ HandlingInvariant /\ Instances
    BY LifeFacts
  <1>4. /\ e.m \in Message /\ i \in Instance /\ q \in Seq(Due) /\ AnswerOnce(q)
        /\ reqs[r].handler = i /\ ~e.m.ans
        /\ Scheduled = {e} \cup left /\ flight \subseteq Flight
    BY DEF Taken, Rest, Due, Flight
  <1>5. /\ r \in Id /\ Live(i) /\ r \in handling[i] /\ ~reqs[r].computed
    <2>1. r \in Id
      BY <1>4, ReqAns
    <2>2. Live(reqs[r].handler) /\ r \in handling[reqs[r].handler]
      BY <1>3 DEF Instances, ComputingIsHandled
    <2> QED
      BY <2>1, <2>2, <1>1, <1>4 DEF MayComplete
  <1>6. /\ Len(reqs') = Len(reqs) /\ Kin(reqs') /\ SameLinks(reqs')
        /\ SameTries(reqs') /\ SameCounts(reqs')
        /\ \A x \in Id : /\ reqs'[x].handler = reqs[x].handler
                         /\ reqs'[x].done = reqs[x].done
                         /\ reqs'[x].computed = (x = r \/ reqs[x].computed)
    <2> DEFINE v == [reqs[r] EXCEPT !.computed = TRUE]
    <2>1. reqs[r] \in Request /\ Len(reqs) \in Nat /\ \A x \in Id : reqs[x] \in Request
      BY <1>3, <1>5, ReqsType
    <2>2. /\ v \in Request /\ v.op = reqs[r].op /\ v.parent = reqs[r].parent
          /\ v.dep = reqs[r].dep /\ v.requester = reqs[r].requester
          /\ v.handler = reqs[r].handler /\ v.computed = TRUE
          /\ v.done = reqs[r].done /\ v.child = reqs[r].child
          /\ v.tries = reqs[r].tries
          /\ v.succeeded = reqs[r].succeeded /\ v.failed = reqs[r].failed
      BY <2>1 DEF Request
    <2>3. reqs' = [reqs EXCEPT ![r] = v]
      BY <1>2
    <2> HIDE DEF v, r
    <2>4. /\ Len(reqs') = Len(reqs)
          /\ reqs'[r] = v /\ \A x \in Id : x # r => reqs'[x] = reqs[x]
      BY <2>2, <2>3, <1>3, <1>5, Replaced
    <2>5. \A x \in Id : reqs[x].computed \in BOOLEAN
      BY <2>1 DEF Request
    <2>6. \A x \in Id : reqs'[x].computed = (x = r \/ reqs[x].computed)
      BY <2>2, <2>4, <2>5
    <2> QED
      BY <2>1, <2>2, <2>4, <2>6 DEF Kin, SameLinks, SameTries, SameCounts
  <1>7. /\ handling' = [handling EXCEPT ![i] = @ \ {r}]
        /\ notComputed' = [notComputed EXCEPT ![i] = @ - 1]
        /\ waiting' = waiting
    BY <1>2, <1>3, <1>5 DEF Answered, TypeOK
  <1> HIDE DEF r, i
  <1>8. /\ s.type = "send" /\ s.m = Ans(r) /\ s \in Due /\ EndOf(i) \in Due
        /\ EndOf(i).type = "end"
    BY <1>4, <1>5 DEF Event, EndOf, Due, Message, Ans
  <1>9. Ans(r) \notin ToSend \cup Heard
    BY <1>3, <1>5, ReqAns DEF Messages, AnswersComputed
  <1> HIDE DEF s, last
  <1>10. AnswerOnce(Append(q, s)) /\ Append(q, s) \in Seq(Due)
    <2>1. \A d \in Range(q) : d.type = "send" => d.m # s.m
      <3>1. Range(q) \subseteq Scheduled
        BY <1>4
      <3> QED
        BY <3>1, <1>8, <1>9 DEF ToSend, MessagesOf
    <2> QED
      BY <2>1, <1>4, <1>8, AppendAnswer
  <1>11. AnswerOnce(due')
    <2> DEFINE a == Append(q, s)
    <2>1. AnswerOnce(a) /\ a \in Seq(Due)
      BY <1>10
    <2> HIDE DEF a
    <2>2. AnswerOnce(Append(a, EndOf(i)))
      BY <2>1, <1>8, AppendAnswer
    <2> QED
      BY <2>1, <2>2, <1>2 DEF a
  <1>12. \E D : Scheduled' = left \cup D /\ (D = {s} \/ D = {s, EndOf(i)})
    <2> DEFINE a == Append(q, s)
    <2>1. Range(a) = Range(q) \cup {s} /\ a \in Seq(Due)
      BY <1>4, <1>8, <1>10, AppendRange
    <2> HIDE DEF a
    <2>2. Range(Append(a, EndOf(i))) = Range(a) \cup {EndOf(i)}
      BY <2>1, <1>8, AppendRange
    <2>3. Range(due') = Range(q) \cup IF last THEN {s, EndOf(i)} ELSE {s}
      BY <2>1, <2>2, <1>2 DEF a
    <2> QED
      BY <2>3, <1>2 DEF Scheduled
  <1>13. PICK D : Scheduled' = left \cup D /\ (D = {s} \/ D = {s, EndOf(i)})
    BY <1>12
  <1>14. Adds(left, D)
    BY <1>4, <1>8, <1>13 DEF Adds
  <1> HIDE DEF left
  <1>15. ToSend' = ToSend \cup {Ans(r)} /\ Arriving' = Arriving
    BY <1>4, <1>8, <1>13 DEF ToSend, Arriving, MessagesOf
  <1>16. Failing' = Failing /\ MessagesOf(flight', "cancel") = MessagesOf(flight, "cancel")
    BY <1>2 DEF Failing
  <1>17. Computes(r, i)
    BY <1>2, <1>4, <1>5, <1>6, <1>7, <1>9, <1>15, <1>16 DEF Computes, r, i
  <1>18. Lineage'
    BY <1>3, <1>6, QuietLineage
  <1>19. Messages'
    <2> DEFINE F == {Ans(r)}
               N == {}
    <2>8. Message' = Message
      BY <1>6 DEF Message, Id
    <2>9. outgoing' = outgoing /\ armed' = armed
      BY <1>2
    <2>10. Heard' = Heard
      BY <2>9, <1>15, <1>16 DEF Heard
    <2>1. Message' = Message /\ Heard' = Heard
      BY <2>8, <2>10
    <2>2. /\ F \subseteq Message' /\ N \subseteq Message'
          /\ ToSend' \subseteq ToSend \cup F /\ Heard' \subseteq Heard \cup N
          /\ N \cap ToSend' = {} /\ F \cap Heard' = {}
          /\ \A m \in F : m.ans \/ IsUser(m.r)' \/ IsCurrent(m.r)'
          /\ \A m \in F \cup N : m.r = r
      BY <2>1, <1>5, <1>9, <1>15, ReqAns
    <2>3. \A m \in F \cup N :
            m \in ToSend \cup Heard \/ (m.ans => reqs'[m.r].computed)
      BY <2>2, <1>5, <1>6
    <2>4. \A m \in ToSend \cap ToSend' :
            IsCurrent(m.r) => m.ans \/ IsUser(m.r) \/ IsCurrent(m.r)'
      <3> SUFFICES ASSUME NEW m \in ToSend, IsCurrent(m.r), ~IsUser(m.r)
                   PROVE  IsCurrent(m.r)'
        OBVIOUS
      <3>1. m.r \in Id /\ Parent(m.r) \in Id
        BY <1>3, MessageSets, ReqAns, InternalFacts
      <3> QED
        BY <3>1, <1>3, <1>6, StillCurrent DEF SameLinks
    <2>5. \A d \in flight' : d.type = "send" => ~d.m.ans
      BY <1>2, <1>3 DEF Messages, AnswersComputed
    <2>6. AnswersReturn' /\ UsersAtOnce'
      <3>1. Watches({})
        BY <1>2, <1>16 DEF Watches
      <3> QED
        BY <3>1, <1>3, <1>6, <1>14, UsersKept, ReturnsKept
    <2>7. \A x \in Id : reqs[x].computed => reqs'[x].computed
      BY <1>6
    <2> HIDE DEF F, N
    <2> QED
      BY <2>2, <2>3, <2>4, <2>5, <2>6, <2>7, <1>3, <1>6, <1>11, MessagesKept
  <1> QED
    BY <1>17, <1>18, <1>19 DEF r, i

-----------------------------------------------------------------------------
(* Failing.                                                                *)

\* A step that has nothing new to send and tells at most of the failure of
\* the messages N
Quiet(N) ==
  /\ Kin(reqs') /\ SameLife(reqs') /\ SameLinks(reqs') /\ Len(reqs') = Len(reqs)
  /\ ToSend' = ToSend /\ Arriving' = Arriving
  /\ N \subseteq Message /\ N \cap ToSend = {} /\ \A m \in N : m \in Heard \/ ~m.ans
  /\ Failing' \subseteq Failing \cup N /\ armed' \subseteq armed

LEMMA QuietStep ==
  ASSUME LifeInvariant, TypeOK', NEW N, Quiet(N),
         UNION {outgoing'[i] : i \in Instance} \subseteq UNION {outgoing[i] : i \in Instance},
         MessagesOf(flight', "cancel") \subseteq MessagesOf(flight, "cancel"),
         \A d \in Scheduled' : d.type = "receive" => d \in Scheduled,
         \A d \in flight' : d \in flight, AnswerOnce(due')
  PROVE  Lineage' /\ Messages'
  <1>1. TypeOK /\ Lineage /\ Messages
    BY LifeFacts
  <1>2. /\ Kin(reqs') /\ SameLife(reqs') /\ SameLinks(reqs') /\ Len(reqs') = Len(reqs)
        /\ ToSend' = ToSend /\ Arriving' = Arriving
        /\ N \subseteq Message /\ N \cap ToSend = {} /\ \A m \in N : m \in Heard \/ ~m.ans
        /\ Failing' \subseteq Failing \cup N /\ armed' \subseteq armed
    BY DEF Quiet
  <1>3. Message' = Message
    BY <1>2 DEF Message, Id
  <1>4. Heard' \subseteq Heard \cup N
    BY <1>2 DEF Heard
  <1>5. Tells(N)
    BY <1>2, <1>3, <1>4 DEF Tells
  <1>6. AnswersReturn'
    <2> SUFFICES ASSUME NEW d \in Scheduled', d.type = "receive", d.m.ans
                 PROVE  d.i = reqs'[d.m.r].requester
      BY DEF AnswersReturn
    <2>1. d \in Scheduled
      OBVIOUS
    <2>2. d.m.r \in Id
      BY <2>1, <1>1, MessageSets, ReqAns DEF Due, Flight
    <2> QED
      BY <2>1, <2>2, <1>1, <1>2 DEF Messages, AnswersReturn, Kin
  <1>7. UsersAtOnce'
    <2>1. Watches({})
      BY <1>2 DEF Watches
    <2> QED
      BY <2>1, <1>1, <1>2, UsersKept
  <1>8. \A d \in flight' : d.type = "send" => ~d.m.ans
    BY <1>1 DEF Messages, AnswersComputed
  <1>9. \A x \in Id : /\ reqs[x].computed => reqs'[x].computed
                      /\ reqs'[x].handler = reqs[x].handler
    BY <1>2 DEF SameLife
  <1> QED
    BY <1>1, <1>2, <1>5, <1>6, <1>7, <1>8, <1>9, QuietLineage, QuietMessages

\* The events are left alone.
LEMMA SameEvents ==
  ASSUME LifeInvariant, UNCHANGED <<due, flight>>
  PROVE  /\ ToSend' = ToSend /\ Arriving' = Arriving
         /\ MessagesOf(flight', "cancel") = MessagesOf(flight, "cancel")
         /\ \A d \in Scheduled' : d.type = "receive" => d \in Scheduled
         /\ \A d \in flight' : d \in flight
         /\ AnswerOnce(due')
  <1>1. Scheduled' = Scheduled
    BY DEF Scheduled
  <1>2. AnswerOnce(due)
    BY LifeFacts DEF Messages, AnswersComputed
  <1> QED
    BY <1>1, <1>2 DEF ToSend, Arriving

\* The first cancellation is taken: message m has failed.
Cancels(m) ==
  urgent # <<>> /\ m = Head(urgent).m /\ UNCHANGED <<state, cpu, due, aborted>>

\* What every failure does
Fails(m) ==
  /\ m \in Message /\ m.r \in Id /\ m \in Failing /\ m \in Heard /\ m \notin ToSend
  /\ m = IF m.ans THEN Ans(m.r) ELSE Req(m.r)
  /\ UNCHANGED <<state, cpu>>
  /\ Arriving' = Arriving /\ armed' = armed \ {m, Req(m.r)}
  /\ Failing \subseteq Failing' \cup {m}

LEMMA FailSets ==
  ASSUME LifeInvariant, NEW m, Cancels(m), Failed(m),
         MessagesOf(flight', "cancel") = MessagesOf(flight, "cancel"),
         Arriving' = Arriving,
         \/ urgent' = Tail(urgent)
         \/ \E c \in Cancellation : urgent' = Append(Tail(urgent), c)
  PROVE  /\ Fails(m)
         /\ UNION {outgoing'[i] : i \in Instance} \subseteq UNION {outgoing[i] : i \in Instance}
         /\ urgent' = Tail(urgent) => Failing' \subseteq Failing
         /\ \A c \in Cancellation :
              urgent' = Append(Tail(urgent), c) => Failing' \subseteq Failing \cup {c.m}
  <1>1. TypeOK /\ Messages /\ urgent \in Seq(Cancellation) /\ urgent # <<>>
    BY LifeFacts DEF Cancels, TypeOK
  <1> DEFINE h == Head(urgent)
             t == Tail(urgent)
  <1>2. /\ h \in Cancellation /\ t \in Seq(Cancellation)
        /\ Range(urgent) = {h} \cup Range(t) /\ m = h.m
    BY <1>1, TailRange DEF Cancels
  <1>3. m \in Message /\ m.r \in Id /\ m = IF m.ans THEN Ans(m.r) ELSE Req(m.r)
    <2>1. m \in Message
      BY <1>2 DEF Cancellation
    <2> QED
      BY <2>1, ReqAns
  <1> HIDE DEF h, t
  <1>4. m \in Failing /\ m \in Heard
    BY <1>2 DEF Failing, Heard
  <1>5. m \notin ToSend
    BY <1>1, <1>4 DEF Messages, ToSendIsUnknown
  <1>6. /\ armed' = armed \ {m, Req(m.r)}
        /\ UNION {outgoing'[i] : i \in Instance} \subseteq UNION {outgoing[i] : i \in Instance}
    BY <1>1, ArrivedSets DEF Failed, Disarm
  <1>7. \A c \in Cancellation : Range(Append(t, c)) = Range(t) \cup {c}
    BY <1>2, AppendRange
  <1>8. Range(t) \subseteq Range(urgent')
    BY <1>7 DEF t
  <1>9. Failing \subseteq Failing' \cup {m}
    BY <1>2, <1>8 DEF Failing
  <1>10. urgent' = Tail(urgent) => Failing' \subseteq Failing
    BY <1>2 DEF Failing, t
  <1>11. ASSUME NEW c \in Cancellation, urgent' = Append(Tail(urgent), c)
         PROVE  Failing' \subseteq Failing \cup {c.m}
    <2>1. Range(urgent') = Range(t) \cup {c}
      BY <1>7, <1>11 DEF t
    <2> QED
      BY <2>1, <1>2 DEF Failing
  <1>12. UNCHANGED <<state, cpu>>
    BY DEF Cancels
  <1>13. Fails(m)
    BY <1>3, <1>4, <1>5, <1>6, <1>9, <1>12 DEF Fails
  <1> QED
    BY <1>6, <1>10, <1>11, <1>13

\* A failure after which nothing is retried
LEMMA QuietFails ==
  ASSUME LifeInvariant, TypeOK', NEW m, Cancels(m), Failed(m),
         UNCHANGED flight, Kin(reqs'), SameLife(reqs'), SameLinks(reqs'),
         Len(reqs') = Len(reqs), urgent' = Tail(urgent)
  PROVE  Fails(m) /\ Quiet({}) /\ Lineage' /\ Messages'
  <1>1. /\ ToSend' = ToSend /\ Arriving' = Arriving
        /\ MessagesOf(flight', "cancel") = MessagesOf(flight, "cancel")
        /\ \A d \in Scheduled' : d.type = "receive" => d \in Scheduled
        /\ \A d \in flight' : d \in flight
        /\ AnswerOnce(due')
    BY SameEvents DEF Cancels
  <1>2. /\ Fails(m) /\ Failing' \subseteq Failing
        /\ UNION {outgoing'[i] : i \in Instance} \subseteq UNION {outgoing[i] : i \in Instance}
    BY <1>1, FailSets
  <1>3. Quiet({})
    <2>1. armed' \subseteq armed
      BY <1>2 DEF Fails
    <2> QED
      BY <2>1, <1>1, <1>2 DEF Quiet
  <1> QED
    BY <1>1, <1>2, <1>3, QuietStep

\* A request that Retry gives up is forgotten.
Forgets(r) ==
  /\ SameCounts(reqs')
  /\ \/ ~Exhausted(r) /\ reqs' = reqs /\ SameTries(reqs')
     \/ /\ Exhausted(r)
        /\ \A x \in Id, y \in DepName :
             reqs'[x].tries[y] = IF x = Parent(r) /\ y = reqs[r].dep
                                 THEN 0 ELSE reqs[x].tries[y]

LEMMA ForgetEffects ==
  ASSUME LifeInvariant, NEW r \in Id, ~IsUser(r), reqs' = Forget(r)
  PROVE  /\ Forgets(r) /\ Kin(reqs') /\ SameLife(reqs') /\ SameLinks(reqs')
         /\ Len(reqs') = Len(reqs)
  <1>1. TypeOK /\ Parent(r) \in Id /\ reqs[r].dep \in DepName
    BY LifeFacts, InternalFacts
  <1>2. CASE ~Exhausted(r)
    <2>1. reqs' = reqs
      BY <1>2 DEF Forget
    <2> QED
      BY <2>1, <1>1, <1>2, NothingChanges DEF Forgets
  <1>3. CASE Exhausted(r)
    <2> DEFINE p == Parent(r)
               n == reqs[r].dep
    <2>1. reqs' = WithTries(p, n, 0)
      BY <1>3 DEF Forget, WithTries
    <2>2. p \in Id /\ n \in DepName
      BY <1>1
    <2> HIDE DEF p, n
    <2>3. /\ Len(reqs') = Len(reqs)
          /\ Kin(reqs') /\ SameLife(reqs') /\ SameLinks(reqs') /\ SameCounts(reqs')
          /\ \A x \in Id, y \in DepName :
               reqs'[x].tries[y] = IF x = p /\ y = n THEN 0 ELSE reqs[x].tries[y]
      BY <2>1, <2>2, <1>1, SetTries
    <2> QED
      BY <2>3, <1>3 DEF Forgets, p, n
  <1> QED
    BY <1>2, <1>3

\* The failure of a request nobody waits for
LEMMA IgnoreEffects ==
  ASSUME LifeInvariant, TypeOK', NEW m, Cancels(m), IgnoreFailure(m)
  PROVE  Fails(m) /\ Quiet({}) /\ Forgets(m.r) /\ Lineage' /\ Messages'
  <1>1. /\ ~m.ans /\ ~IsUser(m.r) /\ Failed(m) /\ urgent' = Tail(urgent)
        /\ reqs' = Forget(m.r) /\ UNCHANGED flight
    BY DEF IgnoreFailure
  <1>2. m.r \in Id
    <2>1. urgent \in Seq(Cancellation) /\ urgent # <<>>
      BY LifeFacts DEF Cancels, TypeOK
    <2>2. Head(urgent) \in Cancellation
      BY <2>1
    <2> QED
      BY <2>2 DEF Cancels, Cancellation, Message
  <1>3. /\ Forgets(m.r) /\ Kin(reqs') /\ SameLife(reqs') /\ SameLinks(reqs')
        /\ Len(reqs') = Len(reqs)
    BY <1>1, <1>2, ForgetEffects
  <1> QED
    BY <1>1, <1>3, QuietFails

\* Nothing has happened to a request that is on its way.
LEMMA OnTheWayUntouched ==
  ASSUME LifeInvariant, NEW r, Req(r) \in ToSend \cup Arriving
  PROVE  Untouched(reqs, r)
  <1>1. HandlingInvariant /\ NotArrived(due, flight)
    BY LifeFacts, InvariantFacts
  <1>2. PICK d \in Scheduled : d.type \in {"send", "receive"} /\ d.m = Req(r)
    BY DEF ToSend, Arriving, MessagesOf
  <1>3. OnTheWay(d) /\ d.m.r = r
    BY <1>2 DEF OnTheWay, Req
  <1> QED
    BY <1>1, <1>2, <1>3 DEF NotArrived, Scheduled

\* Instance i lets request p fail because its dependency on m.r failed.
GivesUp(m, i, p) ==
  /\ m = Req(m.r) /\ m.r \in Id /\ ~IsUser(m.r)
  /\ p \in Id /\ i \in Instance /\ p = Parent(m.r) /\ i = reqs[m.r].requester
  /\ p \in handling[i] /\ DepOf(m.r) \in openDeps[i] /\ IsCurrent(m.r)
  /\ Forgets(m.r) /\ Fails(m) /\ Quiet({Req(p)})
  /\ Cancel(Req(p), "DEPENDENCY_NOT_AVAILABLE") \in Cancellation
  /\ urgent' = Append(Tail(urgent), Cancel(Req(p), "DEPENDENCY_NOT_AVAILABLE"))
  /\ handling' = [handling EXCEPT ![i] = @ \ {p}]
  /\ openDeps' = [openDeps EXCEPT ![i] = @ \ AllDeps(p)]
  /\ waiting' = [waiting EXCEPT ![i] = @ - 1]
  /\ notComputed' = [notComputed EXCEPT ![i] = @ - 1]
  /\ finishing' = finishing \ Children(p)

\* The part of it that does not depend on why the dependency failed
Abandons(r, i, p) ==
  /\ r \in Id /\ ~IsUser(r) /\ p \in Id /\ i \in Instance
  /\ p = Parent(r) /\ i = reqs[r].requester
  /\ p \in handling[i] /\ DepOf(r) \in openDeps[i] /\ IsCurrent(r)
  /\ Kin(reqs') /\ SameLife(reqs') /\ SameLinks(reqs') /\ SameCounts(reqs')
  /\ Len(reqs') = Len(reqs) /\ UNCHANGED <<state, cpu>>
  /\ Cancel(Req(p), "DEPENDENCY_NOT_AVAILABLE") \in Cancellation
  /\ handling' = [handling EXCEPT ![i] = @ \ {p}]
  /\ openDeps' = [openDeps EXCEPT ![i] = @ \ AllDeps(p)]
  /\ waiting' = [waiting EXCEPT ![i] = @ - 1]
  /\ notComputed' = [notComputed EXCEPT ![i] = @ - 1]
  /\ finishing' = finishing \ Children(p)

LEMMA GivesUpAbandons ==
  ASSUME NEW m, NEW i, NEW p, GivesUp(m, i, p)
  PROVE  Abandons(m.r, i, p)
  BY DEF GivesUp, Abandons, Forgets, Fails, Quiet

LEMMA GivesUpEffects ==
  ASSUME LifeInvariant, TypeOK', NEW m, Cancels(m), LetRequestFail(m)
  PROVE  /\ \E i \in Instance, p \in Id : GivesUp(m, i, p)
         /\ Lineage' /\ Messages'
  <1> DEFINE i == reqs[m.r].requester
             p == Parent(m.r)
             c == Cancel(Req(p), "DEPENDENCY_NOT_AVAILABLE")
  <1>1. /\ ~m.ans /\ ~IsUser(m.r) /\ Failed(m) /\ urgent' = Append(Tail(urgent), c)
        /\ reqs' = Forget(m.r) /\ UNCHANGED flight /\ Awaited(i, m.r)
        /\ handling' = [handling EXCEPT ![i] = @ \ {p}]
        /\ openDeps' = [openDeps EXCEPT ![i] = @ \ AllDeps(p)]
        /\ waiting' = [waiting EXCEPT ![i] = @ - 1]
        /\ notComputed' = [notComputed EXCEPT ![i] = @ - 1]
        /\ finishing' = finishing \ Children(p)
    BY DEF LetRequestFail, Abandoned
  <1>2. m.r \in Id /\ TypeOK /\ Lineage /\ HandlingInvariant /\ Instances
    <2>1. urgent \in Seq(Cancellation) /\ urgent # <<>> /\ TypeOK
      BY LifeFacts DEF Cancels, TypeOK
    <2>2. Head(urgent) \in Cancellation
      BY <2>1
    <2> QED
      BY <2>1, <2>2, LifeFacts DEF Cancels, Cancellation, Message
  <1>3. /\ Forgets(m.r) /\ Kin(reqs') /\ SameLife(reqs') /\ SameLinks(reqs')
        /\ Len(reqs') = Len(reqs)
    BY <1>1, <1>2, ForgetEffects
  <1>4. /\ i \in Instance /\ p \in Id
        /\ p \in handling[i] /\ DepOf(m.r) \in openDeps[i] /\ IsCurrent(m.r)
    BY <1>1, <1>2, InternalFacts DEF Awaited
  <1> HIDE DEF i, p
  <1>5. Req(p) \in Message /\ c \in Cancellation /\ c.m = Req(p)
    BY <1>4, ReqAns DEF Cancel, Cancellation, Reasons
  <1> HIDE DEF c
  <1>6. /\ ToSend' = ToSend /\ Arriving' = Arriving
        /\ MessagesOf(flight', "cancel") = MessagesOf(flight, "cancel")
        /\ \A d \in Scheduled' : d.type = "receive" => d \in Scheduled
        /\ \A d \in flight' : d \in flight
        /\ AnswerOnce(due')
    BY <1>1, SameEvents DEF Cancels
  <1>7. /\ Fails(m) /\ Failing' \subseteq Failing \cup {Req(p)}
        /\ UNION {outgoing'[j] : j \in Instance} \subseteq UNION {outgoing[j] : j \in Instance}
    <2>1. \E x \in Cancellation : urgent' = Append(Tail(urgent), x)
      BY <1>1, <1>5
    <2> QED
      BY <2>1, <1>1, <1>5, <1>6, FailSets
  <1>8. Req(p) \notin ToSend
    <2>1. reqs[p].handler = i
      BY <1>2, <1>4 DEF Instances, HandlerKnown
    <2>2. reqs[p].handler # None
      BY <2>1, <1>4, ArchitectureAssumption
    <2> QED
      BY <2>2, OnTheWayUntouched DEF Untouched
  <1>9. Quiet({Req(p)})
    <2>1. armed' \subseteq armed
      BY <1>7 DEF Fails
    <2>2. {Req(p)} \subseteq Message /\ {Req(p)} \cap ToSend = {}
      BY <1>5, <1>8
    <2>3. \A x \in {Req(p)} : x \in Heard \/ ~x.ans
      BY DEF Req
    <2> QED
      BY <2>1, <2>2, <2>3, <1>3, <1>6, <1>7 DEF Quiet
  <1>10. Lineage' /\ Messages'
    BY <1>6, <1>7, <1>9, QuietStep
  <1>11. m = Req(m.r)
    BY <1>1, <1>7 DEF Fails
  <1>12. p = Parent(m.r) /\ i = reqs[m.r].requester
    BY DEF p, i
  <1>13. c = Cancel(Req(p), "DEPENDENCY_NOT_AVAILABLE")
    BY DEF c
  <1>14. GivesUp(m, i, p)
    BY <1>1, <1>2, <1>3, <1>4, <1>5, <1>7, <1>9, <1>11, <1>12, <1>13 DEF GivesUp
  <1> QED
    BY <1>4, <1>10, <1>14

\* The dependency of r gets a new child request, new, that is to be sent.
Repeats(m, new) ==
  /\ m = Req(m.r) /\ m.r \in Id /\ ~IsUser(m.r) /\ Retries(m.r) /\ Fails(m)
  /\ new = Len(reqs) + 1 /\ Id' = Id \cup {new} /\ new \notin Id
  /\ Kin(reqs') /\ SameLife(reqs') /\ SameTries(reqs') /\ SameCounts(reqs')
  /\ \A x \in Id, y \in DepName :
       reqs'[x].child[y] = IF x = Parent(m.r) /\ y = reqs[m.r].dep
                           THEN new ELSE reqs[x].child[y]
  /\ Unborn(reqs'[new])
  /\ reqs'[new].parent = Parent(m.r) /\ reqs'[new].dep = reqs[m.r].dep
  /\ reqs'[new].requester = reqs[m.r].requester
  /\ urgent' = Tail(urgent)
  /\ UNCHANGED <<handling, openDeps, notComputed, waiting, finishing>>
  /\ ToSend' = ToSend \cup {Req(new)} /\ Failing' \subseteq Failing

\* updateChildRequest and the creation of the new child
Repeated(r, new) ==
  Append(Relinked(r, new),
         NewRequest(reqs[r].op, Parent(r), reqs[r].dep, reqs[r].requester))

LEMMA RepeatedReqs ==
  ASSUME LifeInvariant, NEW r \in Id, ~IsUser(r), NEW new, new = Len(reqs) + 1,
         reqs' = Repeated(r, new)
  PROVE  /\ Id' = Id \cup {new} /\ new \notin Id
         /\ Kin(reqs') /\ SameLife(reqs') /\ SameTries(reqs') /\ SameCounts(reqs')
         /\ \A x \in Id, y \in DepName :
              reqs'[x].child[y] = IF x = Parent(r) /\ y = reqs[r].dep
                                  THEN new ELSE reqs[x].child[y]
         /\ \A x \in Id : x # Parent(r) => reqs'[x].child = reqs[x].child
         /\ Unborn(reqs'[new])
         /\ reqs'[new].parent = Parent(r) /\ reqs'[new].dep = reqs[r].dep
         /\ reqs'[new].requester = reqs[r].requester
  <1> DEFINE p == Parent(r)
             n == reqs[r].dep
             k == NewRequest(reqs[r].op, p, n, reqs[r].requester)
             v == [reqs[p] EXCEPT !.child[n] = new]
             s == [reqs EXCEPT ![p] = v]
  <1>1. /\ TypeOK /\ p \in Id /\ n \in DepName /\ reqs[r] \in Request
        /\ reqs[p] \in Request /\ Len(reqs) \in Nat /\ Id = 1..Len(reqs)
    BY LifeFacts, InternalFacts, ReqsType DEF Id
  <1>2. /\ k \in Request /\ Unborn(k) /\ k.parent = p /\ k.dep = n
        /\ k.requester = reqs[r].requester
    <2>1. /\ reqs[r].op \in Op /\ p \in Nat
          /\ n \in DepName \cup {None}
          /\ reqs[r].requester \in Instance \cup {Generator}
      <3>1. p \in Nat /\ n \in DepName \cup {None}
        BY <1>1
      <3>2. reqs[r].op \in Op /\ reqs[r].requester \in Instance \cup {Generator}
        BY <1>1 DEF Request
      <3> QED
        BY <3>1, <3>2
    <2> HIDE DEF p, n
    <2>2. \A op, x, y, i :
            LET q == NewRequest(op, x, y, i)
            IN  Unborn(q) /\ q.parent = x /\ q.dep = y /\ q.requester = i
      BY DEF NewRequest, Unborn
    <2>3. k \in Request
      <3>1. \A op \in Op, x \in Nat, y \in DepName \cup {None},
               i \in Instance \cup {Generator} : NewRequest(op, x, y, i) \in Request
        BY NewRequestType
      <3> QED
        BY <2>1, <3>1
    <2> QED
      BY <2>2, <2>3
  <1> HIDE DEF k, p, n
  <1>3. /\ v \in Request
        /\ v.op = reqs[p].op /\ v.parent = reqs[p].parent /\ v.dep = reqs[p].dep
        /\ v.requester = reqs[p].requester /\ v.handler = reqs[p].handler
        /\ v.computed = reqs[p].computed /\ v.done = reqs[p].done
        /\ v.tries = reqs[p].tries
        /\ v.succeeded = reqs[p].succeeded /\ v.failed = reqs[p].failed
        /\ \A y \in DepName : v.child[y] = IF y = n THEN new ELSE reqs[p].child[y]
    <2>1. new \in Nat
      BY <1>1
    <2> QED
      BY <1>1, <2>1 DEF Request
  <1>4. s = Relinked(r, new)
    BY DEF Relinked, p, n
  <1> HIDE DEF v
  <1>5. /\ s \in Seq(Request) /\ Len(s) = Len(reqs)
        /\ s[p] = v /\ \A x \in Id : x # p => s[x] = reqs[x]
    BY <1>1, <1>3, Replaced
  <1> HIDE DEF s
  <1>6. reqs' = Append(s, k)
    BY <1>4 DEF k, p, n, Repeated
  <1>7. /\ Len(reqs') = Len(reqs) + 1 /\ reqs'[new] = k
        /\ \A x \in Id : reqs'[x] = s[x]
    BY <1>1, <1>2, <1>5, <1>6, OneMore
  <1>8. Id' = Id \cup {new} /\ new \notin Id
    BY <1>1, <1>7 DEF Id
  <1>12. reqs'[p] = v /\ \A x \in Id : x # p => reqs'[x] = reqs[x]
    BY <1>1, <1>5, <1>7
  <1>9. Kin(reqs') /\ SameLife(reqs') /\ SameTries(reqs') /\ SameCounts(reqs')
    <2>1. Len(reqs') >= Len(reqs)
      BY <1>1, <1>7
    <2> QED
      BY <2>1, <1>3, <1>12 DEF Kin, SameLife, SameTries, SameCounts
  <1>10. /\ \A x \in Id, y \in DepName :
              reqs'[x].child[y] = IF x = p /\ y = n THEN new ELSE reqs[x].child[y]
         /\ \A x \in Id : x # p => reqs'[x].child = reqs[x].child
    BY <1>3, <1>12
  <1> QED
    BY <1>2, <1>7, <1>8, <1>9, <1>10 DEF p, n

LEMMA RepeatsEffects ==
  ASSUME LifeInvariant, TypeOK', NEW m, Cancels(m), RetryRequest(m)
  PROVE  Repeats(m, Len(reqs) + 1) /\ Lineage' /\ Messages'
  <1> DEFINE r == m.r
  <1>0. PICK new, p, n : new = Len(reqs) + 1 /\ p = Parent(r) /\ n = reqs[r].dep
    OBVIOUS
  <1> DEFINE d == Event("send", Req(new), None)
  <1>1. /\ ~m.ans /\ ~IsUser(r) /\ Retries(r) /\ Failed(m) /\ urgent' = Tail(urgent)
        /\ reqs' = Repeated(r, new)
        /\ flight' = flight \cup {d} /\ due' = due
        /\ UNCHANGED <<handling, openDeps, notComputed, waiting, finishing>>
    BY <1>0 DEF RetryRequest, Cancels, Repeated
  <1>2. m.r \in Id /\ TypeOK /\ Lineage /\ Messages
    <2>1. urgent \in Seq(Cancellation) /\ urgent # <<>> /\ TypeOK
      BY LifeFacts DEF Cancels, TypeOK
    <2>2. Head(urgent) \in Cancellation
      BY <2>1
    <2> QED
      BY <2>1, <2>2, LifeFacts DEF Cancels, Cancellation, Message
  <1>3. d.type = "send" /\ d.m = Req(new)
    BY DEF Event
  <1> HIDE DEF d, r
  <1>4. /\ Id' = Id \cup {new} /\ new \notin Id
        /\ Kin(reqs') /\ SameLife(reqs') /\ SameTries(reqs') /\ SameCounts(reqs')
        /\ \A x \in Id, y \in DepName :
             reqs'[x].child[y] = IF x = p /\ y = n THEN new ELSE reqs[x].child[y]
        /\ \A x \in Id : x # p => reqs'[x].child = reqs[x].child
        /\ Unborn(reqs'[new])
        /\ reqs'[new].parent = p /\ reqs'[new].dep = n
        /\ reqs'[new].requester = reqs[r].requester
    BY <1>0, <1>1, <1>2, RepeatedReqs DEF r
  <1>5. /\ MessagesOf(flight', "cancel") = MessagesOf(flight, "cancel")
        /\ ToSend' = ToSend \cup {Req(new)} /\ Arriving' = Arriving
        /\ \A x \in Scheduled' : x.type = "receive" => x \in Scheduled
        /\ \A x \in flight' : x.type = "send" => x \in flight \/ x = d
    BY <1>1, <1>3 DEF MessagesOf, ToSend, Arriving, Scheduled
  <1>6. /\ Fails(m) /\ Failing' \subseteq Failing
        /\ UNION {outgoing'[i] : i \in Instance} \subseteq UNION {outgoing[i] : i \in Instance}
    BY <1>1, <1>5, FailSets
  <1>7. m = Req(r)
    BY <1>1, <1>6 DEF Fails, r
  <1>8. /\ p \in Id /\ n \in Deps(p) /\ n \in DepName
        /\ reqs[r].requester \in Instance /\ reqs[p].handler = reqs[r].requester
    BY <1>0, <1>1, <1>2, InternalFacts DEF r
  <1>9. IsCurrent(r) /\ reqs[p].child[n] = r
    BY <1>0, <1>1 DEF Retries, Known, IsCurrent
  <1>11. Repeats(m, new)
    BY <1>0, <1>1, <1>2, <1>4, <1>5, <1>6, <1>7 DEF Repeats, r
  <1>12. /\ reqs'[new].requester # Generator /\ Parent(new)' = p /\ reqs'[new].dep = n
         /\ reqs'[new].handler = None /\ reqs'[p].child[n] = new
         /\ DepOf(new)' = <<p, n>> /\ ~IsUser(new)' /\ n \in Deps(p)'
    BY <1>4, <1>8, ArchitectureAssumption DEF Unborn, Parent, DepOf, IsUser, Deps, Kin
  <1>13. Lineage'
    <2>1. Born(new)'
      <3>1. reqs'[p].handler = reqs'[new].requester
        BY <1>4, <1>8 DEF SameLife
      <3> QED
        BY <3>1, <1>4, <1>8, <1>12 DEF Born
    <2>2. ASSUME NEW x \in Id', reqs'[x].handler # None
          PROVE  \/ /\ x \in Id
                    /\ reqs'[x].handler = reqs[x].handler
                    /\ reqs'[x].child = reqs[x].child
                 \/ Linked(x)'
      <3>1. x \in Id
        BY <2>2, <1>4, <1>12
      <3>2. CASE x # p
        BY <3>1, <3>2, <1>4 DEF SameLife
      <3>3. CASE x = p
        <4> SUFFICES ASSUME NEW y \in Deps(p)'
                     PROVE  \E c \in Id' : /\ c = reqs'[p].child[y]
                                           /\ DepOf(c)' = <<p, y>> /\ ~IsUser(c)'
          BY <3>3 DEF Linked, DepOf, IsUser
        <4>1. y \in Deps(p) /\ y \in DepName
          <5>1. y \in Deps(p)
            BY <1>4, <1>8 DEF Deps, Kin
          <5>2. Deps(p) \subseteq DepName
            BY <1>2, <1>8, ReqsType, ArchitectureAssumption DEF Deps, Request
          <5> QED
            BY <5>1, <5>2
        <4>2. CASE y = n
          BY <4>2, <1>4, <1>12
        <4>3. CASE y # n
          <5>1. reqs[p].handler # None
            BY <1>8, ArchitectureAssumption
          <5>2. PICK c \in Id : /\ c = reqs[p].child[y]
                                /\ DepOf(c) = <<p, y>> /\ ~IsUser(c)
            BY <5>1, <4>1, <1>2, <1>8 DEF Lineage, Linked
          <5>3. reqs'[p].child[y] = c
            BY <5>2, <4>1, <4>3, <1>4, <1>8
          <5>4. DepOf(c)' = <<p, y>> /\ ~IsUser(c)'
            BY <5>2, <1>4 DEF DepOf, IsUser, Kin
          <5> QED
            BY <5>2, <5>3, <5>4, <1>4
        <4> QED
          BY <4>2, <4>3
      <3> QED
        BY <3>2, <3>3
    <2> QED
      BY <2>1, <2>2, <1>2, <1>4, LineageKept DEF SameLife
  <1>14. Messages'
    <2> DEFINE F == {Req(new)}
               N == {}
    <2>1. Message \subseteq Message' /\ Req(new) \in Message'
      <3>1. new \in Id'
        BY <1>4
      <3> QED
        BY <3>1, <1>2, <1>4, KinId DEF Message, Req
    <2>2. Heard' \subseteq Heard
      <3>1. armed' \subseteq armed
        BY <1>6 DEF Fails
      <3> QED
        BY <3>1, <1>5, <1>6 DEF Heard
    <2>3. F \cap Heard' = {}
      <3>1. \A x \in Heard : x.r \in Id
        BY <1>2, MessageSets, ReqAns
      <3> QED
        BY <3>1, <2>2, <1>4, ReqAns
    <2>4. IsCurrent(new)'
      BY <1>12 DEF IsCurrent
    <2>5. \A x \in ToSend \cap ToSend' :
            IsCurrent(x.r) => x.ans \/ IsUser(x.r) \/ IsCurrent(x.r)'
      <3> SUFFICES ASSUME NEW x \in ToSend, IsCurrent(x.r), ~IsUser(x.r), ~x.ans
                   PROVE  IsCurrent(x.r)'
        OBVIOUS
      <3>1. x.r \in Id /\ x = Req(x.r)
        BY <1>2, MessageSets, ReqAns
      <3>2. x.r # r
        BY <3>1, <1>6, <1>7 DEF Fails
      <3>3. Parent(x.r) \in Id /\ reqs[x.r].dep \in DepName
        BY <3>1, <1>2, InternalFacts
      <3>4. ~(Parent(x.r) = p /\ reqs[x.r].dep = n)
        BY <3>2, <1>9 DEF IsCurrent
      <3> QED
        BY <3>1, <3>3, <3>4, <1>2, <1>4, StillCurrent
    <2>6. AnswerOnce(due') /\ \A x \in flight' : x.type = "send" => ~x.m.ans
      BY <1>1, <1>2, <1>3, ReqAns DEF Messages, AnswersComputed
    <2>7. AnswersReturn' /\ UsersAtOnce'
      <3>1. Watches({})
        <4>1. armed' \subseteq armed
          BY <1>6 DEF Fails
        <4> QED
          BY <4>1, <1>5 DEF Watches
      <3>2. UsersAtOnce'
        BY <3>1, <1>2, <1>4, UsersKept
      <3>3. ASSUME NEW x \in Scheduled', x.type = "receive", x.m.ans
            PROVE  x.i = reqs'[x.m.r].requester
        <4>1. x \in Scheduled
          BY <1>5, <3>3
        <4>2. x.m.r \in Id
          BY <3>3, <4>1, <1>2, MessageSets, ReqAns DEF Due, Flight
        <4> QED
          BY <3>3, <4>1, <4>2, <1>2, <1>4 DEF Messages, AnswersReturn, Kin
      <3> QED
        BY <3>2, <3>3 DEF AnswersReturn
    <2>8. /\ F \subseteq Message' /\ N \subseteq Message'
          /\ ToSend' \subseteq ToSend \cup F /\ Heard' \subseteq Heard \cup N
          /\ N \cap ToSend' = {}
          /\ \A x \in F : x.ans \/ IsUser(x.r)' \/ IsCurrent(x.r)'
          /\ \A x \in F \cup N :
               x \in ToSend \cup Heard \/ (x.ans => reqs'[x.r].computed)
      BY <2>1, <2>2, <2>4, <1>5, ReqAns
    <2>9. \A x \in Id : reqs[x].computed => reqs'[x].computed
      BY <1>4 DEF SameLife
    <2> HIDE DEF F, N
    <2> QED
      BY <2>3, <2>5, <2>6, <2>7, <2>8, <2>9, <1>2, <1>4, MessagesKept
  <1> QED
    BY <1>0, <1>11, <1>13, <1>14

-----------------------------------------------------------------------------
(* Time passes, users and instances come and go.                           *)

\* Other events than the sending and arrival of messages come and go.
LEMMA OtherEvents ==
  ASSUME LifeInvariant, UNCHANGED flight, AnswerOnce(due'),
         \A d \in Scheduled \cup Scheduled' :
            d.type \in {"send", "receive"} => (d \in Scheduled <=> d \in Scheduled')
  PROVE  /\ ToSend' = ToSend /\ Arriving' = Arriving
         /\ MessagesOf(flight', "cancel") = MessagesOf(flight, "cancel")
         /\ \A d \in Scheduled' : d.type = "receive" => d \in Scheduled
         /\ \A d \in flight' : d \in flight
  BY DEF ToSend, Arriving, MessagesOf

\* A timeout, or a cancellation with a delay: message m is about to fail.
Expires(m) ==
  /\ m \in Message /\ m \in armed \cup Failing /\ ~IsUser(m.r) /\ Quiet({m})
  /\ Failing' = Failing \cup {m}
  /\ armed' = armed \/ armed' = armed \ {m}
  /\ \E reason \in Reasons : /\ Cancel(m, reason) \in Cancellation
                             /\ urgent' = Append(urgent, Cancel(m, reason))
  /\ UNCHANGED <<reqs, state, handling, openDeps, notComputed, waiting, cpu, finishing>>

LEMMA TimeoutEffects ==
  ASSUME LifeInvariant, TypeOK', Timeout
  PROVE  (\E m : Expires(m)) /\ Lineage' /\ Messages'
  <1>1. /\ UNCHANGED <<reqs, state, handling, openDeps, notComputed, waiting, cpu>>
        /\ UNCHANGED <<finishing, outgoing, due, flight>>
    BY DEF Timeout, instVars
  <1>2. PICK m \in armed : urgent' = Append(urgent, Cancel(m, "TIMEOUT")) /\ Disarm({m})
    BY DEF Timeout
  <1>3. /\ TypeOK /\ Messages /\ m \in Message /\ Kin(reqs') /\ SameLife(reqs')
        /\ SameLinks(reqs') /\ Len(reqs') = Len(reqs) /\ m \in Heard
    BY <1>1, LifeFacts, NothingChanges, MessageSets DEF Heard
  <1>4. /\ ToSend' = ToSend /\ Arriving' = Arriving
        /\ MessagesOf(flight', "cancel") = MessagesOf(flight, "cancel")
        /\ \A d \in Scheduled' : d.type = "receive" => d \in Scheduled
        /\ \A d \in flight' : d \in flight
        /\ AnswerOnce(due')
    BY <1>1, SameEvents
  <1>5. "TIMEOUT" \in Reasons /\ Cancel(m, "TIMEOUT") \in Cancellation
    BY <1>3 DEF Cancel, Cancellation, Reasons
  <1>6. Failing' = Failing \cup {m}
    BY <1>2, <1>3, <1>4, <1>5, FailingAppend DEF Cancel
  <1>7. armed' = armed \ {m}
    BY <1>2 DEF Disarm
  <1>8. m \notin ToSend /\ ~IsUser(m.r)
    BY <1>3 DEF Messages, ToSendIsUnknown, UsersAtOnce
  <1>9. Quiet({m})
    BY <1>3, <1>4, <1>6, <1>7, <1>8 DEF Quiet
  <1>10. Expires(m)
    BY <1>1, <1>2, <1>3, <1>5, <1>6, <1>7, <1>8, <1>9 DEF Expires
  <1> QED
    BY <1>1, <1>4, <1>9, <1>10, QuietStep

LEMMA CancelLaterEffects ==
  ASSUME LifeInvariant, TypeOK', NEW e, NEW f, Taken(e, due, f), e.type = "cancel",
         CancelLater(e.m, f)
  PROVE  Expires(e.m) /\ Lineage' /\ Messages'
  <1> DEFINE m == e.m
  <1>1. /\ UNCHANGED <<reqs, state, handling, openDeps, notComputed, waiting, cpu>>
        /\ UNCHANGED <<finishing, outgoing, due, armed>>
        /\ flight' = f /\ urgent' = Append(urgent, Cancel(m, "NO_INSTANCE_AVAILABLE"))
    BY DEF CancelLater, instVars
  <1>2. /\ m \in Message /\ f \subseteq flight
        /\ MessagesOf(flight, "cancel") = MessagesOf(f, "cancel") \cup {m}
        /\ Scheduled = {e} \cup Range(due) \cup f
    BY RestFacts, LifeFacts DEF Taken
  <1>3. /\ TypeOK /\ Messages /\ Kin(reqs') /\ SameLife(reqs')
        /\ SameLinks(reqs') /\ Len(reqs') = Len(reqs)
    BY <1>1, LifeFacts, NothingChanges
  <1> HIDE DEF m
  <1>4. m \in Failing /\ m \in Heard /\ m \notin ToSend /\ ~IsUser(m.r)
    BY <1>2, <1>3 DEF Failing, Heard, Messages, ToSendIsUnknown, UsersAtOnce
  <1>5. /\ ToSend' = ToSend /\ Arriving' = Arriving
        /\ \A d \in Scheduled' : d.type = "receive" => d \in Scheduled
        /\ \A d \in flight' : d \in flight
        /\ AnswerOnce(due')
    <2>1. Scheduled' = Range(due) \cup f
      BY <1>1 DEF Scheduled
    <2>2. ToSend' = ToSend /\ Arriving' = Arriving
      BY <1>2, <2>1 DEF ToSend, Arriving, MessagesOf
    <2> QED
      BY <2>1, <2>2, <1>1, <1>2, <1>3 DEF Messages, AnswersComputed
  <1>6. /\ "NO_INSTANCE_AVAILABLE" \in Reasons
        /\ Cancel(m, "NO_INSTANCE_AVAILABLE") \in Cancellation
    BY <1>2 DEF Cancel, Cancellation, Reasons
  <1>7. Failing' = Failing \cup {m}
    <2>1. Range(urgent') = Range(urgent) \cup {Cancel(m, "NO_INSTANCE_AVAILABLE")}
      BY <1>1, <1>3, <1>6, AppendRange DEF TypeOK
    <2> QED
      BY <2>1, <1>1, <1>2 DEF Failing, Cancel
  <1>8. Quiet({m})
    BY <1>1, <1>2, <1>3, <1>4, <1>5, <1>7 DEF Quiet
  <1>9. Expires(m)
    BY <1>1, <1>2, <1>4, <1>6, <1>7, <1>8 DEF Expires
  <1>10. MessagesOf(flight', "cancel") \subseteq MessagesOf(flight, "cancel")
    BY <1>1, <1>2
  <1> QED
    BY <1>1, <1>5, <1>8, <1>9, <1>10, QuietStep DEF m

\* The CPU is done with request r.
BurstEnds(i, r) ==
  /\ r \in cpu[i] /\ cpu' = [cpu EXCEPT ![i] = @ \ {r}]
  /\ finishing' = finishing \cup {r}
  /\ UNCHANGED <<reqs, state, handling, openDeps, notComputed, waiting, urgent, armed>>
  /\ Quiet({}) /\ Failing' = Failing

LEMMA BurstEffects ==
  ASSUME LifeInvariant, TypeOK', NEW i \in Instance, NEW r \in cpu[i], CompleteBurst(i, r)
  PROVE  BurstEnds(i, r) /\ Lineage' /\ Messages'
  <1> DEFINE d == Event("computed", Req(r), i)
  <1>1. /\ UNCHANGED <<reqs, state, handling, openDeps, notComputed, waiting>>
        /\ UNCHANGED <<outgoing, urgent, flight, armed>>
        /\ cpu' = [cpu EXCEPT ![i] = @ \ {r}] /\ finishing' = finishing \cup {r}
        /\ due' = Append(due, d)
    BY DEF CompleteBurst, instVars
  <1>2. /\ TypeOK /\ Messages /\ Kin(reqs') /\ SameLife(reqs')
        /\ SameLinks(reqs') /\ Len(reqs') = Len(reqs) /\ due \in Seq(Due)
        /\ AnswerOnce(due)
    BY <1>1, LifeFacts, NothingChanges DEF TypeOK, Messages, AnswersComputed
  <1>3. d \in Due /\ d.type = "computed"
    <2>1. Req(r) \in Message
      BY <1>2, ReqAns DEF TypeOK
    <2> QED
      BY <2>1 DEF Event, Due
  <1> HIDE DEF d
  <1>4. Range(due') = Range(due) \cup {d} /\ AnswerOnce(due')
    BY <1>1, <1>2, <1>3, AppendRange, AppendAnswer
  <1>5. Scheduled' = Scheduled \cup {d}
    BY <1>1, <1>4 DEF Scheduled
  <1>6. /\ ToSend' = ToSend /\ Arriving' = Arriving
        /\ MessagesOf(flight', "cancel") = MessagesOf(flight, "cancel")
        /\ \A x \in Scheduled' : x.type = "receive" => x \in Scheduled
        /\ \A x \in flight' : x \in flight
    BY <1>1, <1>3, <1>4, <1>5, OtherEvents
  <1>7. Failing' = Failing
    BY <1>1, <1>6 DEF Failing
  <1>8. Quiet({})
    BY <1>1, <1>2, <1>6, <1>7 DEF Quiet
  <1>9. Lineage' /\ Messages'
    BY <1>1, <1>4, <1>6, <1>8, QuietStep
  <1> QED
    BY <1>1, <1>7, <1>8, <1>9 DEF BurstEnds

\* The shutdown of an instance starts.
ShutdownStarts(i) ==
  /\ state[i] = "RUNNING" /\ state' = [state EXCEPT ![i] = "SHUTTING_DOWN"]
  /\ UNCHANGED <<reqs, handling, openDeps, notComputed, waiting, cpu, finishing, urgent, armed>>
  /\ Quiet({}) /\ Failing' = Failing

LEMMA ShutdownStartEffects ==
  ASSUME LifeInvariant, TypeOK', NEW i \in Instance, StartShutdown(i)
  PROVE  ShutdownStarts(i) /\ Lineage' /\ Messages'
  <1>1. /\ state[i] = "RUNNING" /\ state' = [state EXCEPT ![i] = "SHUTTING_DOWN"]
        /\ UNCHANGED <<reqs, handling, openDeps, notComputed, waiting>>
        /\ UNCHANGED <<cpu, finishing, outgoing, urgent, flight, armed>>
        /\ due' = EndIfIdle(i) /\ due = <<>>
    BY DEF StartShutdown, Quiescent
  <1>2. /\ TypeOK /\ Kin(reqs') /\ SameLife(reqs')
        /\ SameLinks(reqs') /\ Len(reqs') = Len(reqs)
    BY <1>1, LifeFacts, NothingChanges
  <1>3. AnswerOnce(due') /\ \A d \in Range(due') : d.type = "end"
    <2>1. due' = <<>> \/ due' = <<EndOf(i)>>
      BY <1>1 DEF EndIfIdle
    <2>2. EndOf(i).type = "end"
      BY DEF EndOf, Event
    <2>3. CASE due' = <<>>
      BY <2>3 DEF AnswerOnce, Range
    <2>4. CASE due' = <<EndOf(i)>>
      <3>1. DOMAIN due' = {1} /\ due'[1] = EndOf(i)
        BY <2>4
      <3> QED
        BY <3>1, <2>2 DEF AnswerOnce, Range
    <2> QED
      BY <2>1, <2>3, <2>4
  <1>4. Range(due) = {}
    BY <1>1 DEF Range
  <1>5. /\ ToSend' = ToSend /\ Arriving' = Arriving
        /\ MessagesOf(flight', "cancel") = MessagesOf(flight, "cancel")
        /\ \A d \in Scheduled' : d.type = "receive" => d \in Scheduled
        /\ \A d \in flight' : d \in flight
    <2>1. \A d \in Scheduled \cup Scheduled' :
             d.type \in {"send", "receive"} => (d \in Scheduled <=> d \in Scheduled')
      BY <1>1, <1>3, <1>4 DEF Scheduled
    <2> QED
      BY <2>1, <1>1, <1>3, OtherEvents
  <1>6. Failing' = Failing
    BY <1>1, <1>5 DEF Failing
  <1>7. Quiet({})
    BY <1>1, <1>2, <1>5, <1>6 DEF Quiet
  <1>8. Lineage' /\ Messages'
    BY <1>1, <1>3, <1>5, <1>7, QuietStep
  <1> QED
    BY <1>1, <1>6, <1>7, <1>8 DEF ShutdownStarts

\* Instance i forgets the attempts of its requests.
ClearsRetry(i) ==
  /\ Kin(reqs') /\ SameLife(reqs') /\ SameLinks(reqs') /\ SameCounts(reqs')
  /\ Len(reqs') = Len(reqs)
  /\ \A x \in Id, y \in DepName :
       reqs'[x].tries[y] = IF reqs[x].handler = i THEN 0 ELSE reqs[x].tries[y]

LEMMA ClearEffects ==
  ASSUME TypeOK, NEW i, reqs' = ClearRetry(i)
  PROVE  ClearsRetry(i)
  <1>1. /\ Len(reqs') = Len(reqs) /\ Len(reqs) \in Nat
        /\ \A r \in Id : reqs[r] \in Request
    BY ReqsType, ClearRetryHarmless DEF Harmless
  <1>2. ASSUME NEW r \in Id
        PROVE  /\ reqs'[r].op = reqs[r].op /\ reqs'[r].parent = reqs[r].parent
               /\ reqs'[r].dep = reqs[r].dep /\ reqs'[r].requester = reqs[r].requester
               /\ reqs'[r].handler = reqs[r].handler
               /\ reqs'[r].computed = reqs[r].computed /\ reqs'[r].done = reqs[r].done
               /\ reqs'[r].child = reqs[r].child
               /\ reqs'[r].succeeded = reqs[r].succeeded
               /\ reqs'[r].failed = reqs[r].failed
               /\ \A y \in DepName :
                    reqs'[r].tries[y] = IF reqs[r].handler = i THEN 0
                                        ELSE reqs[r].tries[y]
    <2> DEFINE v == [reqs[r] EXCEPT !.tries = [n \in DepName |-> 0]]
    <2>1. reqs'[r] = IF reqs[r].handler = i THEN v ELSE reqs[r]
      BY DEF ClearRetry
    <2>2. /\ v.op = reqs[r].op /\ v.parent = reqs[r].parent
          /\ v.dep = reqs[r].dep /\ v.requester = reqs[r].requester
          /\ v.handler = reqs[r].handler /\ v.computed = reqs[r].computed
          /\ v.done = reqs[r].done /\ v.child = reqs[r].child
          /\ v.succeeded = reqs[r].succeeded /\ v.failed = reqs[r].failed
          /\ v.tries = [n \in DepName |-> 0]
      BY <1>1 DEF Request
    <2> HIDE DEF v
    <2>3. \A y \in DepName : v.tries[y] = 0
      BY <2>2
    <2> QED
      BY <2>1, <2>2, <2>3
  <1> QED
    BY <1>1, <1>2 DEF ClearsRetry, Kin, SameLife, SameLinks, SameCounts

\* The shutdown of an instance ends.
ShutdownEnds(i) ==
  /\ i \in Instance /\ state[i] = "SHUTTING_DOWN" /\ handling[i] = {}
  /\ state' = [state EXCEPT ![i] = "SHUTDOWN"] /\ ClearsRetry(i)
  /\ UNCHANGED <<handling, openDeps, notComputed, waiting, cpu, finishing, urgent, armed>>
  /\ Quiet({}) /\ Failing' = Failing

LEMMA ShutdownEndEffects ==
  ASSUME LifeInvariant, TypeOK', NEW e, NEW q, Taken(e, q, flight),
         e.type = "end", EndShutdown(e.i, q), UNCHANGED flight
  PROVE  ShutdownEnds(e.i) /\ Lineage' /\ Messages'
  <1> DEFINE i == e.i
  <1>1. state[i] = "SHUTTING_DOWN" /\ handling[i] = {} /\ i \in Instance
    BY RestFacts, LifeFacts DEF Taken, Rest
  <1>2. /\ state' = [state EXCEPT ![i] = "SHUTDOWN"]
        /\ reqs' = ClearRetry(i) /\ due' = q
        /\ UNCHANGED <<handling, openDeps, notComputed, waiting>>
        /\ UNCHANGED <<cpu, finishing, outgoing, urgent, flight, armed>>
    BY <1>1 DEF EndShutdown
  <1>3. TypeOK /\ ClearsRetry(i)
    BY <1>2, LifeFacts, ClearEffects
  <1>4. Scheduled = {e} \cup Range(q) \cup flight /\ AnswerOnce(q)
    BY DEF Taken
  <1> HIDE DEF i
  <1>5. /\ ToSend' = ToSend /\ Arriving' = Arriving
        /\ MessagesOf(flight', "cancel") = MessagesOf(flight, "cancel")
        /\ \A d \in Scheduled' : d.type = "receive" => d \in Scheduled
        /\ \A d \in flight' : d \in flight
    <2>1. \A d \in Scheduled \cup Scheduled' :
             d.type \in {"send", "receive"} => (d \in Scheduled <=> d \in Scheduled')
      BY <1>2, <1>4 DEF Scheduled
    <2> QED
      BY <2>1, <1>2, <1>4, OtherEvents
  <1>6. Failing' = Failing
    BY <1>2, <1>5 DEF Failing
  <1>7. Quiet({})
    BY <1>2, <1>3, <1>5, <1>6 DEF Quiet, ClearsRetry
  <1>8. Lineage' /\ Messages'
    BY <1>2, <1>4, <1>5, <1>7, QuietStep
  <1> QED
    BY <1>1, <1>2, <1>3, <1>6, <1>7, <1>8 DEF ShutdownEnds, i

\* Instance i dies, and the requesters of ids learn it.
Dies(i, ids) ==
  /\ i \in Instance /\ state[i] = "RUNNING" /\ urgent = <<>> /\ finishing = {}
  /\ ids \in Ascending(handling[i])
  /\ state' = [state EXCEPT ![i] = "KILLED"] /\ ClearsRetry(i)
  /\ cpu' = [cpu EXCEPT ![i] = {}] /\ urgent' = Informed(ids)
  /\ UNCHANGED <<handling, openDeps, notComputed, waiting, finishing, armed>>
  /\ Quiet({Req(r) : r \in handling[i]}) /\ Failing \subseteq Failing'

LEMMA DiesEffects ==
  ASSUME LifeInvariant, TypeOK', NEW i \in Instance, Kill(i)
  PROVE  (\E ids : Dies(i, ids)) /\ Lineage' /\ Messages'
  <1>1. /\ state[i] = "RUNNING" /\ state' = [state EXCEPT ![i] = "KILLED"]
        /\ reqs' = ClearRetry(i) /\ cpu' = [cpu EXCEPT ![i] = {}]
        /\ UNCHANGED <<handling, openDeps, notComputed, waiting, outgoing>>
        /\ UNCHANGED <<finishing, due, flight, armed>>
        /\ urgent = <<>>
    BY DEF Kill, CpuCleared, Quiescent
  <1>2. PICK ids \in Ascending(handling[i]) : urgent' = Informed(ids)
    BY DEF Kill
  <1>3. /\ TypeOK /\ Instances /\ ClearsRetry(i) /\ finishing = {}
    <2>1. HandlingInvariant /\ TypeOK /\ Instances
      BY LifeFacts
    <2>2. finishing = {}
      BY <2>1, QuiescentFacts DEF Kill
    <2> QED
      BY <2>1, <2>2, <1>1, ClearEffects
  <1>4. /\ ToSend' = ToSend /\ Arriving' = Arriving
        /\ MessagesOf(flight', "cancel") = MessagesOf(flight, "cancel")
        /\ \A d \in Scheduled' : d.type = "receive" => d \in Scheduled
        /\ \A d \in flight' : d \in flight
        /\ AnswerOnce(due')
    BY <1>1, SameEvents
  <1> DEFINE N == {Req(r) : r \in handling[i]}
  <1>5. \A c \in Range(urgent') : c.m \in N
    <2> DEFINE n == Cardinality(handling[i])
    <2>1. ids \in [1..n -> handling[i]]
      BY DEF Ascending, Orders, Bijection, Surjection, Injection
    <2> HIDE DEF n
    <2>2. /\ DOMAIN Informed(ids) = 1..n
          /\ \A k \in 1..n : Informed(ids)[k].m = Req(ids[k])
      BY <2>1 DEF Informed, Cancel
    <2> QED
      BY <2>1, <2>2, <1>2 DEF Range
  <1>6. Range(urgent) = {}
    BY <1>1 DEF Range
  <1>7. Failing' \subseteq Failing \cup N /\ Failing \subseteq Failing'
    BY <1>4, <1>5, <1>6 DEF Failing
  <1>8. N \subseteq Message /\ N \cap ToSend = {} /\ \A m \in N : ~m.ans
    <2> SUFFICES ASSUME NEW r \in handling[i]
                 PROVE  Req(r) \in Message /\ Req(r) \notin ToSend
      BY ReqAns
    <2>1. r \in Id /\ reqs[r].handler = i
      BY <1>3 DEF TypeOK, Instances, HandlerKnown
    <2>2. reqs[r].handler # None
      BY <2>1, ArchitectureAssumption
    <2> QED
      BY <2>1, <2>2, ReqAns, OnTheWayUntouched DEF Untouched
  <1> HIDE DEF N
  <1>9. Quiet(N)
    BY <1>1, <1>3, <1>4, <1>7, <1>8 DEF Quiet, ClearsRetry
  <1>10. UNION {outgoing'[j] : j \in Instance} \subseteq UNION {outgoing[j] : j \in Instance}
    BY <1>1
  <1>11. Lineage' /\ Messages'
    BY <1>4, <1>9, <1>10, QuietStep
  <1>12. Dies(i, ids)
    BY <1>1, <1>2, <1>3, <1>7, <1>9 DEF Dies, N
  <1> QED
    BY <1>11, <1>12

\* A load generator creates the user request new.
Asks(new) ==
  /\ new = Len(reqs) + 1 /\ Id' = Id \cup {new} /\ new \notin Id
  /\ Kin(reqs') /\ SameLife(reqs') /\ SameLinks(reqs') /\ SameTries(reqs')
  /\ SameCounts(reqs') /\ Unborn(reqs'[new])
  /\ reqs'[new].parent = 0 /\ reqs'[new].dep = None
  /\ reqs'[new].requester = Generator
  /\ UNCHANGED <<state, handling, openDeps, notComputed, waiting, cpu, finishing, urgent, armed>>
  /\ urgent = <<>>
  /\ ToSend' = ToSend \cup {Req(new)} /\ Arriving' = Arriving /\ Failing' = Failing

LEMMA AsksEffects ==
  ASSUME LifeInvariant, TypeOK', NEW op \in UserOp, SendNewUserRequest(op)
  PROVE  Asks(Len(reqs) + 1) /\ Lineage' /\ Messages'
  <1>0. PICK new : new = Len(reqs) + 1
    OBVIOUS
  <1> DEFINE k == NewRequest(op, 0, None, Generator)
             d == Event("send", Req(new), None)
  <1>1. /\ reqs' = Append(reqs, k) /\ due' = Append(due, d) /\ urgent = <<>>
        /\ UNCHANGED <<state, handling, openDeps, notComputed, waiting, cpu>>
        /\ UNCHANGED <<finishing, urgent, armed, flight, outgoing>>
    BY <1>0 DEF SendNewUserRequest, instVars, Quiescent
  <1>2. /\ TypeOK /\ Lineage /\ Messages /\ reqs \in Seq(Request)
        /\ Len(reqs) \in Nat /\ Id = 1..Len(reqs) /\ due \in Seq(Due)
    BY LifeFacts, ReqsType DEF Id, TypeOK
  <1>3. /\ k \in Request /\ Unborn(k) /\ k.parent = 0 /\ k.dep = None
        /\ k.requester = Generator
    BY ArchitectureAssumption, NewRequestType DEF NewRequest, Unborn
  <1>4. d.type = "send" /\ d.m = Req(new)
    BY DEF Event
  <1> HIDE DEF k
  <1>5. /\ Len(reqs') = Len(reqs) + 1 /\ reqs'[new] = k
        /\ \A x \in Id : reqs'[x] = reqs[x]
    BY <1>0, <1>1, <1>2, <1>3, OneMore
  <1>6. Id' = Id \cup {new} /\ new \notin Id
    BY <1>0, <1>2, <1>5 DEF Id
  <1>7. /\ Kin(reqs') /\ SameLife(reqs') /\ SameLinks(reqs') /\ SameTries(reqs')
        /\ SameCounts(reqs')
    BY <1>2, <1>5 DEF Kin, SameLife, SameLinks, SameTries, SameCounts
  <1>8. d \in Due' /\ due \in Seq(Due')
    <2>1. Due \subseteq Due'
      BY <1>2, <1>7, KinId DEF Due
    <2>2. Req(new) \in Message'
      BY <1>6 DEF Message, Req
    <2>3. d \in Due'
      BY <2>2 DEF Event, Due
    <2> QED
      BY <2>1, <2>3, <1>2, SeqMonotonic
  <1> HIDE DEF d
  <1>9. Range(due') = Range(due) \cup {d} /\ AnswerOnce(due')
    <2>1. AnswerOnce(due)
      BY <1>2 DEF Messages, AnswersComputed
    <2>2. ~d.m.ans
      BY <1>4, ReqAns
    <2> QED
      BY <2>1, <2>2, <1>1, <1>8, AppendRange, AppendAnswer
  <1>10. Scheduled' = Scheduled \cup {d}
    BY <1>1, <1>9 DEF Scheduled
  <1>11. ToSend' = ToSend \cup {Req(new)} /\ Arriving' = Arriving
    BY <1>4, <1>10 DEF ToSend, Arriving, MessagesOf
  <1>12. Failing' = Failing /\ MessagesOf(flight', "cancel") = MessagesOf(flight, "cancel")
    BY <1>1 DEF Failing
  <1>13. Asks(new)
    BY <1>0, <1>1, <1>3, <1>5, <1>6, <1>7, <1>11, <1>12 DEF Asks
  <1>14. Lineage'
    <2>1. Born(new)'
      BY <1>3, <1>5 DEF Born, IsUser
    <2>2. reqs'[new].handler = None
      BY <1>3, <1>5 DEF Unborn
    <2> QED
      BY <2>1, <2>2, <1>2, <1>5, <1>6, <1>7, LineageKept
  <1>15. Messages'
    <2> DEFINE F == {Req(new)}
               N == {}
    <2>1. outgoing' = outgoing /\ armed' = armed
      BY <1>1
    <2>2. Heard' = Heard
      BY <2>1, <1>11, <1>12 DEF Heard
    <2>3. F \cap Heard' = {}
      <3>1. \A x \in Heard : x.r \in Id
        BY <1>2, MessageSets, ReqAns
      <3> QED
        BY <3>1, <2>2, <1>6, ReqAns
    <2>4. IsUser(new)' /\ Req(new) \in Message'
      BY <1>3, <1>5, <1>6, ReqAns DEF IsUser, Message, Req
    <2>5. \A x \in ToSend \cap ToSend' :
            IsCurrent(x.r) => x.ans \/ IsUser(x.r) \/ IsCurrent(x.r)'
      <3> SUFFICES ASSUME NEW x \in ToSend, IsCurrent(x.r), ~IsUser(x.r)
                   PROVE  IsCurrent(x.r)'
        OBVIOUS
      <3>1. x.r \in Id /\ Parent(x.r) \in Id
        BY <1>2, MessageSets, ReqAns, InternalFacts
      <3> QED
        BY <3>1, <1>2, <1>7, StillCurrent DEF SameLinks
    <2>6. \A x \in flight' : x.type = "send" => ~x.m.ans
      BY <1>1, <1>2 DEF Messages, AnswersComputed
    <2>7. AnswersReturn' /\ UsersAtOnce'
      <3>1. Watches({})
        BY <2>1, <1>12 DEF Watches
      <3>2. Adds(Scheduled, {d})
        BY <1>4, <1>10 DEF Adds
      <3> QED
        BY <3>1, <3>2, <1>2, <1>7, UsersKept, ReturnsKept
    <2>8. /\ F \subseteq Message' /\ N \subseteq Message'
          /\ ToSend' \subseteq ToSend \cup F /\ Heard' \subseteq Heard \cup N
          /\ N \cap ToSend' = {}
          /\ \A x \in F : x.ans \/ IsUser(x.r)' \/ IsCurrent(x.r)'
          /\ \A x \in F \cup N :
               x \in ToSend \cup Heard \/ (x.ans => reqs'[x.r].computed)
      BY <2>2, <2>4, <1>11, ReqAns
    <2>9. \A x \in Id : reqs[x].computed => reqs'[x].computed
      BY <1>7 DEF SameLife
    <2> HIDE DEF F, N
    <2> QED
      BY <2>3, <2>5, <2>6, <2>7, <2>8, <2>9, <1>2, <1>7, <1>9, MessagesKept
  <1> QED
    BY <1>0, <1>13, <1>14, <1>15

-----------------------------------------------------------------------------
(* Open dependencies are cared for.                                        *)

\* Dependency n of request p is open at the running instance i, c its child.
Opens(i, p, n) ==
  /\ i \in Instance /\ state[i] = "RUNNING" /\ p \in handling[i] /\ n \in DepName
  /\ <<p, n>> \in openDeps[i]

Child(i, p, n, c) ==
  /\ p \in Id /\ n \in Deps(p) /\ c \in Id /\ reqs[p].handler = i
  /\ reqs[p].child[n] = c /\ DepOf(c) = <<p, n>> /\ ~IsUser(c)
  /\ Parent(c) = p /\ reqs[c].dep = n /\ reqs[c].requester = i
  /\ IsCurrent(c) /\ Awaited(i, c)

LEMMA OpensFacts ==
  ASSUME LifeInvariant, NEW i, NEW p, NEW n, Opens(i, p, n)
  PROVE  Cared(p, n) /\ \E c : Child(i, p, n, c)
  <1>1. TypeOK /\ Instances /\ Lineage /\ OpenIsCared
    BY LifeFacts
  <1>2. p \in Id /\ reqs[p].handler = i /\ n \in Deps(p) /\ i # None
    <2>1. p \in Id
      BY <1>1 DEF Opens, TypeOK
    <2> QED
      BY <2>1, <1>1, ArchitectureAssumption
         DEF Opens, Instances, HandlerKnown, OpenIsWaiting
  <1>3. PICK c \in Id : /\ c = reqs[p].child[n]
                        /\ DepOf(c) = <<p, n>> /\ ~IsUser(c)
    BY <1>1, <1>2 DEF Lineage, Linked
  <1>4. Parent(c) = p /\ reqs[c].dep = n
    BY <1>3 DEF DepOf, Parent
  <1>5. reqs[c].requester = i
    BY <1>1, <1>2, <1>3, <1>4 DEF Lineage, Born
  <1>6. IsCurrent(c)
    BY <1>3, <1>4 DEF IsCurrent
  <1>7. Awaited(i, c)
    BY <1>3, <1>4, <1>6 DEF Awaited, Opens
  <1>8. Child(i, p, n, c)
    BY <1>2, <1>3, <1>4, <1>5, <1>6, <1>7 DEF Child
  <1>9. Cared(p, n)
    BY <1>1 DEF Opens, OpenIsCared
  <1> QED
    BY <1>8, <1>9

\* What is cared for remains so, when the instance keeps the child c and
\* no trace of c is lost.
Keeps(p, n, c) ==
  /\ reqs'[p].child[n] = c /\ reqs'[p].handler = reqs[p].handler
  /\ Req(c) \in ToSend \cup armed \cup Failing =>
       Req(c) \in ToSend' \cup armed' \cup Failing' \/ Ans(c) \in Arriving'
  /\ Ans(c) \in Arriving => \/ Ans(c) \in Arriving'
                            \/ /\ Req(c) \in ToSend' \cup armed' \cup Failing'
                               /\ Ans(c) \notin armed' \cup Failing'
  /\ Ans(c) \in armed' \cup Failing' => \/ Ans(c) \in armed \cup Failing
                                        \/ Ans(c) \in Arriving'
  /\ \/ /\ reqs'[p].tries[n] = reqs[p].tries[n]
        /\ Req(c) \in ToSend => Req(c) \in ToSend'
     \/ reqs[p].handler \in RetryInstance => reqs'[p].tries[n] > 0

LEMMA CaredKept ==
  ASSUME NEW i, NEW p, NEW n, NEW c, Child(i, p, n, c), Cared(p, n), Keeps(p, n, c)
  PROVE  Cared(p, n)'
  <1>1. /\ reqs[p].child[n] = c
        /\ reqs'[p].child[n] = c /\ reqs'[p].handler = reqs[p].handler
    BY DEF Child, Keeps
  <1>2. Req(c) \in ToSend' \cup armed' \cup Failing' \/ Ans(c) \in Arriving'
    BY <1>1 DEF Cared, Keeps
  <1>3. Ans(c) \in armed' \cup Failing' => Ans(c) \in Arriving'
    BY <1>1 DEF Cared, Keeps
  <1>4. reqs'[p].handler \in RetryInstance => reqs'[p].tries[n] > 0 \/ Req(c) \in ToSend'
    BY <1>1 DEF Cared, Keeps
  <1> QED
    BY <1>1, <1>2, <1>3, <1>4 DEF Cared

\* No dependency is opened, and the children there are stay cared for.
KeepsAll ==
  \A i, p, n : Opens(i, p, n)' =>
    /\ Opens(i, p, n)
    /\ \A c : Child(i, p, n, c) /\ Cared(p, n) => Keeps(p, n, c)

LEMMA OpenKept ==
  ASSUME LifeInvariant, KeepsAll
  PROVE  OpenIsCared'
  <1> SUFFICES ASSUME NEW i, NEW p, NEW n, Opens(i, p, n)'
               PROVE  Cared(p, n)'
    BY DEF OpenIsCared, Opens
  <1>1. Opens(i, p, n)
    BY DEF KeepsAll
  <1>2. Cared(p, n)
    BY <1>1, OpensFacts
  <1>3. PICK c : Child(i, p, n, c)
    BY <1>1, OpensFacts
  <1>4. Keeps(p, n, c)
    BY <1>2, <1>3 DEF KeepsAll
  <1> QED
    BY <1>2, <1>3, <1>4, CaredKept

LEMMA SameMessages ==
  ASSUME TypeOK, Kin(reqs'), SameLife(reqs'), SameLinks(reqs'),
         NEW i, NEW p, NEW n, NEW c, Child(i, p, n, c), Cared(p, n),
         reqs'[p].tries[n] = reqs[p].tries[n],
         Req(c) \in ToSend => Req(c) \in ToSend',
         Req(c) \in armed \cup Failing => Req(c) \in armed' \cup Failing',
         Ans(c) \in Arriving => Ans(c) \in Arriving',
         Ans(c) \in armed' \cup Failing' => Ans(c) \in armed \cup Failing \cup Arriving'
  PROVE  Keeps(p, n, c)
  BY DEF Keeps, Child, SameLife, SameLinks

\* A failure leaves the children alone, except perhaps the one that failed.
LEMMA FailsKeeps ==
  ASSUME LifeInvariant, NEW m, Fails(m), NEW i, NEW p, NEW n, NEW c,
         Child(i, p, n, c), Cared(p, n), ~m.ans => c # m.r,
         reqs'[p].child[n] = c, reqs'[p].handler = reqs[p].handler,
         reqs'[p].tries[n] = reqs[p].tries[n], ToSend \subseteq ToSend',
         Ans(c) \in Failing' => Ans(c) \in Failing
  PROVE  Keeps(p, n, c)
  <1>1. /\ m = IF m.ans THEN Ans(m.r) ELSE Req(m.r)
        /\ Arriving' = Arriving /\ armed' = armed \ {m, Req(m.r)}
        /\ Failing \subseteq Failing' \cup {m} /\ m \in Failing
    BY DEF Fails
  <1>2. /\ Req(c).r = c /\ Ans(c).r = c /\ Req(c) # Ans(c)
        /\ Ans(m.r).r = m.r /\ Req(m.r).r = m.r /\ Ans(c).ans /\ ~Req(c).ans
    BY ReqAns
  <1>3. CASE c # m.r
    BY <1>1, <1>2, <1>3 DEF Keeps
  <1>4. CASE c = m.r /\ m.ans
    <2>1. m = Ans(c)
      BY <1>1, <1>4
    <2>2. Ans(c) \in Arriving
      BY <2>1, <1>1 DEF Cared, Child
    <2>3. Ans(c) \in Arriving'
      BY <2>2, <1>1
    <2> QED
      BY <2>3 DEF Keeps
  <1> QED
    BY <1>3, <1>4

LEMMA FailAnswerCared ==
  ASSUME LifeInvariant, NEW m, Fails(m), Quiet({}), SameTries(reqs'),
         m.ans \/ IsUser(m.r), UNCHANGED <<handling, openDeps>>
  PROVE  OpenIsCared'
  <1>1. /\ state' = state /\ SameLife(reqs') /\ SameLinks(reqs')
        /\ ToSend' = ToSend /\ Failing' \subseteq Failing
    BY DEF Fails, Quiet
  <1>2. ASSUME NEW i, NEW p, NEW n, Opens(i, p, n)' PROVE Opens(i, p, n)
    BY <1>1, <1>2 DEF Opens
  <1>3. ASSUME NEW i, NEW p, NEW n, NEW c, Child(i, p, n, c), Cared(p, n)
        PROVE  Keeps(p, n, c)
    <2>1. p \in Id /\ reqs[p].child[n] = c /\ ~IsUser(c)
      BY <1>3 DEF Child
    <2>2. /\ reqs'[p].child[n] = c /\ reqs'[p].handler = reqs[p].handler
          /\ reqs'[p].tries[n] = reqs[p].tries[n]
      BY <2>1, <1>1 DEF SameLife, SameLinks, SameTries
    <2>3. ~m.ans => c # m.r
      BY <2>1
    <2> QED
      BY <2>2, <2>3, <1>1, <1>3, FailsKeeps
  <1> QED
    BY <1>2, <1>3, OpenKept DEF KeepsAll

LEMMA IgnoreCared ==
  ASSUME LifeInvariant, NEW m, IgnoreFailure(m), Fails(m), Quiet({}), Forgets(m.r)
  PROVE  OpenIsCared'
  <1>1. /\ state' = state /\ SameLife(reqs') /\ SameLinks(reqs')
        /\ ToSend' = ToSend /\ Failing' \subseteq Failing /\ m \notin ToSend
        /\ m.r \in Id /\ m = IF m.ans THEN Ans(m.r) ELSE Req(m.r)
    BY DEF Fails, Quiet
  <1>2. ~m.ans /\ UNCHANGED <<handling, openDeps>>
    BY DEF IgnoreFailure
  <1>3. ASSUME NEW i, NEW p, NEW n, Opens(i, p, n)' PROVE Opens(i, p, n)
    BY <1>1, <1>2, <1>3 DEF Opens
  <1>4. ASSUME NEW i, NEW p, NEW n, NEW c, Child(i, p, n, c), Cared(p, n)
        PROVE  Keeps(p, n, c)
    <2>1. /\ p \in Id /\ n \in Deps(p) /\ reqs[p].child[n] = c /\ ~IsUser(c)
          /\ Awaited(i, c) /\ i = reqs[c].requester /\ IsCurrent(c)
          /\ Parent(c) = p /\ reqs[c].dep = n /\ reqs[p].handler = i
      BY <1>4 DEF Child
    <2>2. n \in DepName
      <3>1. reqs[p] \in Request
        BY <2>1, LifeFacts, ReqsType
      <3> QED
        BY <2>1, <3>1, ArchitectureAssumption DEF Deps, Request
    <2>3. c # m.r
      <3> SUFFICES ASSUME c = m.r PROVE FALSE
        OBVIOUS
      <3>1. i \in RetryInstance /\ ~Exhausted(c) /\ ~Known(c)
        BY <2>1 DEF IgnoreFailure
      <3>2. ~(reqs[p].tries[n] > 0)
        BY <2>1, <3>1 DEF Known, Tries
      <3>3. Req(c) \in ToSend
        BY <2>1, <3>1, <3>2, <1>4 DEF Cared
      <3> QED
        BY <3>3, <1>1, <1>2
    <2>4. reqs'[p].tries[n] = reqs[p].tries[n]
      <3>1. Exhausted(m.r) => ~(p = Parent(m.r) /\ n = reqs[m.r].dep)
        BY <2>1, <2>3 DEF Exhausted, Known, IsCurrent
      <3> QED
        BY <2>1, <2>2, <3>1 DEF Forgets
    <2>5. reqs'[p].child[n] = c /\ reqs'[p].handler = reqs[p].handler
      BY <2>1, <1>1 DEF SameLife, SameLinks
    <2> QED
      BY <2>3, <2>4, <2>5, <1>1, <1>4, FailsKeeps
  <1> QED
    BY <1>3, <1>4, OpenKept DEF KeepsAll

LEMMA GivesUpCared ==
  ASSUME LifeInvariant, NEW m, NEW i0, NEW p0, GivesUp(m, i0, p0)
  PROVE  OpenIsCared'
  <1>1. /\ Forgets(m.r) /\ Fails(m) /\ Quiet({Req(p0)}) /\ ~m.ans
        /\ p0 \in Id /\ i0 \in Instance /\ p0 = Parent(m.r) /\ p0 \in handling[i0]
        /\ handling' = [handling EXCEPT ![i0] = @ \ {p0}]
        /\ openDeps' = [openDeps EXCEPT ![i0] = @ \ AllDeps(p0)]
        /\ TypeOK /\ Instances
    BY LifeFacts, ReqAns DEF GivesUp
  <1>2. /\ state' = state /\ SameLife(reqs') /\ SameLinks(reqs')
        /\ ToSend' = ToSend /\ Failing' \subseteq Failing \cup {Req(p0)}
    BY <1>1 DEF Fails, Quiet
  <1>3. reqs[p0].handler = i0
    BY <1>1 DEF Instances, HandlerKnown
  <1>4. \A i \in Instance : /\ handling'[i] = IF i = i0 THEN handling[i] \ {p0} ELSE handling[i]
                            /\ openDeps'[i] \subseteq openDeps[i]
    BY <1>1 DEF TypeOK
  <1>5. ASSUME NEW i, NEW p, NEW n, Opens(i, p, n)'
        PROVE  Opens(i, p, n) /\ p # p0
    <2>1. Opens(i, p, n) /\ (i = i0 => p # p0)
      BY <1>2, <1>4, <1>5 DEF Opens
    <2>2. i # i0 => p # p0
      BY <2>1, <1>1, <1>3 DEF Opens, Instances, HandlerKnown
    <2> QED
      BY <2>1, <2>2
  <1>6. ASSUME NEW i, NEW p, NEW n, NEW c, Child(i, p, n, c), Cared(p, n), p # p0,
               n \in DepName
        PROVE  Keeps(p, n, c)
    <2>1. p \in Id /\ reqs[p].child[n] = c /\ Parent(c) = p
      BY <1>6 DEF Child
    <2>2. c # m.r
      BY <2>1, <1>1, <1>6
    <2>3. reqs'[p].tries[n] = reqs[p].tries[n]
      BY <2>1, <1>1, <1>6 DEF Forgets
    <2>4. reqs'[p].child[n] = c /\ reqs'[p].handler = reqs[p].handler
      BY <2>1, <1>2 DEF SameLife, SameLinks
    <2>5. Ans(c) \in Failing' => Ans(c) \in Failing
      BY <1>2, ReqAns
    <2> QED
      BY <2>2, <2>3, <2>4, <2>5, <1>1, <1>2, <1>6, FailsKeeps
  <1>7. \A i, p, n : Opens(i, p, n)' => n \in DepName
    BY DEF Opens
  <1> QED
    BY <1>5, <1>6, <1>7, OpenKept DEF KeepsAll

\* The dependency whose child failed has a new one, the others keep theirs.
LEMMA RepeatsCared ==
  ASSUME LifeInvariant, NEW m, NEW new, Repeats(m, new), UNCHANGED state
  PROVE  OpenIsCared'
  <1>1. /\ m = Req(m.r) /\ m.r \in Id /\ ~IsUser(m.r) /\ Retries(m.r) /\ Fails(m)
        /\ new \notin Id /\ SameLife(reqs') /\ SameTries(reqs')
        /\ \A x \in Id, y \in DepName :
             reqs'[x].child[y] = IF x = Parent(m.r) /\ y = reqs[m.r].dep
                                 THEN new ELSE reqs[x].child[y]
        /\ UNCHANGED <<handling, openDeps>>
        /\ ToSend' = ToSend \cup {Req(new)} /\ Failing' \subseteq Failing
        /\ ~m.ans /\ TypeOK
    BY ReqAns, LifeFacts DEF Repeats
  <1> SUFFICES ASSUME NEW i, NEW p, NEW n, Opens(i, p, n)'
               PROVE  Cared(p, n)'
    BY DEF OpenIsCared, Opens
  <1>2. Opens(i, p, n) /\ n \in DepName
    BY <1>1 DEF Opens
  <1>3. Cared(p, n)
    BY <1>2, OpensFacts
  <1>4. PICK c : Child(i, p, n, c)
    BY <1>2, OpensFacts
  <1>5. p \in Id /\ Parent(c) = p /\ reqs[c].dep = n /\ reqs[p].child[n] = c
    BY <1>4 DEF Child
  <1>6. reqs'[p].handler = reqs[p].handler /\ reqs'[p].tries[n] = reqs[p].tries[n]
    BY <1>1, <1>5 DEF SameLife, SameTries
  <1>7. CASE p = Parent(m.r) /\ n = reqs[m.r].dep
    <2>1. reqs'[p].child[n] = new
      BY <1>1, <1>2, <1>5, <1>7
    <2>2. Ans(new) \notin armed' \cup Failing'
      <3>1. \A x \in armed \cup Failing : x.r \in Id
        BY <1>1, MessageSets, ReqAns
      <3>2. armed' \subseteq armed
        BY <1>1 DEF Fails
      <3> QED
        BY <3>1, <3>2, <1>1, ReqAns
    <2>3. Req(new) \in ToSend'
      BY <1>1
    <2> QED
      BY <2>1, <2>2, <2>3 DEF Cared
  <1>8. CASE ~(p = Parent(m.r) /\ n = reqs[m.r].dep)
    <2>1. reqs'[p].child[n] = c /\ c # m.r
      BY <1>1, <1>2, <1>5, <1>8
    <2>2. Keeps(p, n, c)
      BY <2>1, <1>1, <1>3, <1>4, <1>6, FailsKeeps
    <2> QED
      BY <2>2, <1>3, <1>4, CaredKept
  <1> QED
    BY <1>7, <1>8

\* Steps after which the failure of at most the message m is reported, that
\* was watched until now
LEMMA QuietCared ==
  ASSUME LifeInvariant, NEW N, Quiet(N), SameTries(reqs'),
         Failing \subseteq Failing',
         \A m \in armed : m \in armed' \cup Failing',
         \A m \in N : ~m.ans \/ m \in armed \cup Failing,
         \A i, p, n : Opens(i, p, n)' => Opens(i, p, n)
  PROVE  OpenIsCared'
  <1>1. /\ SameLife(reqs') /\ SameLinks(reqs') /\ ToSend' = ToSend /\ Arriving' = Arriving
        /\ Failing' \subseteq Failing \cup N /\ armed' \subseteq armed
    BY DEF Quiet
  <1>2. ASSUME NEW i, NEW p, NEW n, NEW c, Child(i, p, n, c), Cared(p, n)
        PROVE  Keeps(p, n, c)
    <2>1. p \in Id /\ reqs[p].child[n] = c
      BY <1>2 DEF Child
    <2>2. /\ reqs'[p].child[n] = c /\ reqs'[p].handler = reqs[p].handler
          /\ reqs'[p].tries[n] = reqs[p].tries[n]
      BY <2>1, <1>1 DEF SameLife, SameLinks, SameTries
    <2>3. Ans(c) \in armed' \cup Failing' => Ans(c) \in armed \cup Failing
      BY <1>1, ReqAns
    <2> QED
      BY <2>2, <2>3, <1>1 DEF Keeps
  <1> QED
    BY <1>2, OpenKept DEF KeepsAll

LEMMA ExpiresCared ==
  ASSUME LifeInvariant, NEW m, Expires(m)
  PROVE  OpenIsCared'
  <1>1. /\ Quiet({m}) /\ reqs' = reqs /\ UNCHANGED <<state, handling, openDeps>>
        /\ Failing' = Failing \cup {m} /\ m \in armed \cup Failing
        /\ armed' = armed \/ armed' = armed \ {m}
    BY DEF Expires
  <1>2. SameTries(reqs')
    BY <1>1 DEF SameTries
  <1>3. \A i, p, n : Opens(i, p, n)' => Opens(i, p, n)
    BY <1>1 DEF Opens
  <1> QED
    BY <1>1, <1>2, <1>3, QuietCared

LEMMA BurstCared ==
  ASSUME LifeInvariant, NEW i, NEW r, BurstEnds(i, r)
  PROVE  OpenIsCared'
  <1>1. /\ Quiet({}) /\ reqs' = reqs /\ UNCHANGED <<state, handling, openDeps, armed>>
        /\ Failing' = Failing
    BY DEF BurstEnds
  <1>2. SameTries(reqs')
    BY <1>1 DEF SameTries
  <1>3. \A j, p, n : Opens(j, p, n)' => Opens(j, p, n)
    BY <1>1 DEF Opens
  <1> QED
    BY <1>1, <1>2, <1>3, QuietCared

LEMMA ShutdownStartsCared ==
  ASSUME LifeInvariant, NEW i, ShutdownStarts(i)
  PROVE  OpenIsCared'
  <1>1. /\ Quiet({}) /\ reqs' = reqs /\ UNCHANGED <<handling, openDeps, armed>>
        /\ Failing' = Failing /\ state' = [state EXCEPT ![i] = "SHUTTING_DOWN"]
        /\ state \in [Instance -> States]
    BY LifeFacts DEF ShutdownStarts, TypeOK
  <1>2. SameTries(reqs')
    BY <1>1 DEF SameTries
  <1>3. \A j \in Instance : state'[j] = "RUNNING" => state[j] = "RUNNING"
    BY <1>1
  <1>4. \A j, p, n : Opens(j, p, n)' => Opens(j, p, n)
    BY <1>1, <1>3 DEF Opens
  <1> QED
    BY <1>1, <1>2, <1>4, QuietCared

\* The instance that forgets its attempts is not running any more.
LEMMA ClearsCared ==
  ASSUME LifeInvariant, NEW i \in Instance, NEW s, s # "RUNNING",
         state' = [state EXCEPT ![i] = s], ClearsRetry(i),
         NEW N, Quiet(N), Failing \subseteq Failing', UNCHANGED <<handling, openDeps, armed>>,
         \A m \in N : ~m.ans
  PROVE  OpenIsCared'
  <1>1. /\ SameLife(reqs') /\ SameLinks(reqs') /\ ToSend' = ToSend /\ Arriving' = Arriving
        /\ Failing' \subseteq Failing \cup N
        /\ \A x \in Id, y \in DepName :
             reqs'[x].tries[y] = IF reqs[x].handler = i THEN 0 ELSE reqs[x].tries[y]
        /\ state \in [Instance -> States] /\ TypeOK
    BY LifeFacts DEF Quiet, ClearsRetry, TypeOK
  <1>2. \A j \in Instance : state'[j] = "RUNNING" => state[j] = "RUNNING" /\ j # i
    BY <1>1
  <1>3. ASSUME NEW j, NEW p, NEW n, Opens(j, p, n)'
        PROVE  Opens(j, p, n) /\ j # i /\ n \in DepName
    BY <1>2, <1>3 DEF Opens
  <1>4. ASSUME NEW j, NEW p, NEW n, NEW c, Child(j, p, n, c), Cared(p, n), j # i,
               n \in DepName
        PROVE  Keeps(p, n, c)
    <2>1. p \in Id /\ reqs[p].child[n] = c /\ reqs[p].handler = j
      BY <1>4 DEF Child
    <2>2. /\ reqs'[p].child[n] = c /\ reqs'[p].handler = reqs[p].handler
          /\ reqs'[p].tries[n] = reqs[p].tries[n]
      BY <2>1, <1>1, <1>4 DEF SameLife, SameLinks
    <2>3. Ans(c) \in armed' \cup Failing' => Ans(c) \in armed \cup Failing
      BY <1>1, ReqAns
    <2> QED
      BY <2>2, <2>3, <1>1 DEF Keeps
  <1> QED
    BY <1>3, <1>4, OpenKept DEF KeepsAll

LEMMA DiesCared ==
  ASSUME LifeInvariant, NEW i, NEW ids, Dies(i, ids)
  PROVE  OpenIsCared'
  <1>1. \A m \in {Req(r) : r \in handling[i]} : ~m.ans
    BY ReqAns
  <1> QED
    BY <1>1, ClearsCared DEF Dies

LEMMA ShutdownEndsCared ==
  ASSUME LifeInvariant, NEW i, ShutdownEnds(i)
  PROVE  OpenIsCared'
  BY ClearsCared DEF ShutdownEnds

LEMMA AsksCared ==
  ASSUME LifeInvariant, NEW new, Asks(new)
  PROVE  OpenIsCared'
  <1>1. /\ SameLife(reqs') /\ SameLinks(reqs') /\ SameTries(reqs')
        /\ UNCHANGED <<state, handling, openDeps, armed>>
        /\ ToSend \subseteq ToSend' /\ Arriving' = Arriving /\ Failing' = Failing
    BY DEF Asks
  <1>2. ASSUME NEW i, NEW p, NEW n, NEW c, Child(i, p, n, c), Cared(p, n)
        PROVE  Keeps(p, n, c)
    <2>1. p \in Id /\ reqs[p].child[n] = c
      BY <1>2 DEF Child
    <2>2. /\ reqs'[p].child[n] = c /\ reqs'[p].handler = reqs[p].handler
          /\ reqs'[p].tries[n] = reqs[p].tries[n]
      BY <2>1, <1>1 DEF SameLife, SameLinks, SameTries
    <2> QED
      BY <2>2, <1>1 DEF Keeps
  <1>3. \A j, p, n : Opens(j, p, n)' => Opens(j, p, n)
    BY <1>1 DEF Opens
  <1> QED
    BY <1>2, <1>3, OpenKept DEF KeepsAll

LEMMA ComputesCared ==
  ASSUME LifeInvariant, NEW r, NEW i, Computes(r, i)
  PROVE  OpenIsCared'
  <1>1. /\ SameLinks(reqs') /\ SameTries(reqs') /\ UNCHANGED <<state, openDeps, armed>>
        /\ \A x \in Id : reqs'[x].handler = reqs[x].handler
        /\ handling' = [handling EXCEPT ![i] = @ \ {r}]
        /\ ToSend \subseteq ToSend' /\ Arriving' = Arriving /\ Failing' = Failing
        /\ TypeOK
    BY LifeFacts DEF Computes
  <1>2. ASSUME NEW j, NEW p, NEW n, NEW c, Child(j, p, n, c), Cared(p, n)
        PROVE  Keeps(p, n, c)
    <2>1. p \in Id /\ reqs[p].child[n] = c
      BY <1>2 DEF Child
    <2>2. /\ reqs'[p].child[n] = c /\ reqs'[p].handler = reqs[p].handler
          /\ reqs'[p].tries[n] = reqs[p].tries[n]
      BY <2>1, <1>1 DEF SameLinks, SameTries
    <2> QED
      BY <2>2, <1>1 DEF Keeps
  <1>3. \A j \in Instance : handling'[j] \subseteq handling[j]
    BY <1>1 DEF TypeOK
  <1>4. \A j, p, n : Opens(j, p, n)' => Opens(j, p, n)
    BY <1>1, <1>3 DEF Opens
  <1> QED
    BY <1>2, <1>4, OpenKept DEF KeepsAll

LEMMA CanceledCared ==
  ASSUME LifeInvariant,
         UNCHANGED <<reqs, state, handling, openDeps, armed>>,
         ToSend' = ToSend, Arriving' = Arriving, Failing' = Failing
  PROVE  OpenIsCared'
  BY LifeFacts DEF OpenIsCared, Cared

\* What sending m does
Departs(m) ==
  /\ m \in Message /\ m \in ToSend /\ m \notin Heard
  /\ Len(reqs') = Len(reqs)
  /\ Kin(reqs') /\ SameLife(reqs') /\ SameLinks(reqs')
  /\ UNCHANGED <<state, handling, openDeps, notComputed, waiting, cpu, finishing>>
  /\ ToSend' = ToSend \ {m}
  /\ armed \subseteq armed' /\ armed' \subseteq armed \cup {m}
  /\ Failing \subseteq Failing' /\ Failing' \subseteq Failing \cup {m}
  /\ Arriving \subseteq Arriving' /\ Arriving' \subseteq Arriving \cup {m}
  /\ \/ ~m.ans /\ reqs[m.r].requester \in RetryInstance
     \/ SameTries(reqs')
  /\ \A x \in Id, y \in DepName :
       reqs'[x].tries[y] =
         IF /\ ~m.ans /\ reqs[m.r].requester \in RetryInstance
            /\ x = Parent(m.r) /\ y = reqs[m.r].dep
         THEN reqs[x].tries[y] + 1 ELSE reqs[x].tries[y]
  /\ \/ /\ m.ans /\ IsUser(m.r) /\ urgent' = urgent /\ Arriving' = Arriving
        /\ reqs' = [reqs EXCEPT ![m.r].succeeded = @ + 1]
     \/ /\ ~m.ans /\ IsUser(m.r) /\ SameCounts(reqs') /\ urgent' = urgent
     \/ /\ ~m.ans /\ IsUser(m.r) /\ SameCounts(reqs') /\ Arriving' = Arriving
        /\ urgent' = Append(urgent, Cancel(m, "NO_INSTANCE_AVAILABLE"))
     \/ /\ ~IsUser(m.r) /\ SameCounts(reqs') /\ urgent' = urgent
        /\ IF m.ans THEN m \in Arriving' ELSE m \in armed' \cup Failing'
     \* a circuit breaker stops it
     \/ /\ ~m.ans /\ ~IsUser(m.r) /\ SameCounts(reqs') /\ m \in Failing'
        /\ \E c \in Cancellation : c.m = m /\ urgent' = Append(urgent, c)

\* The part of it that the Retry pattern notices
Leaves(m) ==
  /\ m \in Message /\ m \in ToSend /\ ToSend' = ToSend \ {m}
  /\ Len(reqs') = Len(reqs) /\ Kin(reqs') /\ SameLife(reqs') /\ state' = state
  /\ (~m.ans \/ SameTries(reqs'))
  /\ \A x \in Id, y \in DepName :
       reqs'[x].tries[y] =
         IF /\ ~m.ans /\ reqs[m.r].requester \in RetryInstance
            /\ x = Parent(m.r) /\ y = reqs[m.r].dep
         THEN reqs[x].tries[y] + 1 ELSE reqs[x].tries[y]

LEMMA SendsMessage ==
  ASSUME LifeInvariant, TypeOK', NEW e, NEW q, NEW f, Taken(e, q, f),
         e.type = "send", Send(e.m, q, f)
  PROVE  Departs(e.m) /\ Lineage' /\ Messages'
  <1>1. Departs(e.m)
    BY SendEffects DEF Departs
  <1> QED
    BY <1>1, SendMessages

LEMMA SendsCared ==
  ASSUME LifeInvariant, NEW m, Departs(m)
  PROVE  OpenIsCared'
  <1>1. /\ m \in Message /\ m.r \in Id /\ m = IF m.ans THEN Ans(m.r) ELSE Req(m.r)
        /\ SameLife(reqs') /\ SameLinks(reqs') /\ UNCHANGED <<state, handling, openDeps>>
        /\ ToSend' = ToSend \ {m} /\ armed \subseteq armed' /\ armed' \subseteq armed \cup {m}
        /\ Failing \subseteq Failing' /\ Failing' \subseteq Failing \cup {m}
        /\ Arriving \subseteq Arriving' /\ TypeOK
    BY ReqAns, LifeFacts DEF Departs
  <1>2. ~IsUser(m.r) => IF m.ans THEN m \in Arriving' ELSE m \in armed' \cup Failing'
    BY DEF Departs
  <1>3. \A x \in Id, y \in DepName :
          reqs'[x].tries[y] =
            IF /\ ~m.ans /\ reqs[m.r].requester \in RetryInstance
               /\ x = Parent(m.r) /\ y = reqs[m.r].dep
            THEN reqs[x].tries[y] + 1 ELSE reqs[x].tries[y]
    BY DEF Departs
  <1>4. ASSUME NEW i, NEW p, NEW n \in DepName, NEW c, Child(i, p, n, c), Cared(p, n)
        PROVE  Keeps(p, n, c)
    <2>1. /\ p \in Id /\ c \in Id /\ reqs[p].child[n] = c /\ ~IsUser(c) /\ Parent(c) = p
          /\ reqs[c].dep = n /\ reqs[c].requester = i /\ reqs[p].handler = i
      BY <1>4 DEF Child
    <2>2. reqs'[p].child[n] = c /\ reqs'[p].handler = reqs[p].handler
      BY <2>1, <1>1 DEF SameLife, SameLinks
    <2>3. reqs[p].tries[n] \in Nat
      BY <2>1, <1>1, ReqsType DEF Request
    <2>4. Req(c).r = c /\ Ans(c).r = c /\ Ans(c).ans /\ ~Req(c).ans /\ Req(c) # Ans(c)
      BY ReqAns
    <2>5. \/ /\ reqs'[p].tries[n] = reqs[p].tries[n]
             /\ Req(c) \in ToSend => Req(c) \in ToSend'
          \/ reqs[p].handler \in RetryInstance => reqs'[p].tries[n] > 0
      <3>1. CASE /\ ~m.ans /\ reqs[m.r].requester \in RetryInstance
                 /\ p = Parent(m.r) /\ n = reqs[m.r].dep
        <4>1. reqs'[p].tries[n] = reqs[p].tries[n] + 1
          BY <3>1, <2>1, <1>3
        <4> QED
          BY <4>1, <2>3
      <3>2. CASE ~(/\ ~m.ans /\ reqs[m.r].requester \in RetryInstance
                   /\ p = Parent(m.r) /\ n = reqs[m.r].dep)
        <4>1. reqs'[p].tries[n] = reqs[p].tries[n]
          BY <3>2, <2>1, <1>3
        <4>2. m = Req(c) => reqs[p].handler \notin RetryInstance
          BY <3>2, <2>1, <2>4
        <4> QED
          BY <4>1, <4>2, <1>1
      <3> QED
        BY <3>1, <3>2
    <2>6. Req(c) \in ToSend \cup armed \cup Failing =>
            Req(c) \in ToSend' \cup armed' \cup Failing'
      BY <2>1, <2>4, <1>1, <1>2
    <2>7. Ans(c) \in armed' \cup Failing' => Ans(c) \in armed \cup Failing \cup Arriving'
      BY <2>1, <2>4, <1>1, <1>2
    <2> QED
      BY <2>2, <2>5, <2>6, <2>7, <1>1 DEF Keeps
  <1>5. ASSUME NEW i, NEW p, NEW n, Opens(i, p, n)'
        PROVE  Opens(i, p, n) /\ n \in DepName
    BY <1>1, <1>5 DEF Opens
  <1> QED
    BY <1>4, <1>5, OpenKept DEF KeepsAll

\* What refusing m at instance i does
Refuses(m, i) ==
  /\ m \in Message /\ m.r \in Id /\ i \in Instance
  /\ UNCHANGED <<reqs, state, handling, notComputed, waiting, cpu, finishing, armed>>
  /\ ToSend' = ToSend /\ Failing' = Failing \cup {m}
  /\ ~m.ans => m \notin Arriving'
  /\ Arriving' \subseteq Arriving /\ Arriving \subseteq Arriving' \cup {m}
  /\ urgent' = Append(urgent, Cancel(m, "HANDLING_INSTANCE_DIED"))
  /\ m \in Arriving
  /\ m.ans => i = reqs[m.r].requester /\ ~IsUser(m.r)
  /\ openDeps' = IF CanHandle(i, m)
                 THEN [openDeps EXCEPT ![i] = @ \ {DepOf(m.r)}]
                 ELSE openDeps

LEMMA RefusesMessage ==
  ASSUME LifeInvariant, TypeOK', NEW e, NEW q, NEW f, Taken(e, q, f),
         e.type = "receive", Refuse(e.m, e.i, q), flight' = f,
         UNCHANGED <<state, finishing>>
  PROVE  Refuses(e.m, e.i) /\ Lineage' /\ Messages'
  BY RefuseEffects DEF Refuses

LEMMA RefusesCared ==
  ASSUME LifeInvariant, NEW m, NEW i0, Refuses(m, i0)
  PROVE  OpenIsCared'
  <1>1. /\ m \in Message /\ m.r \in Id /\ i0 \in Instance
        /\ m = IF m.ans THEN Ans(m.r) ELSE Req(m.r)
        /\ UNCHANGED <<reqs, state, handling, armed>>
        /\ ToSend' = ToSend /\ Failing' = Failing \cup {m}
        /\ Arriving' \subseteq Arriving /\ Arriving \subseteq Arriving' \cup {m}
        /\ m \in Arriving /\ (m.ans => i0 = reqs[m.r].requester)
        /\ openDeps' = IF CanHandle(i0, m)
                       THEN [openDeps EXCEPT ![i0] = @ \ {DepOf(m.r)}]
                       ELSE openDeps
        /\ TypeOK
    BY ReqAns, LifeFacts DEF Refuses
  <1>2. \A i \in Instance : openDeps'[i] \subseteq openDeps[i]
    BY <1>1 DEF TypeOK
  <1>3. ASSUME NEW i, NEW p, NEW n, Opens(i, p, n)' PROVE Opens(i, p, n)
    BY <1>1, <1>2, <1>3 DEF Opens
  <1>4. ASSUME NEW i, NEW p, NEW n, NEW c, Opens(i, p, n)', Child(i, p, n, c), Cared(p, n)
        PROVE  Keeps(p, n, c)
    <2>1. /\ p \in Id /\ c \in Id /\ reqs[p].child[n] = c /\ DepOf(c) = <<p, n>>
          /\ reqs[c].requester = i
      BY <1>4 DEF Child
    <2>2. Req(c).r = c /\ Ans(c).r = c /\ Ans(c).ans /\ ~Req(c).ans /\ Req(c) # Ans(c)
      BY ReqAns
    <2>3. m # Ans(c)
      <3> SUFFICES ASSUME m = Ans(c) PROVE FALSE
        OBVIOUS
      <3>1. i0 = i /\ m.r = c
        BY <2>1, <2>2, <1>1
      <3>2. CanHandle(i0, m)
        BY <3>1, <1>1, <1>4 DEF CanHandle, Opens
      <3>3. <<p, n>> \notin openDeps'[i]
        BY <3>1, <3>2, <2>1, <1>1 DEF TypeOK
      <3> QED
        BY <3>3, <1>4 DEF Opens
    <2> QED
      BY <2>1, <2>2, <2>3, <1>1 DEF Keeps
  <1> QED
    BY <1>3, <1>4, OpenKept DEF KeepsAll

\* When request r arrives, no other request loses a child.
LEMMA BeginsKeeps ==
  ASSUME LifeInvariant, NEW r, NEW i0, Begins(r, i0), ToSend \subseteq ToSend',
         NEW i, NEW p, NEW n, p # r, NEW c, Child(i, p, n, c), Cared(p, n)
  PROVE  Keeps(p, n, c)
  <1>1. p \in Id /\ c \in Id /\ reqs[p].child[n] = c
    BY DEF Child
  <1>2. /\ SameTries(reqs') /\ armed' = armed /\ Failing' = Failing
        /\ reqs'[p].handler = reqs[p].handler /\ reqs'[p].child = reqs[p].child
        /\ \A m \in Arriving : m # Req(r) => m \in Arriving'
    BY <1>1 DEF Begins
  <1>3. Ans(c) # Req(r)
    BY ReqAns
  <1> QED
    BY <1>1, <1>2, <1>3 DEF Keeps, SameTries

LEMMA LeafCared ==
  ASSUME LifeInvariant, NEW r, NEW i0, BeginsLeaf(r, i0)
  PROVE  OpenIsCared'
  <1>1. /\ Begins(r, i0) /\ state' = state /\ openDeps' = openDeps /\ ToSend' = ToSend
        /\ handling' = [handling EXCEPT ![i0] = @ \cup {r}] /\ i0 \in Instance /\ r \in Id
        /\ \A j \in Instance : r \notin handling[j]
    BY DEF BeginsLeaf, Begins
  <1>2. TypeOK /\ Instances
    BY LifeFacts
  <1>3. ASSUME NEW i, NEW p, NEW n, Opens(i, p, n)'
        PROVE  Opens(i, p, n) /\ p # r
    <2>1. /\ i \in Instance /\ <<p, n>> \in openDeps[i] /\ p \in handling'[i]
          /\ n \in DepName /\ state[i] = "RUNNING"
      BY <1>1, <1>3 DEF Opens
    <2>2. p \in Id
      BY <2>1, <1>2 DEF TypeOK
    <2>3. p \in handling[i]
      BY <2>1, <2>2, <1>2 DEF Instances, OpenIsWaiting
    <2> QED
      BY <2>1, <2>3, <1>1 DEF Opens
  <1>4. \A i, p, n, c : p # r /\ Child(i, p, n, c) /\ Cared(p, n) => Keeps(p, n, c)
    BY <1>1, BeginsKeeps
  <1> QED
    BY <1>3, <1>4, OpenKept DEF KeepsAll

LEMMA CompositeCared ==
  ASSUME LifeInvariant, NEW r, NEW i0, BeginsComposite(r, i0)
  PROVE  OpenIsCared'
  <1>1. /\ Begins(r, i0) /\ state' = state
        /\ openDeps' = [openDeps EXCEPT ![i0] = @ \cup AllDeps(r)]
        /\ handling' = [handling EXCEPT ![i0] = @ \cup {r}] /\ i0 \in Instance /\ r \in Id
        /\ \A j \in Instance : r \notin handling[j]
        /\ ToSend' = ToSend \cup {Req(c) : c \in Id' \ Id}
        /\ \A n \in Deps(r) : reqs'[r].child[n] \in Id' \ Id
        /\ armed' = armed /\ Failing' = Failing
    BY DEF BeginsComposite, Begins
  <1>2. TypeOK /\ Instances
    BY LifeFacts
  <1>3. ASSUME NEW i, NEW p, NEW n, Opens(i, p, n)'
        PROVE  IF p = r THEN n \in Deps(r) ELSE Opens(i, p, n)
    <2>1. /\ i \in Instance /\ <<p, n>> \in openDeps'[i] /\ p \in handling'[i]
          /\ n \in DepName /\ state[i] = "RUNNING"
      BY <1>1, <1>3 DEF Opens
    <2>2. p = r => <<p, n>> \notin openDeps[i]
      BY <2>1, <1>1, <1>2 DEF Instances, OpenIsWaiting
    <2>3. openDeps'[i] \subseteq openDeps[i] \cup AllDeps(r)
      BY <2>1, <1>1, <1>2 DEF TypeOK
    <2>4. CASE p = r
      BY <2>1, <2>2, <2>3, <2>4 DEF AllDeps
    <2>5. CASE p # r
      <3>1. p \in handling[i] /\ <<p, n>> \in openDeps[i]
        BY <2>1, <2>3, <2>5, <1>1, <1>2 DEF TypeOK, AllDeps
      <3> QED
        BY <3>1, <2>1, <2>5 DEF Opens
    <2> QED
      BY <2>4, <2>5
  <1> SUFFICES ASSUME NEW i, NEW p, NEW n, Opens(i, p, n)'
               PROVE  Cared(p, n)'
    BY DEF OpenIsCared, Opens
  <1>4. CASE p = r
    <2>1. n \in Deps(r)
      BY <1>3, <1>4
    <2>2. PICK c \in Id' \ Id : reqs'[p].child[n] = c
      BY <2>1, <1>1, <1>4
    <2>3. Req(c) \in ToSend'
      BY <1>1
    <2>4. Ans(c) \notin armed' \cup Failing'
      <3>1. \A x \in armed \cup Failing : x.r \in Id
        BY <1>2, MessageSets, ReqAns
      <3> QED
        BY <3>1, <1>1, ReqAns
    <2> QED
      BY <2>2, <2>3, <2>4 DEF Cared
  <1>5. CASE p # r
    <2>1. Opens(i, p, n)
      BY <1>3, <1>5
    <2>2. Cared(p, n)
      BY <2>1, OpensFacts
    <2>3. PICK c : Child(i, p, n, c)
      BY <2>1, OpensFacts
    <2>4. Keeps(p, n, c)
      BY <2>2, <2>3, <1>1, <1>5, BeginsKeeps
    <2> QED
      BY <2>2, <2>3, <2>4, CaredKept
  <1> QED
    BY <1>4, <1>5

LEMMA ClosesCared ==
  ASSUME LifeInvariant, NEW m, NEW i0, NEW p0, NEW n0, Closes(m, i0, p0, n0)
  PROVE  OpenIsCared'
  <1>1. /\ m = Ans(m.r) /\ i0 \in Instance /\ p0 \in handling[i0]
        /\ DepOf(m.r) = <<p0, n0>> /\ SameLinks(reqs')
        /\ \A x \in Id : reqs'[x].handler = reqs[x].handler
        /\ \A x \in Id, y \in DepName :
             reqs'[x].tries[y] = IF x = p0 /\ y = n0 THEN 0 ELSE reqs[x].tries[y]
        /\ UNCHANGED <<state, handling>>
        /\ openDeps' = [openDeps EXCEPT ![i0] = @ \ {<<p0, n0>>}]
        /\ ToSend' = ToSend /\ Failing' = Failing /\ armed' = armed \ {m, Req(m.r)}
        /\ Arriving \subseteq Arriving' \cup {m}
        /\ TypeOK /\ Instances
    BY LifeFacts DEF Closes
  <1>2. ASSUME NEW i, NEW p, NEW n, Opens(i, p, n)'
        PROVE  Opens(i, p, n) /\ <<p, n>> # <<p0, n0>> /\ n \in DepName
    <2>1. /\ i \in Instance /\ <<p, n>> \in openDeps'[i] /\ p \in handling[i]
          /\ n \in DepName /\ state[i] = "RUNNING"
      BY <1>1, <1>2 DEF Opens
    <2>2. openDeps'[i] \subseteq openDeps[i]
      BY <2>1, <1>1 DEF TypeOK
    <2>3. <<p, n>> = <<p0, n0>> => i = i0
      BY <2>1, <1>1 DEF Instances, HandlerKnown
    <2>4. <<p, n>> # <<p0, n0>>
      BY <2>1, <2>3, <1>1 DEF TypeOK
    <2> QED
      BY <2>1, <2>2, <2>4 DEF Opens
  <1>3. ASSUME NEW i, NEW p, NEW n \in DepName, NEW c, Child(i, p, n, c), Cared(p, n),
               <<p, n>> # <<p0, n0>>
        PROVE  Keeps(p, n, c)
    <2>1. p \in Id /\ c \in Id /\ reqs[p].child[n] = c /\ DepOf(c) = <<p, n>>
      BY <1>3 DEF Child
    <2>2. c # m.r
      BY <2>1, <1>1, <1>3
    <2>3. reqs'[p].tries[n] = reqs[p].tries[n]
      BY <2>1, <1>1, <1>3
    <2>4. reqs'[p].child[n] = c /\ reqs'[p].handler = reqs[p].handler
      BY <2>1, <1>1 DEF SameLinks
    <2>5. {Req(c), Ans(c)} \cap {m, Req(m.r)} = {}
      BY <2>2, <1>1, ReqAns
    <2> QED
      BY <2>3, <2>4, <2>5, <1>1 DEF Keeps
  <1> QED
    BY <1>2, <1>3, OpenKept DEF KeepsAll

-----------------------------------------------------------------------------
(* Retry remembers the attempts.                                           *)

\* Is a request for dependency n of p about to be sent?
Pending(p, n) == \E c \in Attempts(p, n) : Req(c) \in ToSend

\* The numbers of a dependency are natural numbers.
LEMMA AttemptNumbers ==
  ASSUME TypeOK, NEW p \in Id, NEW n \in DepName
  PROVE  /\ IsFiniteSet(Attempts(p, n)) /\ Cardinality(Attempts(p, n)) \in Nat
         /\ reqs[p].tries[n] \in Nat /\ Remembered(p, n) \in Nat
         /\ Remembered(p, n) = reqs[p].tries[n] + IF Pending(p, n) THEN 1 ELSE 0
         /\ reqs[p].handler \in Instance \cup {None}
  <1>1. IsFiniteSet(Id)
    BY ReqsType, FS_Interval DEF Id
  <1>2. Attempts(p, n) \subseteq Id
    BY DEF Attempts
  <1>3. IsFiniteSet(Attempts(p, n)) /\ Cardinality(Attempts(p, n)) \in Nat
    BY <1>1, <1>2, FS_Subset, FS_CardinalityType
  <1>4. reqs[p].tries[n] \in Nat /\ reqs[p].handler \in Instance \cup {None}
    BY ReqsType DEF Request
  <1>5. Remembered(p, n) = reqs[p].tries[n] + IF Pending(p, n) THEN 1 ELSE 0
    BY DEF Remembered, Pending
  <1> QED
    BY <1>3, <1>4, <1>5

\* What is left alone still fits, also when the handler stops.
LEMMA FitsStopped ==
  ASSUME NEW h, NEW a \in BOOLEAN, NEW b \in BOOLEAN, b => a,
         NEW tried \in Nat, NEW tries \in Nat, NEW known \in Nat,
         Fits(h, a, tried, tries, known)
  PROVE  Fits(h, b, tried, tries, known)
  BY BoundAssumption DEF Fits

\* An index may forget a dependency that has no request to be sent.
LEMMA FitsForgotten ==
  ASSUME NEW h \in Instance, NEW a \in BOOLEAN,
         NEW tried \in Nat, NEW tries \in Nat, NEW known \in Nat,
         Fits(h, a, tried, tries, known)
  PROVE  Fits(h, a, tried, 0, 0)
  BY BoundAssumption, ArchitectureAssumption DEF Fits

\* Dependency n of request p is not concerned.
LEMMA CountedSame ==
  ASSUME TypeOK, TypeOK', NEW p \in Id, NEW n \in DepName, Counted(p, n), p \in Id',
         Attempts(p, n)' = Attempts(p, n),
         reqs'[p].handler = reqs[p].handler, reqs'[p].tries[n] = reqs[p].tries[n],
         \A c \in Attempts(p, n) : Req(c) \in ToSend' <=> Req(c) \in ToSend,
         \A i \in Instance : Live(i)' => Live(i)
  PROVE  Counted(p, n)'
  <1> DEFINE h == reqs[p].handler
  <1>1. Pending(p, n)' <=> Pending(p, n)
    BY DEF Pending
  <1>2. Remembered(p, n)' = Remembered(p, n)
    <2>1. Remembered(p, n)' = reqs'[p].tries[n] + IF Pending(p, n)' THEN 1 ELSE 0
      BY DEF Remembered, Pending
    <2>2. Remembered(p, n) = reqs[p].tries[n] + IF Pending(p, n) THEN 1 ELSE 0
      BY DEF Remembered, Pending
    <2> QED
      BY <2>1, <2>2, <1>1
  <1>3. /\ Cardinality(Attempts(p, n)) \in Nat /\ reqs[p].tries[n] \in Nat
        /\ Remembered(p, n) \in Nat /\ h \in Instance \cup {None}
    BY AttemptNumbers
  <1>4. PICK k : k = h
    OBVIOUS
  <1>5. PICK tried \in Nat, tries \in Nat, known \in Nat :
          /\ tried = Cardinality(Attempts(p, n)) /\ tries = reqs[p].tries[n]
          /\ known = Remembered(p, n)
    BY <1>3
  <1>6. PICK a \in BOOLEAN, b \in BOOLEAN :
          (a <=> Live(k)) /\ (b <=> state'[k] \in {"RUNNING", "SHUTTING_DOWN"})
    OBVIOUS
  <1>7. Fits(k, a, tried, tries, known)
    BY <1>4, <1>5, <1>6 DEF Counted, Fits
  <1>8. Fits(k, b, tried, tries, known)
    <2>1. CASE k = None
      BY <2>1, <1>7, ArchitectureAssumption DEF Fits
    <2>2. CASE k \in Instance
      <3>1. b => a
        BY <2>2, <1>6 DEF Live
      <3> QED
        BY <3>1, <1>7, FitsStopped
    <2> QED
      BY <2>1, <2>2, <1>3, <1>4
  <1>9. Counted(p, n)' <=> Fits(k, b, tried, tries, known)
    BY <1>2, <1>4, <1>5, <1>6 DEF Counted, Fits, Live
  <1> QED
    BY <1>8, <1>9

\* No request is created.
LEMMA SameAttempts ==
  ASSUME TypeOK, Kin(reqs'), Len(reqs') = Len(reqs)
  PROVE  /\ Id' = Id /\ \A p, n : Attempts(p, n)' = Attempts(p, n)
  BY DEF Kin, Attempts, Id, Parent

\* Steps that neither create nor send a request
LEMMA AttemptsKept ==
  ASSUME LifeInvariant, TypeOK', Kin(reqs'), Len(reqs') = Len(reqs), SameTries(reqs'),
         \A x \in Id : reqs'[x].handler = reqs[x].handler,
         \A c \in Id : Req(c) \in ToSend' <=> Req(c) \in ToSend,
         \A i \in Instance : Live(i)' => Live(i)
  PROVE  AttemptsRemembered'
  <1>1. TypeOK /\ \A p \in Id, n \in DepName : Counted(p, n)
    BY LifeFacts DEF AttemptsRemembered
  <1>2. Id' = Id /\ \A p, n : Attempts(p, n)' = Attempts(p, n)
    BY <1>1, SameAttempts
  <1>3. ASSUME NEW p \in Id, NEW n \in DepName PROVE Counted(p, n)'
    <2>1. Attempts(p, n) \subseteq Id
      BY DEF Attempts
    <2> QED
      BY <2>1, <1>1, <1>2, CountedSame DEF SameTries
  <1> QED
    BY <1>2, <1>3 DEF AttemptsRemembered

\* The numbers that a dependency has, and will have
LEMMA NumbersOf ==
  ASSUME LifeInvariant, NEW p \in Id, NEW n \in DepName
  PROVE  \E h \in Instance \cup {None}, a \in BOOLEAN, tried \in Nat, tries \in Nat, known \in Nat :
           /\ Fits(h, a, tried, tries, known)
           /\ h = reqs[p].handler /\ (a <=> Live(h))
           /\ tried = Cardinality(Attempts(p, n)) /\ tries = reqs[p].tries[n]
           /\ known = tries + IF Pending(p, n) THEN 1 ELSE 0
  <1>1. TypeOK /\ Counted(p, n)
    BY LifeFacts DEF AttemptsRemembered
  <1>2. PICK h \in Instance \cup {None}, tried \in Nat, tries \in Nat, known \in Nat :
           /\ h = reqs[p].handler
           /\ tried = Cardinality(Attempts(p, n)) /\ tries = reqs[p].tries[n]
           /\ known = Remembered(p, n)
    BY <1>1, AttemptNumbers
  <1>3. PICK a \in BOOLEAN : a <=> Live(h)
    OBVIOUS
  <1>4. Fits(h, a, tried, tries, known)
    BY <1>1, <1>2, <1>3 DEF Counted, Fits
  <1>5. known = tries + IF Pending(p, n) THEN 1 ELSE 0
    BY <1>1, <1>2, AttemptNumbers
  <1> QED
    BY <1>2, <1>3, <1>4, <1>5

LEMMA NumbersFit ==
  ASSUME NEW p, NEW n, NEW h, NEW a \in BOOLEAN, NEW tried, NEW tries, NEW known,
         Fits(h, a, tried, tries, known),
         h = reqs'[p].handler, a <=> state'[h] \in {"RUNNING", "SHUTTING_DOWN"},
         tried = Cardinality(Attempts(p, n)'), tries = reqs'[p].tries[n],
         known = tries + IF Pending(p, n)' THEN 1 ELSE 0
  PROVE  Counted(p, n)'
  <1>1. Remembered(p, n)' = known
    BY DEF Remembered, Pending
  <1> QED
    BY <1>1 DEF Counted, Fits, Live

\* A request to be sent is the current child of its dependency.
LEMMA PendingIsCurrent ==
  ASSUME LifeInvariant, NEW p \in Id, NEW n, NEW c \in Attempts(p, n), Req(c) \in ToSend
  PROVE  reqs[p].child[n] = c /\ ~IsUser(c)
  <1>1. c \in Id /\ Parent(c) = p /\ reqs[c].dep = n /\ TypeOK
    BY LifeFacts DEF Attempts
  <1>2. p # 0
    BY <1>1, ReqsType DEF Id
  <1>3. ~IsUser(c)
    BY <1>1, <1>2, LifeFacts DEF Born, Parent
  <1>4. IsCurrent(c)
    BY <1>3, LifeFacts, ReqAns DEF Messages, ToSendIsUnknown
  <1> QED
    BY <1>1, <1>3, <1>4 DEF IsCurrent

\* A request that is sent is counted from now on.
LEMMA FitsSent ==
  ASSUME NEW h \in Instance, NEW a \in BOOLEAN, NEW tried \in Nat, NEW tries \in Nat,
         Fits(h, a, tried, tries, tries + 1)
  PROVE  IF h \in RetryInstance THEN Fits(h, a, tried, tries + 1, tries + 1)
                                ELSE Fits(h, a, tried, tries, tries)
  BY BoundAssumption, ArchitectureAssumption DEF Fits

LEMMA SendsAttempts ==
  ASSUME LifeInvariant, TypeOK', NEW m, Leaves(m)
  PROVE  AttemptsRemembered'
  <1>1. /\ m \in Message /\ m.r \in Id /\ m = IF m.ans THEN Ans(m.r) ELSE Req(m.r)
        /\ Len(reqs') = Len(reqs) /\ Kin(reqs') /\ SameLife(reqs')
        /\ state' = state /\ m \in ToSend /\ ToSend' = ToSend \ {m}
        /\ (~m.ans \/ SameTries(reqs'))
        /\ \A x \in Id, y \in DepName :
              reqs'[x].tries[y] =
                IF /\ ~m.ans /\ reqs[m.r].requester \in RetryInstance
                   /\ x = Parent(m.r) /\ y = reqs[m.r].dep
                THEN reqs[x].tries[y] + 1 ELSE reqs[x].tries[y]
        /\ TypeOK /\ Lineage /\ \A p \in Id, n \in DepName : Counted(p, n)
    BY ReqAns, LifeFacts DEF Leaves, AttemptsRemembered
  <1>2. Id' = Id /\ \A p, n : Attempts(p, n)' = Attempts(p, n)
    BY <1>1, SameAttempts
  <1>3. \A i : Live(i)' => Live(i)
    BY <1>1 DEF Live
  <1>4. \A c : Req(c) # Ans(m.r) /\ (Req(c) = Req(m.r) => c = m.r)
    BY ReqAns
  <1>5. CASE m.ans
    BY <1>1, <1>3, <1>4, <1>5, AttemptsKept DEF SameLife
  <1>6. CASE ~m.ans
    <2>1. ASSUME NEW p \in Id, NEW n \in DepName, m.r \notin Attempts(p, n)
          PROVE  Counted(p, n)'
      <3>1. reqs'[p].tries[n] = reqs[p].tries[n]
        BY <2>1, <1>1 DEF Attempts
      <3>2. \A c \in Attempts(p, n) : Req(c) \in ToSend' <=> Req(c) \in ToSend
        BY <2>1, <1>1, <1>4
      <3> QED
        BY <3>1, <3>2, <1>1, <1>2, <1>3, CountedSame DEF SameLife
    <2>2. ASSUME NEW p \in Id, NEW n \in DepName, m.r \in Attempts(p, n)
          PROVE  Counted(p, n)'
      <3>1. p = Parent(m.r) /\ n = reqs[m.r].dep
        BY <2>2 DEF Attempts
      <3>2. Pending(p, n)
        BY <2>2, <1>1, <1>6 DEF Pending
      <3>3. ~Pending(p, n)'
        <4> SUFFICES ASSUME NEW c \in Attempts(p, n), Req(c) \in ToSend' PROVE FALSE
          BY <1>2 DEF Pending
        <4>1. reqs[p].child[n] = c
          BY <1>1, PendingIsCurrent
        <4>2. reqs[p].child[n] = m.r
          BY <2>2, <1>1, <1>6, PendingIsCurrent
        <4> QED
          BY <4>1, <4>2, <1>1, <1>6
      <3>4. PICK h \in Instance \cup {None}, a \in BOOLEAN, tried \in Nat, tries \in Nat, known \in Nat :
              /\ Fits(h, a, tried, tries, known)
              /\ h = reqs[p].handler /\ (a <=> Live(h))
              /\ tried = Cardinality(Attempts(p, n)) /\ tries = reqs[p].tries[n]
              /\ known = tries + IF Pending(p, n) THEN 1 ELSE 0
        BY NumbersOf
      <3>5. reqs[m.r].requester = h /\ h \in Instance
        <4>1. ~IsUser(m.r)
          BY <2>2, <1>1, <1>6, PendingIsCurrent
        <4>2. /\ reqs[Parent(m.r)].handler = reqs[m.r].requester
              /\ reqs[m.r].requester \in Instance
          BY <4>1, <1>1, InternalFacts
        <4> QED
          BY <4>2, <3>1, <3>4
      <3>6. Fits(h, a, tried, tries, tries + 1)
        BY <3>2, <3>4
      <3>7. reqs'[p].handler = h /\ (a <=> state'[h] \in {"RUNNING", "SHUTTING_DOWN"})
        BY <3>4, <1>1 DEF SameLife, Live
      <3>10. \A x \in Id, y \in DepName :
              reqs'[x].tries[y] =
                IF /\ ~m.ans /\ reqs[m.r].requester \in RetryInstance
                   /\ x = Parent(m.r) /\ y = reqs[m.r].dep
                THEN reqs[x].tries[y] + 1 ELSE reqs[x].tries[y]
        BY <1>1
      <3>11. tried = Cardinality(Attempts(p, n)')
        BY <3>4, <1>2
      <3>12. ASSUME NEW k \in Nat, Fits(h, a, tried, k, k), reqs'[p].tries[n] = k
             PROVE  Counted(p, n)'
        <4>1. k = k + IF Pending(p, n)' THEN 1 ELSE 0
          BY <3>3
        <4> QED
          BY <4>1, <3>7, <3>11, <3>12, NumbersFit
      <3>8. CASE h \in RetryInstance
        <4>1. Fits(h, a, tried, tries + 1, tries + 1)
          BY <3>5, <3>6, <3>8, FitsSent
        <4>2. reqs'[p].tries[n] = tries + 1
          BY <3>1, <3>4, <3>5, <3>8, <3>10, <1>6
        <4> QED
          BY <4>1, <4>2, <3>12
      <3>9. CASE h \notin RetryInstance
        <4>1. Fits(h, a, tried, tries, tries)
          BY <3>5, <3>6, <3>9, FitsSent
        <4>2. reqs'[p].tries[n] = tries
          BY <3>1, <3>4, <3>5, <3>9, <3>10, <1>6
        <4> QED
          BY <4>1, <4>2, <3>12
      <3> QED
        BY <3>8, <3>9
    <2> QED
      BY <2>1, <2>2, <1>2 DEF AttemptsRemembered
  <1> QED
    BY <1>5, <1>6

\* The failures of answers and of user requests, computations, refusals,
\* timeouts and the start of a shutdown
LEMMA QuietAttempts ==
  ASSUME LifeInvariant, TypeOK', Kin(reqs'), Len(reqs') = Len(reqs), SameTries(reqs'),
         \A x \in Id : reqs'[x].handler = reqs[x].handler,
         ToSend' = ToSend \/ \E r : ToSend' = ToSend \cup {Ans(r)},
         state' = state \/ \E i : state' = [state EXCEPT ![i] = "SHUTTING_DOWN"] /\ Live(i)
  PROVE  AttemptsRemembered'
  <1>1. \A c, r : Req(c) # Ans(r)
    BY ReqAns
  <1>2. \A c \in Id : Req(c) \in ToSend' <=> Req(c) \in ToSend
    BY <1>1
  <1>3. \A i \in Instance : Live(i)' => Live(i)
    BY LifeFacts DEF Live, TypeOK
  <1> QED
    BY <1>2, <1>3, AttemptsKept

\* Retry forgets one dependency, nothing of which is to be sent.
LEMMA ForgotAttempts ==
  ASSUME LifeInvariant, TypeOK', Kin(reqs'), Len(reqs') = Len(reqs), ToSend' = ToSend,
         \A x \in Id : reqs'[x].handler = reqs[x].handler, state' = state,
         NEW p \in Id, NEW n \in DepName, ~Pending(p, n), reqs[p].handler \in Instance,
         \A x \in Id, y \in DepName :
             reqs'[x].tries[y] = IF x = p /\ y = n THEN 0 ELSE reqs[x].tries[y]
  PROVE  AttemptsRemembered'
  <1>1. TypeOK /\ \A x \in Id, y \in DepName : Counted(x, y)
    BY LifeFacts DEF AttemptsRemembered
  <1>2. Id' = Id /\ \A x, y : Attempts(x, y)' = Attempts(x, y)
    BY <1>1, SameAttempts
  <1>3. \A i : Live(i)' => Live(i)
    BY DEF Live
  <1>4. ASSUME NEW x \in Id, NEW y \in DepName, ~(x = p /\ y = n) PROVE Counted(x, y)'
    <2>1. reqs'[x].tries[y] = reqs[x].tries[y]
      BY <1>4
    <2> QED
      BY <2>1, <1>1, <1>2, <1>3, CountedSame
  <1>5. Counted(p, n)'
    <2>1. PICK h \in Instance \cup {None}, a \in BOOLEAN, tried \in Nat, tries \in Nat, known \in Nat :
              /\ Fits(h, a, tried, tries, known)
              /\ h = reqs[p].handler /\ (a <=> Live(h))
              /\ tried = Cardinality(Attempts(p, n)) /\ tries = reqs[p].tries[n]
              /\ known = tries + IF Pending(p, n) THEN 1 ELSE 0
      BY NumbersOf
    <2>2. Fits(h, a, tried, 0, 0)
      BY <2>1, FitsForgotten
    <2>3. ~Pending(p, n)'
      BY <1>2 DEF Pending
    <2>4. reqs'[p].handler = h /\ (a <=> state'[h] \in {"RUNNING", "SHUTTING_DOWN"})
      BY <2>1 DEF Live
    <2>5. reqs'[p].tries[n] = 0
      OBVIOUS
    <2> QED
      BY <2>1, <2>2, <2>3, <2>4, <2>5, <1>2, NumbersFit
  <1> QED
    BY <1>2, <1>4, <1>5 DEF AttemptsRemembered

\* No request for the dependency of r is to be sent, when r is its child and
\* is not to be sent.
LEMMA NonePending ==
  ASSUME LifeInvariant, NEW r \in Id, ~IsUser(r), IsCurrent(r), Req(r) \notin ToSend
  PROVE  ~Pending(Parent(r), reqs[r].dep)
  <1>1. PICK p, n : p = Parent(r) /\ n = reqs[r].dep
    OBVIOUS
  <1>2. p \in Id /\ reqs[p].child[n] = r
    BY <1>1, LifeFacts, InternalFacts DEF IsCurrent
  <1>3. ~Pending(p, n)
    BY <1>2, PendingIsCurrent DEF Pending
  <1> QED
    BY <1>1, <1>3

LEMMA ForgetsAttempts ==
  ASSUME LifeInvariant, TypeOK', NEW m, NEW N, Quiet(N), Forgets(m.r), m = Req(m.r),
         m.r \in Id, m \notin ToSend, ~IsUser(m.r), state' = state
  PROVE  AttemptsRemembered'
  <1>1. /\ Kin(reqs') /\ SameLife(reqs') /\ Len(reqs') = Len(reqs) /\ ToSend' = ToSend
    BY DEF Quiet
  <1>2. CASE SameTries(reqs')
    BY <1>1, <1>2, QuietAttempts DEF SameLife
  <1>3. CASE ~SameTries(reqs')
    <2>1. /\ Exhausted(m.r)
          /\ \A x \in Id, y \in DepName :
               reqs'[x].tries[y] = IF x = Parent(m.r) /\ y = reqs[m.r].dep
                                   THEN 0 ELSE reqs[x].tries[y]
      BY <1>3 DEF Forgets
    <2>2. IsCurrent(m.r)
      BY <2>1 DEF Exhausted, Known
    <2>3. ~Pending(Parent(m.r), reqs[m.r].dep)
      BY <2>2, NonePending
    <2>4. /\ Parent(m.r) \in Id /\ reqs[m.r].dep \in DepName
          /\ reqs[Parent(m.r)].handler \in Instance
      BY LifeFacts, InternalFacts
    <2> QED
      BY <2>1, <2>3, <2>4, <1>1, ForgotAttempts DEF SameLife
  <1> QED
    BY <1>2, <1>3

LEMMA ClosesAttempts ==
  ASSUME LifeInvariant, TypeOK', NEW m, NEW i, NEW p, NEW n, Closes(m, i, p, n)
  PROVE  AttemptsRemembered'
  <1>1. /\ m.r \in Id /\ ~IsUser(m.r) /\ p \in Id /\ n \in DepName /\ p = Parent(m.r)
        /\ DepOf(m.r) = <<p, n>> /\ i \in Instance /\ p \in handling[i] /\ IsCurrent(m.r)
        /\ Kin(reqs') /\ Len(reqs') = Len(reqs)
        /\ \A x \in Id : reqs'[x].handler = reqs[x].handler
        /\ \A x \in Id, y \in DepName :
             reqs'[x].tries[y] = IF x = p /\ y = n THEN 0 ELSE reqs[x].tries[y]
        /\ state' = state /\ ToSend' = ToSend /\ reqs[m.r].computed
    BY DEF Closes
  <1>2. Req(m.r) \notin ToSend
    BY <1>1, OnTheWayUntouched DEF Untouched
  <1>3. n = reqs[m.r].dep
    BY <1>1 DEF DepOf
  <1>4. ~Pending(p, n)
    BY <1>1, <1>2, <1>3, NonePending
  <1>5. reqs[p].handler \in Instance
    BY <1>1, LifeFacts DEF Instances, HandlerKnown
  <1> QED
    BY <1>1, <1>4, <1>5, ForgotAttempts

LEMMA FitsMore ==
  ASSUME NEW h, NEW a \in BOOLEAN
  PROVE  /\ h \in Instance \cup {None} => Fits(h, a, 0, 0, 0)
         /\ h \in Instance => Fits(h, a, 1, 0, 1)
         /\ \A tried, tries \in Nat :
              /\ h \in RetryInstance /\ tries > 0 /\ tries < MaxTries
              /\ Fits(h, a, tried, tries, tries)
              => Fits(h, a, tried + 1, tries, tries + 1)
         /\ \A tried, tries \in Nat, pend \in {0, 1} :
              /\ h \in Instance /\ Fits(h, TRUE, tried, tries, tries + pend)
              => Fits(h, FALSE, tried, 0, pend)
  <1> USE BoundAssumption, ArchitectureAssumption
  <1>1. h \in Instance \cup {None} => Fits(h, a, 0, 0, 0)
    BY DEF Fits
  <1>2. h \in Instance => Fits(h, a, 1, 0, 1)
    BY DEF Fits
  <1>3. ASSUME NEW tried \in Nat, NEW tries \in Nat,
               h \in RetryInstance, tries > 0, tries < MaxTries,
               Fits(h, a, tried, tries, tries)
        PROVE  Fits(h, a, tried + 1, tries, tries + 1)
    BY <1>3 DEF Fits
  <1>4. ASSUME NEW tried \in Nat, NEW tries \in Nat, NEW pend \in {0, 1},
               h \in Instance, Fits(h, TRUE, tried, tries, tries + pend)
        PROVE  Fits(h, FALSE, tried, 0, pend)
    BY <1>4 DEF Fits
  <1> QED
    BY <1>1, <1>2, <1>3, <1>4

\* The attempts when requests are created
LEMMA GrownAttempts ==
  ASSUME LifeInvariant, TypeOK', Kin(reqs')
  PROVE  /\ \A p \in Id : \A n : Attempts(p, n)' = Attempts(p, n) \cup
               {c \in Id' \ Id : reqs'[c].parent = p /\ reqs'[c].dep = n}
         /\ (\A c \in Id' \ Id : reqs'[c].parent \in Id \cup {0}) =>
               \A p \in Id' \ Id : \A n : Attempts(p, n)' = {}
         /\ 0 \notin Id'
  <1>1. TypeOK /\ Id \subseteq Id' /\ \A x \in Id : Parent(x)' = Parent(x)
    BY LifeFacts, KinId
  <1>2. 0 \notin Id'
    BY DEF Id
  <1>3. ASSUME NEW x \in Id PROVE Parent(x) \in Id \cup {0}
    BY LifeFacts DEF Born, Parent
  <1>4. ASSUME NEW p \in Id, NEW n
        PROVE  Attempts(p, n)' = Attempts(p, n) \cup
               {c \in Id' \ Id : reqs'[c].parent = p /\ reqs'[c].dep = n}
    BY <1>1 DEF Attempts, Parent, Kin
  <1>5. ASSUME NEW p \in Id' \ Id, NEW n,
               \A c \in Id' \ Id : reqs'[c].parent \in Id \cup {0}
        PROVE  Attempts(p, n)' = {}
    BY <1>1, <1>2, <1>3, <1>5 DEF Attempts, Parent, Kin
  <1> QED
    BY <1>2, <1>4, <1>5

\* Nothing was tried for a request to which nothing has happened.
LEMMA UnbornCounted ==
  ASSUME NEW p, NEW n \in DepName, Unborn(reqs'[p]), Attempts(p, n)' = {}
  PROVE  Counted(p, n)'
  <1>1. reqs'[p].handler = None /\ reqs'[p].tries[n] = 0
    BY DEF Unborn
  <1>2. PICK a \in BOOLEAN : a <=> state'[None] \in {"RUNNING", "SHUTTING_DOWN"}
    OBVIOUS
  <1>3. Fits(None, a, 0, 0, 0)
    BY FitsMore
  <1>4. Cardinality(Attempts(p, n)') = 0
    BY FS_EmptySet
  <1>5. 0 = 0 + IF Pending(p, n)' THEN 1 ELSE 0
    BY DEF Pending
  <1> QED
    BY <1>1, <1>2, <1>3, <1>4, <1>5, NumbersFit

LEMMA RepeatsAttempts ==
  ASSUME LifeInvariant, TypeOK', NEW m, NEW new, Repeats(m, new)
  PROVE  AttemptsRemembered'
  <1>1. /\ m = Req(m.r) /\ m.r \in Id /\ ~IsUser(m.r) /\ Retries(m.r) /\ m \notin ToSend
        /\ Id' = Id \cup {new} /\ new \notin Id
        /\ Kin(reqs') /\ SameLife(reqs') /\ SameTries(reqs')
        /\ Unborn(reqs'[new])
        /\ reqs'[new].parent = Parent(m.r) /\ reqs'[new].dep = reqs[m.r].dep
        /\ ToSend' = ToSend \cup {Req(new)} /\ state' = state
        /\ TypeOK /\ \A p \in Id, n \in DepName : Counted(p, n)
    BY LifeFacts DEF Repeats, Fails, AttemptsRemembered
  <1>2. /\ Parent(m.r) \in Id /\ reqs[m.r].dep \in DepName
        /\ reqs[Parent(m.r)].handler = reqs[m.r].requester
    BY <1>1, LifeFacts, InternalFacts
  <1>3. /\ \A p \in Id : \A n : Attempts(p, n)' = Attempts(p, n) \cup
              {c \in Id' \ Id : reqs'[c].parent = p /\ reqs'[c].dep = n}
        /\ \A n : Attempts(new, n)' = {}
    BY <1>1, <1>2, GrownAttempts
  <1>4. \A c : Req(c) = Req(new) => c = new
    BY ReqAns
  <1>5. \A n \in DepName : Counted(new, n)'
    BY <1>1, <1>3, UnbornCounted
  <1>6. ASSUME NEW p \in Id, NEW n \in DepName, ~(p = Parent(m.r) /\ n = reqs[m.r].dep)
        PROVE  Counted(p, n)'
    <2>1. Attempts(p, n)' = Attempts(p, n) /\ Attempts(p, n) \subseteq Id
      BY <1>1, <1>3, <1>6 DEF Attempts
    <2>2. \A c \in Attempts(p, n) : Req(c) \in ToSend' <=> Req(c) \in ToSend
      BY <2>1, <1>1, <1>4
    <2>3. \A i : Live(i)' => Live(i)
      BY <1>1 DEF Live
    <2> QED
      BY <2>1, <2>2, <2>3, <1>1, CountedSame DEF SameLife, SameTries
  <1>7. ASSUME NEW p \in Id, NEW n \in DepName, p = Parent(m.r) /\ n = reqs[m.r].dep
        PROVE  Counted(p, n)'
    <2>1. PICK h \in Instance \cup {None}, a \in BOOLEAN, tried \in Nat, tries \in Nat, known \in Nat :
              /\ Fits(h, a, tried, tries, known)
              /\ h = reqs[p].handler /\ (a <=> Live(h))
              /\ tried = Cardinality(Attempts(p, n)) /\ tries = reqs[p].tries[n]
              /\ known = tries + IF Pending(p, n) THEN 1 ELSE 0
      BY NumbersOf
    <2>2. h \in RetryInstance /\ tries > 0 /\ tries < MaxTries /\ IsCurrent(m.r)
      BY <2>1, <1>1, <1>2, <1>7 DEF Retries, Known, Tries
    <2>3. ~Pending(p, n)
      BY <2>2, <1>1, <1>7, NonePending
    <2>4. known = tries
      BY <2>1, <2>3
    <2>5. Fits(h, a, tried + 1, tries, tries + 1)
      BY <2>1, <2>2, <2>4, FitsMore
    <2>6. Attempts(p, n)' = Attempts(p, n) \cup {new} /\ new \notin Attempts(p, n)
      BY <1>1, <1>3, <1>7 DEF Attempts
    <2>7. Cardinality(Attempts(p, n)') = tried + 1
      <3>1. IsFiniteSet(Attempts(p, n))
        BY <1>1, AttemptNumbers
      <3>2. Cardinality(Attempts(p, n) \cup {new}) = Cardinality(Attempts(p, n)) + 1
        BY <3>1, <2>6, FS_AddElement
      <3> QED
        BY <3>2, <2>1, <2>6
    <2>8. Pending(p, n)'
      BY <2>6, <1>1 DEF Pending
    <2>9. reqs'[p].handler = h /\ (a <=> state'[h] \in {"RUNNING", "SHUTTING_DOWN"})
      BY <2>1, <1>1 DEF Live, SameLife
    <2>10. reqs'[p].tries[n] = tries /\ tries + 1 = tries + IF Pending(p, n)' THEN 1 ELSE 0
      BY <2>1, <2>8, <1>1 DEF SameTries
    <2> QED
      BY <2>5, <2>7, <2>9, <2>10, NumbersFit
  <1> QED
    BY <1>1, <1>5, <1>6, <1>7 DEF AttemptsRemembered

\* A user request is no attempt.
LEMMA AsksAttempts ==
  ASSUME LifeInvariant, TypeOK', NEW new, Asks(new)
  PROVE  AttemptsRemembered'
  <1>1. /\ Id' = Id \cup {new} /\ new \notin Id
        /\ Kin(reqs') /\ SameLife(reqs') /\ SameTries(reqs')
        /\ Unborn(reqs'[new]) /\ reqs'[new].parent = 0
        /\ ToSend' = ToSend \cup {Req(new)} /\ state' = state
        /\ TypeOK /\ \A p \in Id, n \in DepName : Counted(p, n)
    BY LifeFacts DEF Asks, AttemptsRemembered
  <1>2. /\ \A p \in Id : \A n : Attempts(p, n)' = Attempts(p, n) \cup
              {c \in Id' \ Id : reqs'[c].parent = p /\ reqs'[c].dep = n}
        /\ \A n : Attempts(new, n)' = {}
        /\ 0 \notin Id'
    BY <1>1, GrownAttempts
  <1>3. \A n \in DepName : Counted(new, n)'
    BY <1>1, <1>2, UnbornCounted
  <1>4. ASSUME NEW p \in Id, NEW n \in DepName PROVE Counted(p, n)'
    <2>1. Attempts(p, n)' = Attempts(p, n) /\ Attempts(p, n) \subseteq Id
      BY <1>1, <1>2 DEF Attempts
    <2>2. \A c \in Attempts(p, n) : Req(c) \in ToSend' <=> Req(c) \in ToSend
      BY <2>1, <1>1, ReqAns
    <2>3. \A i : Live(i)' => Live(i)
      BY <1>1 DEF Live
    <2> QED
      BY <2>1, <2>2, <2>3, <1>1, CountedSame DEF SameLife, SameTries
  <1> QED
    BY <1>1, <1>3, <1>4 DEF AttemptsRemembered

\* Nothing was tried for a request that has not arrived.
LEMMA NothingTried ==
  ASSUME LifeInvariant, NEW p \in Id, reqs[p].handler = None, NEW n \in DepName
  PROVE  Attempts(p, n) = {} /\ reqs[p].tries[n] = 0
  <1>1. PICK h \in Instance \cup {None}, a \in BOOLEAN, tried \in Nat, tries \in Nat, known \in Nat :
              /\ Fits(h, a, tried, tries, known)
              /\ h = reqs[p].handler /\ (a <=> Live(h))
              /\ tried = Cardinality(Attempts(p, n)) /\ tries = reqs[p].tries[n]
              /\ known = tries + IF Pending(p, n) THEN 1 ELSE 0
    BY NumbersOf
  <1>2. tried = 0 /\ known = 0
    BY <1>1 DEF Fits
  <1>3. tries = 0
    BY <1>1, <1>2
  <1>4. Attempts(p, n) = {}
    BY <1>1, <1>2, LifeFacts, AttemptNumbers, FS_EmptySet
  <1> QED
    BY <1>1, <1>3, <1>4

\* The dependencies of request r when it arrives at i: each has been tried
\* once or not at all.
LEMMA BeginsCounted ==
  ASSUME LifeInvariant, NEW r, NEW i, Begins(r, i), NEW n \in DepName,
         \/ Attempts(r, n)' = {}
         \/ \E c : Attempts(r, n)' = {c} /\ Req(c) \in ToSend'
  PROVE  Counted(r, n)'
  <1>1. /\ r \in Id /\ i \in Instance /\ reqs[r].handler = None /\ reqs'[r].handler = i
        /\ SameTries(reqs')
    BY DEF Begins, Untouched
  <1>2. reqs'[r].tries[n] = 0
    BY <1>1, NothingTried DEF SameTries
  <1>3. PICK a \in BOOLEAN : a <=> state'[i] \in {"RUNNING", "SHUTTING_DOWN"}
    OBVIOUS
  <1>4. Fits(i, a, 0, 0, 0) /\ Fits(i, a, 1, 0, 1)
    BY <1>1, FitsMore
  <1>5. CASE Attempts(r, n)' = {}
    <2>1. Cardinality(Attempts(r, n)') = 0 /\ ~Pending(r, n)'
      BY <1>5, FS_EmptySet DEF Pending
    <2> QED
      BY <2>1, <1>1, <1>2, <1>3, <1>4, NumbersFit
  <1>6. CASE \E c : Attempts(r, n)' = {c} /\ Req(c) \in ToSend'
    <2>1. Cardinality(Attempts(r, n)') = 1 /\ Pending(r, n)'
      BY <1>6, FS_Singleton DEF Pending
    <2> QED
      BY <2>1, <1>1, <1>2, <1>3, <1>4, NumbersFit
  <1> QED
    BY <1>5, <1>6

\* No other request is concerned.
LEMMA BeginsOthers ==
  ASSUME LifeInvariant, TypeOK', NEW r, NEW i, Begins(r, i), NEW p \in Id, p # r,
         NEW n \in DepName, Attempts(p, n)' = Attempts(p, n), p \in Id',
         \A c \in Id : Req(c) \in ToSend' <=> Req(c) \in ToSend
  PROVE  Counted(p, n)'
  <1>1. /\ state' = state /\ SameTries(reqs') /\ reqs'[p].handler = reqs[p].handler
    BY DEF Begins
  <1>2. TypeOK /\ Counted(p, n)
    BY LifeFacts DEF AttemptsRemembered
  <1>3. Attempts(p, n) \subseteq Id
    BY DEF Attempts
  <1>4. \A j : Live(j)' => Live(j)
    BY <1>1 DEF Live
  <1> QED
    BY <1>1, <1>2, <1>3, <1>4, CountedSame DEF SameTries

LEMMA LeafAttempts ==
  ASSUME LifeInvariant, TypeOK', NEW r, NEW i, BeginsLeaf(r, i)
  PROVE  AttemptsRemembered'
  <1>1. /\ Begins(r, i) /\ Len(reqs') = Len(reqs) /\ ToSend' = ToSend /\ r \in Id
        /\ Kin(reqs') /\ reqs[r].handler = None
    BY DEF BeginsLeaf, Begins, Untouched
  <1>2. Id' = Id /\ \A p, n : Attempts(p, n)' = Attempts(p, n)
    BY <1>1, LifeFacts, SameAttempts
  <1>3. \A n \in DepName : Counted(r, n)'
    BY <1>1, <1>2, NothingTried, BeginsCounted
  <1>4. \A p \in Id, n \in DepName : p # r => Counted(p, n)'
    BY <1>1, <1>2, BeginsOthers
  <1> QED
    BY <1>2, <1>3, <1>4 DEF AttemptsRemembered

LEMMA CompositeAttempts ==
  ASSUME LifeInvariant, TypeOK', NEW r, NEW i, BeginsComposite(r, i)
  PROVE  AttemptsRemembered'
  <1>1. /\ Begins(r, i) /\ Kin(reqs') /\ reqs[r].handler = None /\ r \in Id
        /\ Deps(r) \subseteq DepName /\ Id \subseteq Id'
        /\ \A c \in Id' \ Id :
             /\ reqs'[c].parent = r /\ reqs'[c].dep \in Deps(r)
             /\ Unborn(reqs'[c]) /\ reqs'[r].child[reqs'[c].dep] = c
        /\ \A n \in Deps(r) :
             reqs'[r].child[n] \in Id' \ Id /\ reqs'[reqs'[r].child[n]].dep = n
        /\ ToSend' = ToSend \cup {Req(c) : c \in Id' \ Id}
    BY DEF BeginsComposite, Begins, Untouched
  <1>2. /\ \A p \in Id : \A n : Attempts(p, n)' = Attempts(p, n) \cup
              {c \in Id' \ Id : reqs'[c].parent = p /\ reqs'[c].dep = n}
        /\ \A p \in Id' \ Id : \A n : Attempts(p, n)' = {}
    BY <1>1, GrownAttempts
  <1>3. \A c \in Id : Req(c) \in ToSend' <=> Req(c) \in ToSend
    BY <1>1, ReqAns
  <1>4. ASSUME NEW p \in Id' \ Id, NEW n \in DepName PROVE Counted(p, n)'
    BY <1>1, <1>2, UnbornCounted
  <1>5. ASSUME NEW p \in Id, p # r, NEW n \in DepName PROVE Counted(p, n)'
    <2>1. {c \in Id' \ Id : reqs'[c].parent = p /\ reqs'[c].dep = n} = {}
      BY <1>1, <1>5
    <2>2. Attempts(p, n)' = Attempts(p, n) \cup
            {c \in Id' \ Id : reqs'[c].parent = p /\ reqs'[c].dep = n}
      BY <1>2
    <2>3. Attempts(p, n)' = Attempts(p, n)
      BY <2>1, <2>2
    <2> QED
      BY <2>3, <1>1, <1>3, <1>5, BeginsOthers
  <1>6. ASSUME NEW n \in DepName PROVE Counted(r, n)'
    <2>1. Attempts(r, n)' = {c \in Id' \ Id : reqs'[c].parent = r /\ reqs'[c].dep = n}
      BY <1>1, <1>2, NothingTried
    <2>2. CASE n \notin Deps(r)
      <3>1. Attempts(r, n)' = {}
        BY <2>1, <2>2, <1>1
      <3> QED
        BY <3>1, <1>1, BeginsCounted
    <2>3. CASE n \in Deps(r)
      <3>1. PICK c \in Id' \ Id : c = reqs'[r].child[n] /\ reqs'[c].dep = n
        BY <2>3, <1>1
      <3>2. Attempts(r, n)' = {c}
        BY <3>1, <2>1, <1>1
      <3>3. Req(c) \in ToSend'
        BY <1>1
      <3> QED
        BY <3>2, <3>3, <1>1, BeginsCounted
    <2> QED
      BY <2>2, <2>3
  <1> QED
    BY <1>4, <1>5, <1>6 DEF AttemptsRemembered

\* An instance that stops forgets what it has tried.
LEMMA ClearsAttempts ==
  ASSUME LifeInvariant, TypeOK', NEW i \in Instance, Live(i), NEW s,
         s \notin {"RUNNING", "SHUTTING_DOWN"},
         state' = [state EXCEPT ![i] = s], ClearsRetry(i), ToSend' = ToSend
  PROVE  AttemptsRemembered'
  <1>1. /\ Kin(reqs') /\ SameLife(reqs') /\ Len(reqs') = Len(reqs)
        /\ \A x \in Id, y \in DepName :
             reqs'[x].tries[y] = IF reqs[x].handler = i THEN 0 ELSE reqs[x].tries[y]
        /\ TypeOK /\ \A p \in Id, n \in DepName : Counted(p, n)
    BY LifeFacts DEF ClearsRetry, AttemptsRemembered
  <1>2. Id' = Id /\ \A p, n : Attempts(p, n)' = Attempts(p, n)
    BY <1>1, SameAttempts
  <1>3. /\ \A j \in Instance : Live(j)' => Live(j)
        /\ state'[i] \notin {"RUNNING", "SHUTTING_DOWN"}
    BY <1>1 DEF Live, TypeOK
  <1>4. ASSUME NEW p \in Id, NEW n \in DepName, reqs[p].handler # i PROVE Counted(p, n)'
    <2>1. reqs'[p].tries[n] = reqs[p].tries[n]
      BY <1>1, <1>4
    <2> QED
      BY <2>1, <1>1, <1>2, <1>3, CountedSame DEF SameLife
  <1>5. ASSUME NEW p \in Id, NEW n \in DepName, reqs[p].handler = i PROVE Counted(p, n)'
    <2>1. PICK h \in Instance \cup {None}, a \in BOOLEAN, tried \in Nat, tries \in Nat, known \in Nat :
              /\ Fits(h, a, tried, tries, known)
              /\ h = reqs[p].handler /\ (a <=> Live(h))
              /\ tried = Cardinality(Attempts(p, n)) /\ tries = reqs[p].tries[n]
              /\ known = tries + IF Pending(p, n) THEN 1 ELSE 0
      BY NumbersOf
    <2>2. PICK pend \in {0, 1} : pend = IF Pending(p, n) THEN 1 ELSE 0
      OBVIOUS
    <2>3. a = TRUE /\ h = i
      BY <2>1, <1>5
    <2>4. Fits(i, TRUE, tried, tries, tries + pend)
      BY <2>1, <2>2, <2>3
    <2>5. Fits(i, FALSE, tried, 0, pend)
      BY <2>4, FitsMore
    <2>6. Pending(p, n)' <=> Pending(p, n)
      BY <1>2 DEF Pending
    <2>7. pend = 0 + IF Pending(p, n)' THEN 1 ELSE 0
      BY <2>2, <2>6
    <2>8. reqs'[p].handler = i /\ reqs'[p].tries[n] = 0
      BY <1>1, <1>5 DEF SameLife
    <2>9. tried = Cardinality(Attempts(p, n)')
      BY <2>1, <1>2
    <2> QED
      BY <2>5, <2>7, <2>8, <2>9, <1>3, NumbersFit
  <1> QED
    BY <1>2, <1>4, <1>5 DEF AttemptsRemembered

-----------------------------------------------------------------------------
(* What is counted: the reports of a queue of cancellations.               *)

\* Two requests are two messages.
LEMMA ReqOnce ==
  \A a, b : Req(a) = Req(b) => a = b
  BY DEF Req

\* One more report is added at the end.
LEMMA ReportsAppend ==
  ASSUME NEW S, NEW q \in Seq(S), NEW c \in S, NEW r
  PROVE  /\ Reports(q, r) \in Nat /\ Reports(Append(q, c), r) \in Nat
         /\ Reports(Append(q, c), r) = Reports(q, r) + IF c.m = Req(r) THEN 1 ELSE 0
  <1> DEFINE a == Append(q, c)
             hits == {k \in 1..Len(q) : q[k].m = Req(r)}
             more == {k \in 1..Len(q) + 1 : a[k].m = Req(r)}
  <1>1. /\ Len(q) \in Nat /\ DOMAIN q = 1..Len(q) /\ DOMAIN a = 1..Len(q) + 1
        /\ \A k \in 1..Len(q) + 1 : a[k] = IF k <= Len(q) THEN q[k] ELSE c
    OBVIOUS
  <1>2. Reports(q, r) = Cardinality(hits) /\ Reports(a, r) = Cardinality(more)
    BY <1>1 DEF Reports
  <1>3. IsFiniteSet(1..Len(q)) /\ hits \subseteq 1..Len(q)
    BY <1>1, FS_Interval
  <1>4. IsFiniteSet(hits) /\ Cardinality(hits) \in Nat
    BY <1>3, FS_Subset, FS_CardinalityType
  <1>5. Len(q) + 1 \notin hits
    BY <1>1
  <1>6. more = IF c.m = Req(r) THEN hits \cup {Len(q) + 1} ELSE hits
    <2> HIDE DEF a
    <2> QED
      BY <1>1
  <1> HIDE DEF a, hits, more
  <1>7. Cardinality(more) = Cardinality(hits) + IF c.m = Req(r) THEN 1 ELSE 0
    <2>1. Cardinality(hits \cup {Len(q) + 1}) = Cardinality(hits) + 1
      BY <1>4, <1>5, FS_AddElement
    <2> QED
      BY <2>1, <1>4, <1>6
  <1> QED
    BY <1>2, <1>4, <1>7 DEF a

\* The first report is taken.
LEMMA ReportsTail ==
  ASSUME NEW S, NEW q \in Seq(S), q # <<>>, NEW r
  PROVE  /\ Reports(q, r) \in Nat /\ Reports(Tail(q), r) \in Nat
         /\ Reports(q, r) = Reports(Tail(q), r) + IF Head(q).m = Req(r) THEN 1 ELSE 0
  <1> DEFINE t == Tail(q)
             hits == {k \in 1..Len(q) : q[k].m = Req(r)}
             rest == hits \ {1}
             left == {k \in 1..Len(t) : t[k].m = Req(r)}
             f == [k \in left |-> k + 1]
  <1>1. /\ t \in Seq(S) /\ Head(q) = q[1] /\ Len(q) \in Nat \ {0}
        /\ Len(t) = Len(q) - 1
        /\ \A k \in 1..Len(t) : t[k] = q[k + 1]
    BY TailRange
  <1>2. /\ DOMAIN q = 1..Len(q) /\ DOMAIN t = 1..Len(t)
    BY <1>1
  <1>3. Reports(q, r) = Cardinality(hits) /\ Reports(t, r) = Cardinality(left)
    BY <1>2 DEF Reports
  <1> HIDE DEF t
  <1>4. IsFiniteSet(1..Len(q)) /\ IsFiniteSet(1..Len(t))
    BY <1>1, FS_Interval
  <1>5. /\ IsFiniteSet(hits) /\ IsFiniteSet(left) /\ IsFiniteSet(rest)
        /\ Cardinality(left) \in Nat /\ Cardinality(rest) \in Nat
    <2>1. hits \subseteq 1..Len(q) /\ rest \subseteq hits /\ left \subseteq 1..Len(t)
      OBVIOUS
    <2> HIDE DEF hits, rest, left
    <2> QED
      BY <2>1, <1>4, FS_Subset, FS_CardinalityType
  <1>6. f \in Bijection(left, rest)
    <2>1. \A k \in left : k + 1 \in rest
      BY <1>1
    <2>2. \A j \in rest : j - 1 \in left /\ j - 1 + 1 = j
      BY <1>1
    <2>3. \A k, l \in left : k + 1 = l + 1 => k = l
      OBVIOUS
    <2> HIDE DEF left, rest
    <2> QED
      BY <2>1, <2>2, <2>3 DEF Bijection, Injection, Surjection, IsInjective
  <1>7. Cardinality(rest) = Cardinality(left)
    <2>1. ExistsBijection(left, rest)
      BY <1>6 DEF ExistsBijection
    <2> QED
      BY <2>1, <1>5, FS_Bijection
  <1>8. hits = IF q[1].m = Req(r) THEN rest \cup {1} ELSE rest
    BY <1>1
  <1>9. 1 \notin rest
    OBVIOUS
  <1> HIDE DEF hits, rest, left, f
  <1>10. Cardinality(hits) = Cardinality(rest) + IF q[1].m = Req(r) THEN 1 ELSE 0
    <2>1. Cardinality(rest \cup {1}) = Cardinality(rest) + 1
      BY <1>5, <1>9, FS_AddElement
    <2> QED
      BY <2>1, <1>5, <1>8
  <1> QED
    BY <1>1, <1>3, <1>5, <1>7, <1>10 DEF t

\* Every request of a killed instance is reported once.
LEMMA ReportsInformed ==
  ASSUME NEW S, NEW ids \in Ascending(S), NEW r
  PROVE  Reports(Informed(ids), r) = IF r \in S THEN 1 ELSE 0
  <1>1. ids \in Bijection(1..Cardinality(S), S)
    BY DEF Ascending, Orders
  <1>2. /\ \A k \in DOMAIN ids : ids[k] \in S
        /\ \A k, l \in DOMAIN ids : ids[k] = ids[l] => k = l
        /\ \A x \in S : \E k \in DOMAIN ids : ids[k] = x
    BY <1>1 DEF Bijection, Injection, Surjection, IsInjective
  <1> DEFINE hits == {k \in DOMAIN ids : ids[k] = r}
  <1>3. {k \in DOMAIN Informed(ids) : Informed(ids)[k].m = Req(r)} = hits
    BY ReqOnce DEF Informed, Cancel
  <1>4. Reports(Informed(ids), r) = Cardinality(hits)
    BY <1>3 DEF Reports
  <1>5. CASE r \in S
    <2>1. PICK k \in DOMAIN ids : ids[k] = r
      BY <1>2, <1>5
    <2>2. hits = {k}
      BY <2>1, <1>2
    <2> QED
      BY <2>2, <1>4, <1>5, FS_Singleton
  <1>6. CASE r \notin S
    <2>1. hits = {}
      BY <1>2, <1>6
    <2> QED
      BY <2>1, <1>4, <1>6, FS_EmptySet
  <1> QED
    BY <1>5, <1>6

LEMMA ReportsNone ==
  \A r : Reports(<<>>, r) = 0
  <1>1. \A r : {k \in DOMAIN <<>> : <<>>[k].m = Req(r)} = {}
    OBVIOUS
  <1> QED
    BY <1>1, FS_EmptySet DEF Reports

-----------------------------------------------------------------------------
(* What is counted: the steps.                                             *)

\* The numbers of a request
LEMMA CountNumbers ==
  ASSUME TypeOK, NEW r \in Id
  PROVE  /\ Reports(urgent, r) \in Nat
         /\ reqs[r].succeeded \in Nat /\ reqs[r].failed \in Nat /\ Settled(r) \in Nat
  <1>1. reqs[r].succeeded \in Nat /\ reqs[r].failed \in Nat
    BY ReqsType DEF Request
  <1>2. Reports(urgent, r) \in Nat
    <2>1. urgent \in Seq(Cancellation)
      BY DEF TypeOK
    <2>2. CASE urgent = <<>>
      BY <2>2, ReportsNone
    <2>3. CASE urgent # <<>>
      BY <2>1, <2>3, ReportsTail
    <2> QED
      BY <2>2, <2>3
  <1> QED
    BY <1>1, <1>2 DEF Settled

\* What a step does to a user request that it neither counts nor reports
SettlesNothing(r) ==
  /\ Unsettled(r)' => Unsettled(r)
  /\ Handled(r)' => Handled(r)
  /\ Killed(r) => Killed(r)'
  /\ Settled(r)' = Settled(r) /\ reqs'[r].succeeded = reqs[r].succeeded

\* It is counted as before.
LEMMA KeepsTally ==
  ASSUME LifeInvariant, NEW r \in Id, IsUser(r), SettlesNothing(r)
  PROVE  Tally(Unsettled(r), Handled(r), Killed(r), Settled(r), reqs[r].succeeded)'
  <1>1. /\ Tally(Unsettled(r), Handled(r), Killed(r), Settled(r), reqs[r].succeeded)
        /\ Settled(r) \in Nat
    BY LifeFacts, CountNumbers DEF Counts, CountedOnce
  <1> QED
    BY <1>1 DEF Tally, SettlesNothing

LEMMA CountsKept ==
  ASSUME LifeInvariant, TypeOK', Kin(reqs'), \A x \in Id' \ Id : CountedOnce(x)',
         \A x \in Id : ~IsUser(x) => /\ reqs'[x].succeeded = reqs[x].succeeded
                                     /\ reqs'[x].failed = reqs[x].failed,
         \A x \in Id : IsUser(x) => SettlesNothing(x) \/ CountedOnce(x)'
  PROVE  Counts'
  <1>1. TypeOK /\ \A x \in Id : CountedOnce(x)
    BY LifeFacts DEF Counts
  <1>2. \A x \in Id : IsUser(x)' = IsUser(x)
    BY <1>1, KinId
  <1>3. ASSUME NEW x \in Id, IsUser(x) PROVE CountedOnce(x)'
    <2>1. CASE SettlesNothing(x)
      BY <2>1, <1>2, <1>3, KeepsTally DEF CountedOnce
    <2> QED
      BY <2>1, <1>3
  <1>4. ASSUME NEW x \in Id, ~IsUser(x) PROVE CountedOnce(x)'
    BY <1>1, <1>2, <1>4 DEF CountedOnce
  <1> QED
    BY <1>3, <1>4 DEF Counts

\* A request that was created for a dependency counts nothing.
LEMMA UnbornCounts ==
  ASSUME NEW x, Unborn(reqs'[x]), ~IsUser(x)'
  PROVE  CountedOnce(x)'
  BY DEF CountedOnce, Unborn

\* What is known about a request by those who count it
KeepsPlace(x) ==
  /\ reqs'[x].handler = reqs[x].handler
  /\ reqs'[x].succeeded = reqs[x].succeeded /\ reqs'[x].failed = reqs[x].failed

LEMMA PlaceKept ==
  ASSUME NEW x, KeepsPlace(x), reqs[x].handler \in Instance \cup {None},
         \A i \in Instance : handling'[i] \subseteq handling[i],
         \A i \in Instance : state[i] = "KILLED" => state'[i] = "KILLED",
         Reports(urgent', x) = Reports(urgent, x),
         Unsettled(x)' => Unsettled(x)
  PROVE  SettlesNothing(x)
  <1>1. Handled(x)' => Handled(x)
    BY DEF Handled, KeepsPlace
  <1>2. Killed(x) => Killed(x)'
    BY DEF Killed, KeepsPlace
  <1>3. Settled(x)' = Settled(x)
    BY DEF Settled, KeepsPlace
  <1> QED
    BY <1>1, <1>2, <1>3 DEF SettlesNothing, KeepsPlace

\* Most steps count nothing.
LEMMA CountsQuiet ==
  ASSUME LifeInvariant, TypeOK', Kin(reqs'), SameCounts(reqs'),
         \A x \in Id : reqs'[x].handler = reqs[x].handler,
         \A x \in Id' \ Id : CountedOnce(x)',
         \A i \in Instance : handling'[i] \subseteq handling[i],
         \A i \in Instance : state[i] = "KILLED" => state'[i] = "KILLED",
         \A x \in Id : IsUser(x) => /\ Reports(urgent', x) = Reports(urgent, x)
                                    /\ Unsettled(x)' => Unsettled(x)
  PROVE  Counts'
  <1>1. \A x \in Id : reqs[x].handler \in Instance \cup {None}
    BY LifeFacts, ReqsType DEF Request
  <1>2. \A x \in Id : KeepsPlace(x)
    BY DEF KeepsPlace, SameCounts
  <1>3. \A x \in Id : IsUser(x) => SettlesNothing(x)
    BY <1>1, <1>2, PlaceKept
  <1> QED
    BY <1>3, CountsKept DEF SameCounts

\* The head of the cancellations is no failure of a user request.
LEMMA TailReports ==
  ASSUME TypeOK, urgent # <<>>, NEW m, m = Head(urgent).m,
         m = Req(m.r) => ~IsUser(m.r)
  PROVE  \A x \in Id : IsUser(x) => Reports(Tail(urgent), x) = Reports(urgent, x)
  <1> SUFFICES ASSUME NEW x \in Id, IsUser(x)
               PROVE  Reports(Tail(urgent), x) = Reports(urgent, x)
    OBVIOUS
  <1>1. urgent \in Seq(Cancellation)
    BY DEF TypeOK
  <1>2. m # Req(x)
    BY ReqAns
  <1>3. /\ Reports(Tail(urgent), x) \in Nat
        /\ Reports(urgent, x) = Reports(Tail(urgent), x)
                                  + IF Head(urgent).m = Req(x) THEN 1 ELSE 0
    BY <1>1, ReportsTail
  <1> QED
    BY <1>2, <1>3

\* Neither is one that is added.
LEMMA AppendReports ==
  ASSUME NEW q \in Seq(Cancellation), NEW c \in Cancellation,
         c.m = Req(c.m.r) => ~IsUser(c.m.r)
  PROVE  \A x \in Id : IsUser(x) => Reports(Append(q, c), x) = Reports(q, x)
  <1> SUFFICES ASSUME NEW x \in Id, IsUser(x)
               PROVE  Reports(Append(q, c), x) = Reports(q, x)
    OBVIOUS
  <1>1. c.m # Req(x)
    BY ReqAns
  <1>2. /\ Reports(q, x) \in Nat
        /\ Reports(Append(q, c), x) = Reports(q, x) + IF c.m = Req(x) THEN 1 ELSE 0
    BY ReportsAppend
  <1> QED
    BY <1>1, <1>2

\* The failure of an answer or of an internal request is no count.
LEMMA FailCounts ==
  ASSUME LifeInvariant, TypeOK', NEW m, Cancels(m), Quiet({}),
         m = Req(m.r) => ~IsUser(m.r), SameCounts(reqs'),
         urgent' = Tail(urgent), handling' = handling
  PROVE  Counts'
  <1>1. /\ TypeOK /\ urgent # <<>> /\ m = Head(urgent).m /\ state' = state
        /\ Kin(reqs') /\ SameLife(reqs') /\ Len(reqs') = Len(reqs)
        /\ ToSend' = ToSend /\ Arriving' = Arriving
    BY LifeFacts DEF Cancels, Quiet
  <1>2. \A x \in Id : IsUser(x) => Reports(urgent', x) = Reports(urgent, x)
    BY <1>1, TailReports
  <1>3. Id' = Id
    BY <1>1 DEF Id
  <1>4. \A x : Unsettled(x)' => Unsettled(x)
    BY <1>1 DEF Unsettled
  <1> QED
    BY <1>1, <1>2, <1>3, <1>4, CountsQuiet DEF SameLife

\* The load generator counts a success or a failure.
LEMMA SuccessSet ==
  ASSUME TypeOK, NEW p \in Id, reqs' = [reqs EXCEPT ![p].succeeded = @ + 1]
  PROVE  /\ \A x \in Id : x # p => reqs'[x] = reqs[x]
         /\ reqs'[p].succeeded = reqs[p].succeeded + 1 /\ reqs'[p].failed = reqs[p].failed
  <1> DEFINE k == reqs[p].succeeded + 1
             v == [reqs[p] EXCEPT !.succeeded = k]
  <1>1. reqs[p] \in Request /\ k \in Nat
    BY ReqsType DEF Request
  <1>2. reqs' = [reqs EXCEPT ![p] = v]
    OBVIOUS
  <1> HIDE DEF k
  <1>3. v \in Request /\ v.succeeded = k /\ v.failed = reqs[p].failed
    BY <1>1 DEF Request
  <1> HIDE DEF v
  <1>4. reqs'[p] = v /\ \A x \in Id : x # p => reqs'[x] = reqs[x]
    BY <1>2, <1>3, Replaced
  <1> QED
    BY <1>3, <1>4 DEF k

LEMMA FailureSet ==
  ASSUME TypeOK, NEW p \in Id, reqs' = [reqs EXCEPT ![p].failed = @ + 1]
  PROVE  /\ \A x \in Id : x # p => reqs'[x] = reqs[x]
         /\ reqs'[p].failed = reqs[p].failed + 1 /\ reqs'[p].succeeded = reqs[p].succeeded
  <1> DEFINE k == reqs[p].failed + 1
             v == [reqs[p] EXCEPT !.failed = k]
  <1>1. reqs[p] \in Request /\ k \in Nat
    BY ReqsType DEF Request
  <1>2. reqs' = [reqs EXCEPT ![p] = v]
    OBVIOUS
  <1> HIDE DEF k
  <1>3. v \in Request /\ v.failed = k /\ v.succeeded = reqs[p].succeeded
    BY <1>1 DEF Request
  <1> HIDE DEF v
  <1>4. reqs'[p] = v /\ \A x \in Id : x # p => reqs'[x] = reqs[x]
    BY <1>2, <1>3, Replaced
  <1> QED
    BY <1>3, <1>4 DEF k

\* The failure of a user request is counted as soon as it is reported.
LEMMA FailUserCounts ==
  ASSUME LifeInvariant, TypeOK', NEW m, Cancels(m), Fails(m), Quiet({}), FailUserRequest(m)
  PROVE  Counts'
  <1>1. /\ TypeOK /\ urgent # <<>> /\ m = Head(urgent).m /\ state' = state
        /\ Kin(reqs') /\ SameLife(reqs') /\ Len(reqs') = Len(reqs)
        /\ ToSend' = ToSend /\ Arriving' = Arriving /\ m.r \in Id /\ m = Req(m.r)
        /\ IsUser(m.r) /\ urgent' = Tail(urgent) /\ handling' = handling
    BY LifeFacts DEF Cancels, Quiet, Fails, FailUserRequest
  <1>2. /\ \A x \in Id : x # m.r => reqs'[x] = reqs[x]
        /\ reqs'[m.r].failed = reqs[m.r].failed + 1
        /\ reqs'[m.r].succeeded = reqs[m.r].succeeded
    <2>1. reqs' = [reqs EXCEPT ![m.r].failed = @ + 1]
      BY DEF FailUserRequest
    <2> QED
      BY <2>1, <1>1, FailureSet
  <1>3. urgent \in Seq(Cancellation)
    BY <1>1 DEF TypeOK
  <1>4. Id' = Id /\ \A x : Unsettled(x)' => Unsettled(x)
    BY <1>1 DEF Id, Unsettled
  <1>5. ASSUME NEW x \in Id PROVE SettlesNothing(x)
    <2>1. /\ Reports(Tail(urgent), x) \in Nat
          /\ Reports(urgent, x) = Reports(Tail(urgent), x)
                                    + IF Head(urgent).m = Req(x) THEN 1 ELSE 0
      BY <1>1, <1>3, ReportsTail
    <2>2. Head(urgent).m = Req(x) <=> x = m.r
      BY <1>1, ReqOnce
    <2>3. /\ reqs[x].succeeded \in Nat /\ reqs[x].failed \in Nat
          /\ reqs[x].handler \in Instance \cup {None}
      BY <1>1, ReqsType DEF Request
    <2>4. /\ reqs'[x].succeeded = reqs[x].succeeded
          /\ reqs'[x].failed = reqs[x].failed + IF x = m.r THEN 1 ELSE 0
          /\ reqs'[x].handler = reqs[x].handler
      BY <1>1, <1>2, <2>3 DEF SameLife
    <2>5. Settled(x)' = Settled(x)
      <3>1. CASE x = m.r
        <4>1. /\ Reports(urgent, x) = Reports(urgent', x) + 1
              /\ Reports(urgent', x) \in Nat
              /\ reqs'[x].failed = reqs[x].failed + 1
          BY <2>1, <2>2, <2>4, <3>1, <1>1
        <4> QED
          BY <4>1, <2>3, <2>4 DEF Settled
      <3>2. CASE x # m.r
        <4>1. /\ Reports(urgent, x) = Reports(urgent', x)
              /\ reqs'[x].failed = reqs[x].failed
          BY <2>1, <2>2, <2>3, <2>4, <3>2, <1>1
        <4> QED
          BY <4>1, <2>4 DEF Settled
      <3> QED
        BY <3>1, <3>2
    <2>6. (Handled(x)' => Handled(x)) /\ (Killed(x) => Killed(x)')
      BY <2>4, <1>1 DEF Handled, Killed
    <2> QED
      BY <2>4, <2>5, <2>6, <1>4 DEF SettlesNothing
  <1>6. \A x \in Id : ~IsUser(x) => reqs'[x] = reqs[x]
    BY <1>1, <1>2
  <1> QED
    BY <1>1, <1>4, <1>5, <1>6, CountsKept

\* Retry creates an internal request.
LEMMA RepeatsCounts ==
  ASSUME LifeInvariant, TypeOK', NEW m, NEW new, Cancels(m), Repeats(m, new)
  PROVE  Counts'
  <1>1. /\ TypeOK /\ urgent # <<>> /\ m = Head(urgent).m /\ state' = state
        /\ ~IsUser(m.r) /\ Id' = Id \cup {new} /\ new \notin Id
        /\ Kin(reqs') /\ SameLife(reqs') /\ SameCounts(reqs')
        /\ Unborn(reqs'[new]) /\ reqs'[new].requester = reqs[m.r].requester
        /\ urgent' = Tail(urgent) /\ handling' = handling
        /\ ToSend' = ToSend \cup {Req(new)} /\ Arriving' = Arriving
    BY LifeFacts DEF Cancels, Repeats, Fails
  <1>2. \A x \in Id : IsUser(x) => Reports(urgent', x) = Reports(urgent, x)
    BY <1>1, TailReports
  <1>3. CountedOnce(new)'
    BY <1>1, UnbornCounts DEF IsUser
  <1>4. \A x \in Id : Unsettled(x)' => Unsettled(x)
    <2>1. \A x \in Id : Req(new) # Req(x) /\ Req(new) # Ans(x)
      BY <1>1, ReqAns
    <2> QED
      BY <2>1, <1>1 DEF Unsettled
  <1> QED
    BY <1>1, <1>2, <1>3, <1>4, CountsQuiet DEF SameLife

\* A timeout, or the cancellation of an internal request, counts nothing.
LEMMA ExpiresCounts ==
  ASSUME LifeInvariant, TypeOK', NEW m, Expires(m)
  PROVE  Counts'
  <1>1. /\ TypeOK /\ ~IsUser(m.r) /\ UNCHANGED <<reqs, state, handling>>
        /\ ToSend' = ToSend /\ Arriving' = Arriving
    BY LifeFacts DEF Expires, Quiet
  <1>2. PICK reason \in Reasons : /\ Cancel(m, reason) \in Cancellation
                                  /\ urgent' = Append(urgent, Cancel(m, reason))
    BY DEF Expires
  <1>3. urgent \in Seq(Cancellation) /\ Cancel(m, reason).m = m
    BY <1>1 DEF TypeOK, Cancel
  <1>4. \A x \in Id : IsUser(x) => Reports(urgent', x) = Reports(urgent, x)
    BY <1>1, <1>2, <1>3, AppendReports
  <1>5. Id' = Id /\ \A x : Unsettled(x)' => Unsettled(x)
    BY <1>1 DEF Id, Unsettled
  <1> QED
    BY <1>1, <1>4, <1>5, NothingChanges, CountsQuiet

\* The computation, shutdowns and answers of dependencies count nothing.
LEMMA SilentCounts ==
  ASSUME LifeInvariant, TypeOK', Kin(reqs'), SameCounts(reqs'), Len(reqs') = Len(reqs),
         \A x \in Id : reqs'[x].handler = reqs[x].handler,
         handling' = handling, urgent' = urgent,
         \A i \in Instance : state[i] = "KILLED" => state'[i] = "KILLED",
         ToSend' = ToSend, Arriving' \subseteq Arriving
  PROVE  Counts'
  <1>1. Id' = Id /\ \A x : Unsettled(x)' => Unsettled(x)
    BY DEF Id, Unsettled
  <1> QED
    BY <1>1, CountsQuiet

LEMMA BurstCounts ==
  ASSUME LifeInvariant, TypeOK', NEW i, NEW r, BurstEnds(i, r)
  PROVE  Counts'
  BY SilentCounts, LifeFacts, NothingChanges DEF BurstEnds, Quiet

LEMMA ShutdownStartsCounts ==
  ASSUME LifeInvariant, TypeOK', NEW i, ShutdownStarts(i)
  PROVE  Counts'
  <1>1. \A j \in Instance : state[j] = "KILLED" => state'[j] = "KILLED"
    BY LifeFacts DEF ShutdownStarts, TypeOK
  <1> QED
    BY <1>1, SilentCounts, LifeFacts, NothingChanges DEF ShutdownStarts, Quiet

LEMMA ShutdownEndsCounts ==
  ASSUME LifeInvariant, TypeOK', NEW i, ShutdownEnds(i)
  PROVE  Counts'
  <1>1. \A j \in Instance : state[j] = "KILLED" => state'[j] = "KILLED"
    BY LifeFacts DEF ShutdownEnds, TypeOK
  <1> QED
    BY <1>1, SilentCounts DEF ShutdownEnds, ClearsRetry, Quiet, SameLife

LEMMA ClosesCounts ==
  ASSUME LifeInvariant, TypeOK', NEW m, NEW i, NEW p, NEW n, Closes(m, i, p, n)
  PROVE  Counts'
  BY SilentCounts DEF Closes

LEMMA CanceledCounts ==
  ASSUME LifeInvariant, TypeOK', UNCHANGED <<reqs, state, handling, urgent>>,
         ToSend' = ToSend, Arriving' = Arriving
  PROVE  Counts'
  BY SilentCounts, LifeFacts, NothingChanges

\* Sums of what is settled
LEMMA Sums ==
  \A a, b, c \in Nat : /\ a + b + c = 0 => b = 0
                        /\ a + 1 + b + c = a + b + c + 1
                        /\ a + (b + 1) + c = a + b + c + 1
  OBVIOUS

LEMMA SettledIs ==
  /\ \A x : Settled(x) = Reports(urgent, x) + reqs[x].succeeded + reqs[x].failed
  /\ \A x : Settled(x)' = Reports(urgent', x) + reqs'[x].succeeded + reqs'[x].failed
  BY DEF Settled

\* A user request for which nothing is settled may be handled or answered.
LEMMA NothingSettled ==
  ASSUME TypeOK', NEW x, IsUser(x), IsUser(x)' = IsUser(x), x \in Id, TypeOK,
         Tally(Unsettled(x), Handled(x), Killed(x), Settled(x), reqs[x].succeeded),
         Unsettled(x) \/ (Handled(x) /\ ~Killed(x)),
         Settled(x)' = Settled(x), reqs'[x].succeeded = reqs[x].succeeded
  PROVE  CountedOnce(x)'
  <1>1. /\ reqs[x].succeeded \in Nat /\ reqs[x].failed \in Nat /\ Reports(urgent, x) \in Nat
    BY CountNumbers
  <1>2. Settled(x) = 0
    BY <1>1, CountNumbers DEF Tally
  <1>3. reqs[x].succeeded = 0
    BY <1>1, <1>2, SettledIs, Sums
  <1> QED
    BY <1>2, <1>3 DEF CountedOnce, Tally

\* A request that is handled is not on its way any more, nor is its answer.
LEMMA HandledIsSettled ==
  ASSUME LifeInvariant, NEW i \in Instance, NEW x \in handling[i]
  PROVE  /\ x \in Id /\ reqs[x].handler = i /\ ~reqs[x].computed
         /\ Handled(x) /\ ~Unsettled(x)
  <1>1. x \in Id /\ reqs[x].handler = i /\ ~reqs[x].computed /\ i # None
    BY LifeFacts, ArchitectureAssumption DEF TypeOK, Instances, HandlerKnown
  <1>2. Req(x) \notin ToSend \cup Arriving
    BY <1>1, OnTheWayUntouched DEF Untouched
  <1>3. Ans(x) \notin ToSend
    BY <1>1, LifeFacts, ReqAns DEF Messages, AnswersComputed
  <1> QED
    BY <1>1, <1>2, <1>3 DEF Handled, Unsettled

\* So is a request on its way not handled, nor about to be answered.
LEMMA OnTheWayOnly ==
  ASSUME LifeInvariant, NEW x \in Id, Req(x) \in ToSend \cup Arriving
  PROVE  reqs[x].handler = None /\ Ans(x) \notin ToSend /\ Unsettled(x)
  <1>1. reqs[x].handler = None /\ ~reqs[x].computed
    BY OnTheWayUntouched DEF Untouched
  <1>2. Ans(x) \notin ToSend
    BY <1>1, LifeFacts, ReqAns DEF Messages, AnswersComputed
  <1> QED
    BY <1>1, <1>2 DEF Unsettled

\* The number of what is settled grows by one report.
LEMMA OneReport ==
  ASSUME TypeOK, NEW x \in Id, NEW q \in Seq(Cancellation), NEW c \in Cancellation,
         c.m = Req(x), Reports(q, x) = Reports(urgent, x), urgent' = Append(q, c),
         reqs'[x].succeeded = reqs[x].succeeded, reqs'[x].failed = reqs[x].failed
  PROVE  Settled(x)' = Settled(x) + 1
  <1>1. /\ reqs[x].succeeded \in Nat /\ reqs[x].failed \in Nat /\ Reports(urgent, x) \in Nat
    BY CountNumbers
  <1>2. Reports(urgent', x) = Reports(urgent, x) + 1
    BY <1>1, ReportsAppend
  <1>3. Settled(x)' = Reports(urgent, x) + 1 + reqs[x].succeeded + reqs[x].failed
    BY <1>2, SettledIs
  <1>4. PICK a \in Nat, b \in Nat, d \in Nat :
           a = Reports(urgent, x) /\ b = reqs[x].succeeded /\ d = reqs[x].failed
    BY <1>1
  <1>5. Settled(x)' = a + 1 + b + d /\ Settled(x) = a + b + d
    BY <1>3, <1>4, SettledIs
  <1> QED
    BY <1>5

\* A user request that was on its way fails.
LEMMA FailsOnTheWay ==
  ASSUME LifeInvariant, NEW x \in Id, IsUser(x), IsUser(x)' = IsUser(x),
         Req(x) \in ToSend \cup Arriving, Req(x) \notin ToSend' \cup Arriving',
         ToSend' \subseteq ToSend, SameCounts(reqs'),
         reqs'[x].handler = reqs[x].handler,
         NEW c \in Cancellation, c.m = Req(x), urgent' = Append(urgent, c)
  PROVE  CountedOnce(x)'
  <1>1. reqs[x].handler = None /\ Ans(x) \notin ToSend /\ Unsettled(x) /\ TypeOK
    BY OnTheWayOnly, LifeFacts
  <1>2. ~Unsettled(x)' /\ ~Handled(x)'
    BY <1>1 DEF Unsettled, Handled
  <1>3. /\ Tally(Unsettled(x), Handled(x), Killed(x), Settled(x), reqs[x].succeeded)
        /\ Settled(x) \in Nat
    BY <1>1, LifeFacts, CountNumbers DEF Counts, CountedOnce
  <1>4. Settled(x) = 0
    BY <1>1, <1>3 DEF Tally
  <1>5. urgent \in Seq(Cancellation)
    BY <1>1 DEF TypeOK
  <1>6. Settled(x)' = Settled(x) + 1
    BY <1>1, <1>5, OneReport DEF SameCounts
  <1> QED
    BY <1>2, <1>4, <1>6 DEF CountedOnce, Tally

\* The answer to a user request is counted when it is sent.
LEMMA AnswerCounts ==
  ASSUME LifeInvariant, TypeOK', NEW m, Departs(m), m.ans, IsUser(m.r),
         reqs' = [reqs EXCEPT ![m.r].succeeded = @ + 1]
  PROVE  CountedOnce(m.r)'
  <1> DEFINE x == m.r
  <1>1. /\ TypeOK /\ m \in Message /\ x \in Id /\ m = Ans(x) /\ m \in ToSend
        /\ Kin(reqs') /\ SameLife(reqs') /\ ToSend' = ToSend \ {m}
        /\ Arriving' \subseteq Arriving \cup {m}
        /\ state' = state /\ handling' = handling
    BY LifeFacts, ReqAns DEF Departs
  <1>2. IsUser(x)' = IsUser(x)
    BY <1>1, KinId
  <1>3. urgent' = urgent
    BY ReqAns DEF Departs
  <1>4. reqs'[x].succeeded = reqs[x].succeeded + 1 /\ reqs'[x].failed = reqs[x].failed
    BY <1>1, SuccessSet
  <1> HIDE DEF x
  <1>5. Unsettled(x) /\ reqs[x].computed
    BY <1>1, LifeFacts, ReqAns DEF Unsettled, Messages, AnswersComputed
  <1>6. Req(x) \notin ToSend \cup Arriving /\ ~Handled(x)
    <2>1. Req(x) \notin ToSend \cup Arriving
      BY <1>5, OnTheWayUntouched DEF Untouched
    <2>2. reqs[x].handler \in Instance \cup {None}
      BY <1>1, ReqsType DEF Request
    <2> QED
      BY <2>1, <2>2, <1>5, HandledIsSettled DEF Handled
  <1>7. ~Unsettled(x)' /\ ~Handled(x)'
    BY <1>1, <1>6, ReqAns DEF Unsettled, Handled, SameLife
  <1>8. /\ Tally(Unsettled(x), Handled(x), Killed(x), Settled(x), reqs[x].succeeded)
        /\ reqs[x].succeeded \in Nat /\ reqs[x].failed \in Nat /\ Reports(urgent, x) \in Nat
        /\ Settled(x) \in Nat
    BY <1>1, LifeFacts, CountNumbers DEF Counts, CountedOnce, x
  <1>9. Settled(x) = 0
    BY <1>5, <1>8 DEF Tally
  <1>10. Settled(x)' = 1
    <2>1. Settled(x)' = Reports(urgent, x) + (reqs[x].succeeded + 1) + reqs[x].failed
      BY <1>3, <1>4, SettledIs
    <2>2. Settled(x)' = Settled(x) + 1
      BY <2>1, <1>8, SettledIs, Sums
    <2> QED
      BY <2>2, <1>9
  <1> QED
    BY <1>2, <1>7, <1>10 DEF CountedOnce, Tally, x

\* A message is sent: an answer to a user is a success, a user request that
\* finds no instance a failure.
LEMMA SendsCounts ==
  ASSUME LifeInvariant, TypeOK', NEW m, Departs(m)
  PROVE  Counts'
  <1>1. /\ TypeOK /\ m \in Message /\ m.r \in Id /\ m \in ToSend /\ m \notin Arriving
        /\ m = IF m.ans THEN Ans(m.r) ELSE Req(m.r)
        /\ Kin(reqs') /\ SameLife(reqs') /\ Len(reqs') = Len(reqs)
        /\ state' = state /\ handling' = handling /\ ToSend' = ToSend \ {m}
        /\ Arriving' \subseteq Arriving \cup {m}
    BY LifeFacts, ReqAns DEF Departs, Heard
  <1>2. Id' = Id /\ \A x \in Id : IsUser(x)' = IsUser(x)
    BY <1>1, KinId DEF Id
  <1>3. /\ \A x \in Id : reqs'[x].handler = reqs[x].handler
        /\ \A x \in Id : reqs[x].handler \in Instance \cup {None}
    BY <1>1, ReqsType DEF SameLife, Request
  <1>4. \A x \in Id : m # Ans(x) => (Unsettled(x)' => Unsettled(x))
    BY <1>1 DEF Unsettled
  <1>5. CASE m.ans /\ IsUser(m.r) /\ reqs' = [reqs EXCEPT ![m.r].succeeded = @ + 1]
             /\ urgent' = urgent
    <2>1. CountedOnce(m.r)'
      BY <1>5, AnswerCounts
    <2>2. \A x \in Id : x # m.r => reqs'[x] = reqs[x]
      BY <1>1, <1>5, SuccessSet
    <2>3. \A x \in Id : x # m.r => m # Ans(x)
      BY ReqAns
    <2>4. ASSUME NEW x \in Id, x # m.r PROVE SettlesNothing(x)
      <3>1. KeepsPlace(x)
        BY <2>2, <2>4 DEF KeepsPlace
      <3> QED
        BY <3>1, <2>3, <2>4, <1>1, <1>3, <1>4, <1>5, PlaceKept
    <2> QED
      BY <2>1, <2>2, <2>4, <1>1, <1>2, <1>5, CountsKept
  <1>6. CASE SameCounts(reqs') /\ urgent' = urgent /\ ~(m.ans /\ IsUser(m.r))
    <2>1. \A x \in Id : IsUser(x) => m # Ans(x)
      BY <1>6, ReqAns
    <2> QED
      BY <2>1, <1>1, <1>2, <1>3, <1>4, <1>6, CountsQuiet
  <1>7. CASE /\ ~m.ans /\ IsUser(m.r) /\ SameCounts(reqs') /\ Arriving' = Arriving
             /\ urgent' = Append(urgent, Cancel(m, "NO_INSTANCE_AVAILABLE"))
    <2> DEFINE c == Cancel(m, "NO_INSTANCE_AVAILABLE")
    <2>1. c \in Cancellation /\ c.m = m /\ urgent \in Seq(Cancellation) /\ m = Req(m.r)
      BY <1>1, <1>7 DEF Cancel, Cancellation, Reasons, TypeOK
    <2>2. urgent' = Append(urgent, c)
      BY <1>7
    <2> HIDE DEF c
    <2>3. CountedOnce(m.r)'
      BY <2>1, <2>2, <1>1, <1>2, <1>3, <1>7, FailsOnTheWay
    <2>4. ASSUME NEW x \in Id, x # m.r PROVE SettlesNothing(x)
      <3>1. m # Req(x) /\ m # Ans(x) /\ KeepsPlace(x)
        BY <2>4, <1>3, <1>7, ReqAns DEF KeepsPlace, SameCounts
      <3>2. Reports(urgent', x) = Reports(urgent, x)
        BY <3>1, <2>1, <2>2, ReportsAppend
      <3> QED
        BY <3>1, <3>2, <1>1, <1>3, <1>4, PlaceKept
    <2> QED
      BY <2>3, <2>4, <1>1, <1>2, <1>7, CountsKept DEF SameCounts
  <1>8. CASE /\ ~m.ans /\ ~IsUser(m.r) /\ SameCounts(reqs')
             /\ \E c \in Cancellation : c.m = m /\ urgent' = Append(urgent, c)
    <2>1. PICK c \in Cancellation : c.m = m /\ urgent' = Append(urgent, c)
      BY <1>8
    <2>2. /\ c.m.r = m.r /\ urgent \in Seq(Cancellation)
          /\ \A x \in Id : m # Ans(x)
      BY <2>1, <1>1, <1>8, ReqAns DEF TypeOK
    <2>3. \A x \in Id : IsUser(x) => Reports(urgent', x) = Reports(urgent, x)
      BY <2>1, <2>2, <1>8, AppendReports
    <2> QED
      BY <2>2, <2>3, <1>1, <1>2, <1>3, <1>4, <1>8, CountsQuiet
  <1>9. \/ m.ans /\ IsUser(m.r) /\ reqs' = [reqs EXCEPT ![m.r].succeeded = @ + 1]
           /\ urgent' = urgent
        \/ SameCounts(reqs') /\ urgent' = urgent /\ ~(m.ans /\ IsUser(m.r))
        \/ /\ ~m.ans /\ IsUser(m.r) /\ SameCounts(reqs') /\ Arriving' = Arriving
           /\ urgent' = Append(urgent, Cancel(m, "NO_INSTANCE_AVAILABLE"))
        \/ /\ ~m.ans /\ ~IsUser(m.r) /\ SameCounts(reqs')
           /\ \E c \in Cancellation : c.m = m /\ urgent' = Append(urgent, c)
    BY DEF Departs
  <1> QED
    BY <1>5, <1>6, <1>7, <1>8, <1>9

\* A user request is refused by an instance that stopped: it fails at once.
LEMMA RefusesCounts ==
  ASSUME LifeInvariant, TypeOK', NEW m, NEW i, Refuses(m, i)
  PROVE  Counts'
  <1> DEFINE c == Cancel(m, "HANDLING_INSTANCE_DIED")
  <1>1. /\ TypeOK /\ m \in Message /\ m.r \in Id /\ m \in Arriving
        /\ m = IF m.ans THEN Ans(m.r) ELSE Req(m.r)
        /\ reqs' = reqs /\ state' = state /\ handling' = handling /\ ToSend' = ToSend
        /\ Arriving' \subseteq Arriving /\ (~m.ans => m \notin Arriving')
        /\ m.ans => ~IsUser(m.r)
        /\ urgent' = Append(urgent, c)
    BY LifeFacts, ReqAns DEF Refuses
  <1>2. c \in Cancellation /\ c.m = m /\ urgent \in Seq(Cancellation)
    BY <1>1 DEF Cancel, Cancellation, Reasons, TypeOK
  <1> HIDE DEF c
  <1>3. /\ Id' = Id /\ Kin(reqs') /\ SameLife(reqs') /\ SameCounts(reqs')
        /\ \A x : IsUser(x)' = IsUser(x)
    BY <1>1, NothingChanges DEF Id, IsUser
  <1>4. \A x : Unsettled(x)' => Unsettled(x)
    BY <1>1 DEF Unsettled
  <1>5. CASE m = Req(m.r) => ~IsUser(m.r)
    <2>1. \A x \in Id : IsUser(x) => Reports(urgent', x) = Reports(urgent, x)
      BY <1>1, <1>2, <1>5, AppendReports
    <2> QED
      BY <2>1, <1>1, <1>3, <1>4, CountsQuiet
  <1>6. CASE m = Req(m.r) /\ IsUser(m.r)
    <2>1. ~m.ans /\ m \notin Arriving' /\ m \notin ToSend
      BY <1>1, <1>6, ReqAns, LifeFacts DEF Messages, ToSendIsUnknown, Heard
    <2>2. CountedOnce(m.r)'
      BY <2>1, <1>1, <1>2, <1>3, <1>6, FailsOnTheWay
    <2>3. ASSUME NEW x \in Id, x # m.r PROVE SettlesNothing(x)
      <3>1. m # Req(x) /\ KeepsPlace(x) /\ reqs[x].handler \in Instance \cup {None}
        BY <2>3, <1>1, ReqAns, ReqsType DEF KeepsPlace, Request
      <3>2. Reports(urgent', x) = Reports(urgent, x)
        BY <3>1, <1>1, <1>2, ReportsAppend
      <3> QED
        BY <3>1, <3>2, <1>1, <1>4, PlaceKept
    <2> QED
      BY <2>2, <2>3, <1>1, <1>3, CountsKept
  <1> QED
    BY <1>5, <1>6

\* A request arrives: nothing is settled for it.
LEMMA BeginsCounts ==
  ASSUME LifeInvariant, TypeOK', NEW r, NEW i, Begins(r, i),
         \A x \in Id' \ Id : CountedOnce(x)',
         \A x \in Id : Req(x) \in ToSend' => Req(x) \in ToSend,
         \A x \in Id : Ans(x) \in ToSend' => Ans(x) \in ToSend
  PROVE  Counts'
  <1>1. /\ TypeOK /\ r \in Id /\ i \in Instance /\ state' = state /\ urgent' = urgent
        /\ handling' = [handling EXCEPT ![i] = @ \cup {r}]
        /\ Kin(reqs') /\ SameCounts(reqs')
        /\ \A x \in Id : x # r => reqs'[x].handler = reqs[x].handler
        /\ Req(r) \in Arriving /\ Arriving' \subseteq Arriving
    BY LifeFacts DEF Begins
  <1>2. \A x \in Id : IsUser(x)' = IsUser(x)
    BY <1>1, KinId
  <1>3. \A x \in Id : Unsettled(x)' => Unsettled(x)
    BY <1>1 DEF Unsettled
  <1>4. \A x \in Id : Settled(x)' = Settled(x) /\ reqs'[x].succeeded = reqs[x].succeeded
    BY <1>1 DEF Settled, SameCounts
  <1>5. ASSUME IsUser(r) PROVE CountedOnce(r)'
    <2>1. Tally(Unsettled(r), Handled(r), Killed(r), Settled(r), reqs[r].succeeded)
      BY <1>1, <1>5, LifeFacts DEF Counts, CountedOnce
    <2>2. Unsettled(r)
      BY <1>1 DEF Unsettled
    <2>3. /\ Unsettled(r) \/ (Handled(r) /\ ~Killed(r))
          /\ r \in Id /\ TypeOK /\ IsUser(r) /\ IsUser(r)' = IsUser(r)
          /\ Settled(r)' = Settled(r) /\ reqs'[r].succeeded = reqs[r].succeeded
      BY <2>2, <1>1, <1>2, <1>4, <1>5
    <2> QED
      BY <2>1, <2>3, NothingSettled
  <1>6. ASSUME NEW x \in Id, x # r PROVE SettlesNothing(x)
    <2>1. handling \in [Instance -> SUBSET Id]
      BY <1>1 DEF TypeOK
    <2>2. \A j \in Instance : x \in handling'[j] => x \in handling[j]
      BY <2>1, <1>1, <1>6
    <2>3. reqs'[x].handler = reqs[x].handler /\ reqs[x].handler \in Instance \cup {None}
      BY <1>1, <1>6, ReqsType DEF Request
    <2>4. Handled(x)' => Handled(x)
      BY <2>2, <2>3 DEF Handled
    <2>5. Killed(x) => Killed(x)'
      BY <2>3, <1>1 DEF Killed
    <2> QED
      BY <2>4, <2>5, <1>3, <1>4 DEF SettlesNothing
  <1> QED
    BY <1>1, <1>5, <1>6, CountsKept DEF SameCounts

LEMMA LeafCounts ==
  ASSUME LifeInvariant, TypeOK', NEW r, NEW i, BeginsLeaf(r, i)
  PROVE  Counts'
  <1>1. Begins(r, i) /\ ToSend' = ToSend /\ Id' = Id
    BY DEF BeginsLeaf, Id
  <1> QED
    BY <1>1, BeginsCounts

LEMMA CompositeCounts ==
  ASSUME LifeInvariant, TypeOK', NEW r, NEW i, BeginsComposite(r, i)
  PROVE  Counts'
  <1>1. /\ Begins(r, i) /\ ToSend' = ToSend \cup {Req(c) : c \in Id' \ Id}
        /\ \A c \in Id' \ Id : reqs'[c].requester = i /\ Unborn(reqs'[c])
        /\ i # Generator
    BY ArchitectureAssumption DEF BeginsComposite, Begins
  <1>2. \A x \in Id' \ Id : CountedOnce(x)'
    BY <1>1, UnbornCounts DEF IsUser
  <1>3. \A x \in Id : /\ Req(x) \in ToSend' => Req(x) \in ToSend
                      /\ Ans(x) \in ToSend' => Ans(x) \in ToSend
    BY <1>1, ReqAns
  <1> QED
    BY <1>1, <1>2, <1>3, BeginsCounts

\* A computed request leaves its handler, and its answer is about to be sent.
LEMMA ComputesCounts ==
  ASSUME LifeInvariant, TypeOK', NEW r, NEW i, Computes(r, i)
  PROVE  Counts'
  <1>1. /\ TypeOK /\ r \in Id /\ i \in Instance /\ Live(i) /\ r \in handling[i]
        /\ Len(reqs') = Len(reqs) /\ Kin(reqs') /\ SameCounts(reqs')
        /\ \A x \in Id : reqs'[x].handler = reqs[x].handler
        /\ handling' = [handling EXCEPT ![i] = @ \ {r}]
        /\ state' = state /\ urgent' = urgent
        /\ ToSend' = ToSend \cup {Ans(r)} /\ Arriving' = Arriving
    BY LifeFacts DEF Computes
  <1>2. Id' = Id /\ \A x \in Id : IsUser(x)' = IsUser(x)
    BY <1>1, KinId DEF Id
  <1>3. \A x \in Id : Settled(x)' = Settled(x) /\ reqs'[x].succeeded = reqs[x].succeeded
    BY <1>1 DEF Settled, SameCounts
  <1>4. ASSUME IsUser(r) PROVE CountedOnce(r)'
    <2>1. Tally(Unsettled(r), Handled(r), Killed(r), Settled(r), reqs[r].succeeded)
      BY <1>1, <1>4, LifeFacts DEF Counts, CountedOnce
    <2>2. Handled(r) /\ reqs[r].handler = i
      BY <1>1, HandledIsSettled
    <2>3. ~Killed(r)
      BY <2>2, <1>1 DEF Killed, Live
    <2>4. /\ Unsettled(r) \/ (Handled(r) /\ ~Killed(r))
          /\ r \in Id /\ TypeOK /\ IsUser(r) /\ IsUser(r)' = IsUser(r)
          /\ Settled(r)' = Settled(r) /\ reqs'[r].succeeded = reqs[r].succeeded
      BY <2>2, <2>3, <1>1, <1>2, <1>3, <1>4
    <2> QED
      BY <2>1, <2>4, NothingSettled
  <1>5. ASSUME NEW x \in Id, x # r PROVE SettlesNothing(x)
    <2>1. handling \in [Instance -> SUBSET Id]
      BY <1>1 DEF TypeOK
    <2>2. \A j \in Instance : handling'[j] \subseteq handling[j]
      BY <2>1, <1>1
    <2>3. KeepsPlace(x) /\ reqs[x].handler \in Instance \cup {None}
      BY <1>1, ReqsType DEF KeepsPlace, SameCounts, Request
    <2>4. Unsettled(x)' => Unsettled(x)
      <3>1. Ans(r) # Req(x) /\ Ans(r) # Ans(x)
        BY <1>5, ReqAns
      <3> QED
        BY <3>1, <1>1 DEF Unsettled
    <2> QED
      BY <2>2, <2>3, <2>4, <1>1, PlaceKept
  <1> QED
    BY <1>1, <1>2, <1>4, <1>5, CountsKept DEF SameCounts

\* The failure of a handled request is reported: it settles once more, and
\* may have been settled only if its handler was killed.
LEMMA ReportedOnce ==
  ASSUME LifeInvariant, NEW i \in Instance, NEW x \in handling[i], IsUser(x),
         IsUser(x)' = IsUser(x), Unsettled(x)' => Unsettled(x),
         reqs'[x].handler = reqs[x].handler,
         reqs'[x].succeeded = reqs[x].succeeded,
         Settled(x)' = Settled(x) + 1, Killed(x) => Killed(x)',
         Handled(x)' => ~Killed(x) /\ Killed(x)'
  PROVE  CountedOnce(x)'
  <1>1. x \in Id /\ Handled(x) /\ ~Unsettled(x) /\ TypeOK
    BY HandledIsSettled, LifeFacts
  <1>2. ~Unsettled(x)'
    BY <1>1
  <1>3. Tally(Unsettled(x), Handled(x), Killed(x), Settled(x), reqs[x].succeeded)
    BY <1>1, LifeFacts DEF Counts, CountedOnce
  <1>4. PICK k \in Nat : k = Settled(x)
    BY <1>1, CountNumbers
  <1>5. k <= (IF Killed(x) THEN 1 ELSE 0) /\ reqs'[x].succeeded = 0 /\ Settled(x)' = k + 1
    BY <1>1, <1>3, <1>4 DEF Tally
  <1>6. CASE Killed(x)
    <2>1. k + 1 <= 2 /\ ~Handled(x)' /\ Killed(x)'
      BY <1>5, <1>6
    <2> QED
      BY <2>1, <1>2, <1>5 DEF CountedOnce, Tally
  <1>7. CASE ~Killed(x)
    <2>1. k + 1 <= 1 /\ (Handled(x)' => Killed(x)')
      BY <1>5, <1>7
    <2> QED
      BY <2>1, <1>2, <1>5 DEF CountedOnce, Tally
  <1> QED
    BY <1>6, <1>7

\* A request that a dependency fails is reported and not handled any more; t
\* is what was to be reported before.
LEMMA AbandonsCounts ==
  ASSUME LifeInvariant, TypeOK', NEW r, NEW i, NEW p, Abandons(r, i, p),
         NEW t \in Seq(Cancellation),
         \A x \in Id : IsUser(x) => Reports(t, x) = Reports(urgent, x),
         urgent' = Append(t, Cancel(Req(p), "DEPENDENCY_NOT_AVAILABLE")),
         \A x : Unsettled(x)' => Unsettled(x)
  PROVE  Counts'
  <1> DEFINE c == Cancel(Req(p), "DEPENDENCY_NOT_AVAILABLE")
  <1>1. /\ TypeOK /\ p \in Id /\ i \in Instance /\ p \in handling[i]
        /\ Kin(reqs') /\ SameLife(reqs') /\ Len(reqs') = Len(reqs) /\ SameCounts(reqs')
        /\ state' = state
        /\ handling' = [handling EXCEPT ![i] = @ \ {p}]
        /\ c \in Cancellation /\ urgent' = Append(t, c)
    BY LifeFacts DEF Abandons
  <1>2. c.m = Req(p) /\ t \in Seq(Cancellation)
    BY DEF Cancel
  <1> HIDE DEF c
  <1>3. \A x \in Id : IsUser(x) => Reports(t, x) = Reports(urgent, x)
    OBVIOUS
  <1>4. Id' = Id /\ \A x \in Id : IsUser(x)' = IsUser(x)
    BY <1>1, KinId DEF Id
  <1>5. /\ \A x \in Id : KeepsPlace(x) /\ reqs[x].handler \in Instance \cup {None}
        /\ \A x : Unsettled(x)' => Unsettled(x)
        /\ \A j \in Instance : handling'[j] \subseteq handling[j]
    <2>1. \A x \in Id : KeepsPlace(x) /\ reqs[x].handler \in Instance \cup {None}
      BY <1>1, ReqsType DEF KeepsPlace, SameLife, SameCounts, Request
    <2>2. \A j \in Instance : handling'[j] \subseteq handling[j]
      BY <1>1 DEF TypeOK
    <2> QED
      BY <2>1, <2>2
  <1>6. ASSUME IsUser(p) PROVE CountedOnce(p)'
    <2>1. /\ reqs'[p].handler = reqs[p].handler /\ reqs'[p].succeeded = reqs[p].succeeded
          /\ reqs'[p].failed = reqs[p].failed /\ reqs[p].handler = i
      BY <1>1, <1>5, HandledIsSettled DEF KeepsPlace
    <2>2. Settled(p)' = Settled(p) + 1
      BY <2>1, <1>1, <1>2, <1>3, <1>6, OneReport
    <2>3. ~Handled(p)'
      <3>1. p \notin handling'[i]
        BY <1>1 DEF TypeOK
      <3> QED
        BY <3>1, <2>1 DEF Handled
    <2>4. Killed(p) => Killed(p)'
      BY <2>1, <1>1 DEF Killed
    <2> QED
      BY <2>1, <2>2, <2>3, <2>4, <1>1, <1>4, <1>5, <1>6, ReportedOnce
  <1>7. ASSUME NEW x \in Id, x # p, IsUser(x) PROVE SettlesNothing(x)
    <2>1. c.m # Req(x)
      BY <1>2, <1>7, ReqOnce
    <2>2. Reports(urgent', x) = Reports(urgent, x)
      <3>1. /\ Reports(t, x) \in Nat
            /\ Reports(Append(t, c), x) = Reports(t, x) + IF c.m = Req(x) THEN 1 ELSE 0
        BY <1>1, <1>2, ReportsAppend
      <3> QED
        BY <3>1, <2>1, <1>1, <1>3, <1>7
    <2> QED
      BY <2>2, <1>1, <1>5, PlaceKept
  <1> QED
    BY <1>1, <1>4, <1>6, <1>7, CountsKept DEF SameCounts

LEMMA GivesUpCounts ==
  ASSUME LifeInvariant, TypeOK', NEW m, NEW i, NEW p, Cancels(m), GivesUp(m, i, p)
  PROVE  Counts'
  <1> DEFINE t == Tail(urgent)
  <1>1. /\ TypeOK /\ urgent # <<>> /\ m = Head(urgent).m /\ ~IsUser(m.r)
        /\ ToSend' = ToSend /\ Arriving' = Arriving /\ Abandons(m.r, i, p)
        /\ urgent' = Append(t, Cancel(Req(p), "DEPENDENCY_NOT_AVAILABLE"))
    BY LifeFacts, GivesUpAbandons DEF GivesUp, Cancels, Quiet
  <1>2. t \in Seq(Cancellation)
    BY <1>1 DEF TypeOK
  <1>3. \A x \in Id : IsUser(x) => Reports(t, x) = Reports(urgent, x)
    BY <1>1, TailReports
  <1>4. \A x : Unsettled(x)' => Unsettled(x)
    BY <1>1 DEF Unsettled
  <1> HIDE DEF t
  <1> QED
    BY <1>1, <1>2, <1>3, <1>4, AbandonsCounts

\* The requests of a killed instance are reported.
LEMMA DiesCounts ==
  ASSUME LifeInvariant, TypeOK', NEW i, NEW ids, Dies(i, ids)
  PROVE  Counts'
  <1>1. /\ TypeOK /\ i \in Instance /\ state[i] = "RUNNING" /\ urgent = <<>>
        /\ ids \in Ascending(handling[i]) /\ urgent' = Informed(ids)
        /\ state' = [state EXCEPT ![i] = "KILLED"] /\ handling' = handling
        /\ Kin(reqs') /\ SameLife(reqs') /\ Len(reqs') = Len(reqs) /\ SameCounts(reqs')
        /\ ToSend' = ToSend /\ Arriving' = Arriving
    BY LifeFacts DEF Dies, Quiet, ClearsRetry
  <1>2. Id' = Id /\ \A x \in Id : IsUser(x)' = IsUser(x)
    BY <1>1, KinId DEF Id
  <1>3. \A j \in Instance : /\ state[j] = "KILLED" => state'[j] = "KILLED"
                            /\ state'[i] = "KILLED"
    BY <1>1 DEF TypeOK
  <1>4. \A x : /\ Reports(urgent, x) = 0
               /\ Reports(urgent', x) = IF x \in handling[i] THEN 1 ELSE 0
    BY <1>1, ReportsNone, ReportsInformed
  <1>5. /\ \A x \in Id : KeepsPlace(x) /\ reqs[x].handler \in Instance \cup {None}
        /\ \A x : Unsettled(x)' => Unsettled(x)
    <2>1. \A x \in Id : KeepsPlace(x) /\ reqs[x].handler \in Instance \cup {None}
      BY <1>1, ReqsType DEF KeepsPlace, SameLife, SameCounts, Request
    <2>2. \A x : Unsettled(x)' => Unsettled(x)
      BY <1>1 DEF Unsettled
    <2> QED
      BY <2>1, <2>2
  <1>6. ASSUME NEW x \in handling[i], IsUser(x) PROVE CountedOnce(x)'
    <2>1. x \in Id /\ reqs[x].handler = i /\ Handled(x)
      BY <1>1, HandledIsSettled
    <2>2. /\ reqs'[x].handler = reqs[x].handler /\ reqs'[x].succeeded = reqs[x].succeeded
          /\ reqs'[x].failed = reqs[x].failed
      BY <2>1, <1>5 DEF KeepsPlace
    <2>3. ~Killed(x) /\ Killed(x)'
      BY <2>1, <2>2, <1>1, <1>3, ArchitectureAssumption DEF Killed
    <2>4. Settled(x)' = Settled(x) + 1
      <3>1. PICK a \in Nat, b \in Nat : a = reqs[x].succeeded /\ b = reqs[x].failed
        BY <2>1, <1>1, CountNumbers
      <3>2. Settled(x)' = 1 + a + b /\ Settled(x) = 0 + a + b
        BY <3>1, <2>2, <1>4, SettledIs
      <3> QED
        BY <3>1, <3>2
    <2> QED
      BY <2>1, <2>2, <2>3, <2>4, <1>1, <1>2, <1>5, <1>6, ReportedOnce
  <1>7. ASSUME NEW x \in Id, x \notin handling[i] PROVE SettlesNothing(x)
    <2>1. Reports(urgent', x) = Reports(urgent, x)
      BY <1>4, <1>7
    <2> QED
      BY <2>1, <1>1, <1>3, <1>5, PlaceKept
  <1> QED
    BY <1>1, <1>2, <1>6, <1>7, CountsKept DEF SameCounts

\* Nothing is settled for a new user request.
LEMMA AsksCounts ==
  ASSUME LifeInvariant, TypeOK', NEW new, Asks(new)
  PROVE  Counts'
  <1>1. /\ Id' = Id \cup {new} /\ new \notin Id /\ Kin(reqs') /\ SameLife(reqs')
        /\ SameCounts(reqs') /\ Unborn(reqs'[new])
        /\ UNCHANGED <<state, handling, urgent>> /\ urgent = <<>>
        /\ ToSend' = ToSend \cup {Req(new)} /\ Arriving' = Arriving
    BY DEF Asks
  <1>2. CountedOnce(new)'
    <2>1. /\ reqs'[new].handler = None /\ reqs'[new].succeeded = 0 /\ reqs'[new].failed = 0
      BY <1>1 DEF Unborn
    <2>2. ~Handled(new)'
      BY <2>1 DEF Handled
    <2>3. Settled(new)' = 0 + 0 + 0
      BY <2>1, <1>1, SettledIs, ReportsNone
    <2> QED
      BY <2>1, <2>2, <2>3 DEF CountedOnce, Tally
  <1>3. \A x \in Id : Unsettled(x)' => Unsettled(x)
    <2>1. \A x \in Id : Req(new) # Req(x) /\ Req(new) # Ans(x)
      BY <1>1, ReqAns
    <2> QED
      BY <2>1, <1>1 DEF Unsettled
  <1> QED
    BY <1>1, <1>2, <1>3, CountsQuiet DEF SameLife

-----------------------------------------------------------------------------
(* Computing.                                                              *)

\* The requests of an instance that wait for their dependencies
Waits(i) == {p \in handling[i] : ~DepsCompleted(p)}

\* What the instances compute, and count
Work == ComputedIsComplete /\ CompleteIsComputed /\ StatisticsMatch

LEMMA WorkFacts ==
  ASSUME LifeInvariant
  PROVE  /\ Work /\ TypeOK /\ \A i \in Instance : Waits(i) \subseteq handling[i]
         /\ \A i \in Instance :
              /\ IsFiniteSet(handling[i]) /\ IsFiniteSet(Waits(i))
              /\ notComputed[i] = Cardinality(handling[i])
              /\ waiting[i] = Cardinality(Waits(i))
  <1>1. Work /\ TypeOK
    BY LifeFacts DEF Work
  <1>2. Len(reqs) \in Nat
    BY <1>1, ReqsType
  <1>3. IsFiniteSet(Id)
    BY <1>2, FS_Interval DEF Id
  <1>4. ASSUME NEW i \in Instance
        PROVE  /\ Waits(i) \subseteq handling[i]
               /\ IsFiniteSet(handling[i]) /\ IsFiniteSet(Waits(i))
    <2>1. handling[i] \subseteq Id /\ Waits(i) \subseteq handling[i]
      BY <1>1 DEF TypeOK, Waits
    <2> QED
      BY <2>1, <1>3, FS_Subset
  <1>5. \A i \in Instance : /\ notComputed[i] = Cardinality(handling[i])
                            /\ waiting[i] = Cardinality(Waits(i))
    BY <1>1 DEF Work, StatisticsMatch, Waits
  <1> QED
    BY <1>1, <1>4, <1>5

\* The statistics of every instance are what they should be.
LEMMA StatisticsAre ==
  ASSUME \A i \in Instance : /\ notComputed'[i] = Cardinality(handling'[i])
                             /\ waiting'[i] = Cardinality(Waits(i)')
  PROVE  StatisticsMatch'
  BY DEF StatisticsMatch, Waits

\* Dependencies are completed as they were.
LEMMA CompletedKept ==
  ASSUME TypeOK, TypeOK', Kin(reqs'), NEW x \in Id, reqs'[x].done = reqs[x].done
  PROVE  DepsCompleted(x)' <=> DepsCompleted(x)
  BY KinId DEF DepsCompleted

\* Most steps complete no dependency and no computation.
LEMMA WorkKept ==
  ASSUME LifeInvariant, TypeOK', Kin(reqs'),
         \A x \in Id : reqs'[x].done = reqs[x].done,
         UNCHANGED <<handling, notComputed, waiting>>,
         \A i \in Instance : cpu'[i] \subseteq cpu[i],
         \A x \in finishing' : x \in finishing \/ \E i \in Instance : x \in cpu[i],
         \A i \in Instance : Live(i)' =>
           Live(i) /\ cpu[i] \cup finishing \subseteq cpu'[i] \cup finishing'
  PROVE  Work'
  <1>1. /\ TypeOK /\ Work /\ finishing \subseteq Id
        /\ \A i \in Instance : cpu[i] \subseteq Id /\ handling[i] \subseteq Id
    BY WorkFacts DEF TypeOK
  <1>2. /\ \A x \in Id : DepsCompleted(x)' <=> DepsCompleted(x)
        /\ \A x \in Id : IsUser(x)' = IsUser(x) /\ Parent(x)' = Parent(x)
        /\ \A x \in Id : reqs'[x].requester = reqs[x].requester
    BY <1>1, CompletedKept, KinId DEF Kin
  <1>3. ComputedIsComplete'
    BY <1>1, <1>2 DEF Work, ComputedIsComplete
  <1>4. CompleteIsComputed'
    <2> SUFFICES ASSUME NEW i \in Instance, Live(i)', NEW p \in handling[i], DepsCompleted(p)'
                 PROVE  \/ p \in cpu'[i] \cup finishing'
                        \/ ~IsUser(p)' /\ Parent(p)' \notin handling[reqs'[p].requester]
      BY DEF CompleteIsComputed
    <2>1. p \in Id /\ DepsCompleted(p) /\ Live(i)
      BY <1>1, <1>2
    <2>2. \/ p \in cpu[i] \cup finishing
          \/ ~IsUser(p) /\ Parent(p) \notin handling[reqs[p].requester]
      BY <1>1, <2>1 DEF Work, CompleteIsComputed
    <2> QED
      BY <2>1, <2>2, <1>2
  <1>5. StatisticsMatch'
    <2>1. \A i \in Instance : Waits(i)' = Waits(i)
      BY <1>1, <1>2 DEF Waits
    <2> QED
      BY <2>1, WorkFacts, StatisticsAre
  <1> QED
    BY <1>3, <1>4, <1>5 DEF Work

LEMMA SilentWork ==
  ASSUME LifeInvariant, TypeOK', Kin(reqs'), SameLife(reqs'),
         UNCHANGED <<handling, notComputed, waiting, cpu, finishing>>,
         \A i \in Instance : Live(i)' => Live(i)
  PROVE  Work'
  BY WorkKept DEF SameLife

\* A burst ends: the request is about to be completed.
LEMMA BurstWork ==
  ASSUME LifeInvariant, TypeOK', NEW i \in Instance, NEW r, BurstEnds(i, r)
  PROVE  Work'
  <1>1. /\ r \in cpu[i] /\ cpu' = [cpu EXCEPT ![i] = @ \ {r}]
        /\ finishing' = finishing \cup {r} /\ Kin(reqs') /\ SameLife(reqs')
        /\ UNCHANGED <<state, handling, notComputed, waiting>> /\ TypeOK
    BY LifeFacts DEF BurstEnds, Quiet
  <1>2. \A j \in Instance : cpu'[j] = IF j = i THEN cpu[i] \ {r} ELSE cpu[j]
    BY <1>1 DEF TypeOK
  <1>3. \A j \in Instance : Live(j)' = Live(j)
    BY <1>1 DEF Live
  <1> QED
    BY <1>1, <1>2, <1>3, WorkKept DEF SameLife

\* The CPU of a killed instance is cleared, and it is not live any more.
LEMMA DiesWork ==
  ASSUME LifeInvariant, TypeOK', NEW i, NEW ids, Dies(i, ids)
  PROVE  Work'
  <1>1. /\ i \in Instance /\ cpu' = [cpu EXCEPT ![i] = {}]
        /\ state' = [state EXCEPT ![i] = "KILLED"]
        /\ Kin(reqs') /\ SameLife(reqs')
        /\ UNCHANGED <<handling, notComputed, waiting, finishing>> /\ TypeOK
    BY LifeFacts DEF Dies, ClearsRetry
  <1>2. \A j \in Instance : cpu'[j] = IF j = i THEN {} ELSE cpu[j]
    BY <1>1 DEF TypeOK
  <1>3. \A j \in Instance : Live(j)' => Live(j) /\ j # i
    BY <1>1 DEF Live, TypeOK
  <1> QED
    BY <1>1, <1>2, <1>3, WorkKept DEF SameLife

\* One request leaves those an instance handles.
LEMMA OneLess ==
  ASSUME NEW S, NEW x \in S, IsFiniteSet(S)
  PROVE  Cardinality(S \ {x}) = Cardinality(S) - 1
  BY FS_RemoveElement

\* A computed request leaves its instance.
LEMMA ComputesWork ==
  ASSUME LifeInvariant, TypeOK', NEW r, NEW i, Computes(r, i)
  PROVE  Work'
  <1>1. /\ TypeOK /\ Work /\ r \in Id /\ i \in Instance /\ r \in handling[i]
        /\ r \in finishing /\ finishing \subseteq Id
        /\ \A j \in Instance : cpu[j] \subseteq Id /\ handling[j] \subseteq Id
        /\ Kin(reqs') /\ \A x \in Id : reqs'[x].done = reqs[x].done
        /\ finishing' = finishing \ {r} /\ UNCHANGED <<state, waiting, cpu>>
    BY WorkFacts DEF Computes, TypeOK
  <1>2. \A j \in Instance :
          /\ handling'[j] = handling[j] \ {r}
          /\ notComputed'[j] = IF j = i THEN notComputed[i] - 1 ELSE notComputed[j]
    <2>1. \A j \in Instance :
            /\ handling'[j] = IF j = i THEN handling[i] \ {r} ELSE handling[j]
            /\ notComputed'[j] = IF j = i THEN notComputed[i] - 1 ELSE notComputed[j]
      BY <1>1 DEF Computes, TypeOK
    <2>2. \A j \in Instance : r \in handling[j] => j = i
      BY <1>1, HandledIsSettled
    <2> QED
      BY <2>1, <2>2
  <1>3. /\ \A x \in Id : DepsCompleted(x)' <=> DepsCompleted(x)
        /\ \A x \in Id : IsUser(x)' = IsUser(x) /\ Parent(x)' = Parent(x)
        /\ \A x \in Id : reqs'[x].requester = reqs[x].requester
        /\ \A j \in Instance : Live(j)' = Live(j)
    BY <1>1, CompletedKept, KinId DEF Kin, Live
  <1>4. ComputedIsComplete'
    BY <1>1, <1>3 DEF Work, ComputedIsComplete
  <1>5. CompleteIsComputed'
    <2> SUFFICES ASSUME NEW j \in Instance, Live(j)', NEW p \in handling'[j], DepsCompleted(p)'
                 PROVE  \/ p \in cpu'[j] \cup finishing'
                        \/ /\ ~IsUser(p)'
                           /\ Parent(p)' \notin handling'[reqs'[p].requester]
      BY DEF CompleteIsComputed
    <2>1. p \in handling[j] /\ p # r /\ p \in Id /\ DepsCompleted(p) /\ Live(j)
      BY <1>1, <1>2, <1>3
    <2>2. \/ p \in cpu[j] \cup finishing
          \/ ~IsUser(p) /\ Parent(p) \notin handling[reqs[p].requester]
      BY <1>1, <2>1 DEF Work, CompleteIsComputed
    <2>3. ~IsUser(p) => reqs[p].requester \in Instance
      BY <2>1, LifeFacts, InternalFacts
    <2> QED
      BY <2>1, <2>2, <2>3, <1>1, <1>2, <1>3
  <1>6. StatisticsMatch'
    <2>1. DepsCompleted(r)
      BY <1>1 DEF Work, ComputedIsComplete
    <2>2. \A j \in Instance : Waits(j)' = Waits(j)
      BY <2>1, <1>1, <1>2, <1>3 DEF Waits
    <2>3. \A j \in Instance : j # i => r \notin handling[j]
      BY <1>1, HandledIsSettled
    <2>4. ASSUME NEW j \in Instance PROVE notComputed'[j] = Cardinality(handling'[j])
      <3>1. CASE j = i
        BY <3>1, <1>1, <1>2, WorkFacts, OneLess
      <3>2. CASE j # i
        <4>1. handling'[j] = handling[j] /\ notComputed'[j] = notComputed[j]
          BY <3>2, <2>3, <1>2
        <4> QED
          BY <4>1, WorkFacts
      <3> QED
        BY <3>1, <3>2
    <2> QED
      BY <2>2, <2>4, <1>1, WorkFacts, StatisticsAre
  <1> QED
    BY <1>4, <1>5, <1>6 DEF Work

\* One request is added to those an instance handles.
LEMMA OneMoreHandled ==
  ASSUME NEW S, NEW x, x \notin S, IsFiniteSet(S)
  PROVE  Cardinality(S \cup {x}) = Cardinality(S) + 1
  BY FS_AddElement

\* Request r arrives at instance i: it is computed, when w is empty and k is
\* zero, or waits for its dependencies.
Joins(r, i, k, w) ==
  /\ k \in {0, 1} /\ w \in {{}, {r}} /\ (k = 0 <=> w = {})
  /\ DepsCompleted(r)' <=> w = {}
  /\ \A j \in Instance :
       /\ waiting'[j] = IF j = i THEN waiting[i] + k ELSE waiting[j]
       /\ cpu'[j] = IF j = i THEN cpu[i] \cup ({r} \ w) ELSE cpu[j]

LEMMA BeginsWork ==
  ASSUME LifeInvariant, TypeOK', NEW r, NEW i, Begins(r, i), NEW k, NEW w, Joins(r, i, k, w)
  PROVE  Work'
  <1>0. /\ k \in {0, 1} /\ w \in {{}, {r}} /\ (k = 0 <=> w = {})
        /\ DepsCompleted(r)' <=> w = {}
        /\ \A j \in Instance : waiting'[j] = IF j = i THEN waiting[i] + k ELSE waiting[j]
        /\ \A j \in Instance : cpu'[j] = IF j = i THEN cpu[i] \cup ({r} \ w) ELSE cpu[j]
    BY DEF Joins
  <1> USE <1>0
  <1>1. /\ TypeOK /\ Work /\ r \in Id /\ i \in Instance /\ finishing \subseteq Id
        /\ \A j \in Instance : cpu[j] \subseteq Id /\ handling[j] \subseteq Id
        /\ Kin(reqs') /\ \A x \in Id : reqs'[x].done = reqs[x].done
        /\ UNCHANGED <<state, finishing>> /\ \A j \in Instance : r \notin handling[j]
        /\ reqs[r].handler = None
    BY WorkFacts DEF Begins, TypeOK, Untouched
  <1>2. \A j \in Instance :
          /\ handling'[j] = IF j = i THEN handling[i] \cup {r} ELSE handling[j]
          /\ notComputed'[j] = IF j = i THEN notComputed[i] + 1 ELSE notComputed[j]
    BY <1>1 DEF Begins, TypeOK
  <1>3. /\ \A x \in Id : DepsCompleted(x)' <=> DepsCompleted(x)
        /\ \A x \in Id : IsUser(x)' = IsUser(x) /\ Parent(x)' = Parent(x)
        /\ \A x \in Id : reqs'[x].requester = reqs[x].requester
        /\ \A j \in Instance : Live(j)' = Live(j)
    BY <1>1, CompletedKept, KinId DEF Kin, Live
  <1>4. ComputedIsComplete'
    <2>1. ASSUME NEW j \in Instance, NEW p \in cpu'[j] PROVE DepsCompleted(p)'
      <3>1. CASE p \in cpu[j]
        BY <3>1, <1>1, <1>3 DEF Work, ComputedIsComplete
      <3>2. CASE p \notin cpu[j]
        <4>1. p = r /\ w = {}
          BY <3>2, <2>1
        <4> QED
          BY <4>1
      <3> QED
        BY <3>1, <3>2
    <2>2. \A p \in finishing : DepsCompleted(p)'
      BY <1>1, <1>3 DEF Work, ComputedIsComplete
    <2> QED
      BY <2>1, <2>2, <1>1 DEF ComputedIsComplete
  <1>5. CompleteIsComputed'
    <2> SUFFICES ASSUME NEW j \in Instance, Live(j)', NEW p \in handling'[j], DepsCompleted(p)'
                 PROVE  \/ p \in cpu'[j] \cup finishing'
                        \/ /\ ~IsUser(p)'
                           /\ Parent(p)' \notin handling'[reqs'[p].requester]
      BY DEF CompleteIsComputed
    <2>1. CASE p = r
      <3>1. w = {}
        BY <2>1
      <3>2. j = i
        BY <2>1, <1>1, <1>2
      <3> QED
        BY <3>1, <3>2, <2>1
    <2>2. CASE p # r
      <3>1. p \in handling[j] /\ p \in Id /\ DepsCompleted(p) /\ Live(j)
        BY <2>2, <1>1, <1>2, <1>3
      <3>2. CASE p \in cpu[j] \cup finishing
        BY <3>2, <1>1
      <3>3. CASE ~IsUser(p) /\ Parent(p) \notin handling[reqs[p].requester]
        <4>1. /\ reqs[p].requester \in Instance
              /\ reqs[Parent(p)].handler = reqs[p].requester
          BY <3>1, <3>3, LifeFacts, InternalFacts
        <4>2. Parent(p) # r
          BY <4>1, <1>1, ArchitectureAssumption
        <4> QED
          BY <4>1, <4>2, <3>1, <3>3, <1>2, <1>3
      <3> QED
        BY <3>1, <3>2, <3>3, <1>1 DEF Work, CompleteIsComputed
    <2> QED
      BY <2>1, <2>2
  <1>6. StatisticsMatch'
    <2>1. \A j \in Instance : Waits(j)' = IF j = i THEN Waits(i) \cup w ELSE Waits(j)
      BY <1>1, <1>2, <1>3 DEF Waits
    <2>2. r \notin Waits(i) /\ r \notin handling[i]
      BY <1>1 DEF Waits
    <2>3. ASSUME NEW j \in Instance
          PROVE  /\ notComputed'[j] = Cardinality(handling'[j])
                 /\ waiting'[j] = Cardinality(Waits(j)')
      <3>1. CASE j # i
        BY <3>1, <2>1, <1>2, WorkFacts
      <3>2. CASE j = i /\ w = {}
        <4>1. Waits(i)' = Waits(i) /\ waiting'[i] = waiting[i]
          <5>1. waiting[i] \in Int
            BY <1>1 DEF TypeOK
          <5> QED
            BY <5>1, <3>2, <2>1
        <4>2. Cardinality(handling'[i]) = Cardinality(handling[i]) + 1
          BY <2>2, <1>1, <1>2, WorkFacts, OneMoreHandled
        <4> QED
          BY <4>1, <4>2, <3>2, <1>2, WorkFacts
      <3>3. CASE j = i /\ w = {r}
        <4>1. k = 1 /\ Waits(i)' = Waits(i) \cup {r}
          BY <3>3, <2>1
        <4>2. /\ Cardinality(handling'[i]) = Cardinality(handling[i]) + 1
              /\ Cardinality(Waits(i)') = Cardinality(Waits(i)) + 1
          BY <4>1, <2>2, <1>1, <1>2, WorkFacts, OneMoreHandled
        <4> QED
          BY <4>1, <4>2, <3>3, <1>2, WorkFacts
      <3> QED
        BY <3>1, <3>2, <3>3
    <2> QED
      BY <2>3, StatisticsAre
  <1> QED
    BY <1>4, <1>5, <1>6 DEF Work

LEMMA LeafWork ==
  ASSUME LifeInvariant, TypeOK', NEW r, NEW i, BeginsLeaf(r, i)
  PROVE  Work'
  <1>1. /\ Begins(r, i) /\ Deps(r) = {} /\ TypeOK /\ r \in Id /\ i \in Instance
        /\ cpu' = [cpu EXCEPT ![i] = @ \cup {r}] /\ waiting' = waiting /\ Kin(reqs')
    BY LifeFacts DEF BeginsLeaf, Begins
  <1>2. DepsCompleted(r)'
    BY <1>1, KinId DEF DepsCompleted
  <1>3. \A j \in Instance : /\ waiting'[j] = IF j = i THEN waiting[i] + 0 ELSE waiting[j]
                            /\ cpu'[j] = IF j = i THEN cpu[i] \cup ({r} \ {}) ELSE cpu[j]
    BY <1>1 DEF TypeOK
  <1> DEFINE k == 0
             w == {}
  <1>4. k \in {0, 1} /\ w \in {{}, {r}} /\ (k = 0 <=> w = {}) /\ (DepsCompleted(r)' <=> w = {})
    BY <1>2
  <1>5. \A j \in Instance : /\ waiting'[j] = IF j = i THEN waiting[i] + k ELSE waiting[j]
                            /\ cpu'[j] = IF j = i THEN cpu[i] \cup ({r} \ w) ELSE cpu[j]
    BY <1>3
  <1>6. Joins(r, i, k, w)
    BY <1>4, <1>5 DEF Joins
  <1> HIDE DEF k, w
  <1> QED
    BY <1>1, <1>6, BeginsWork

LEMMA CompositeWork ==
  ASSUME LifeInvariant, TypeOK', NEW r, NEW i, BeginsComposite(r, i)
  PROVE  Work'
  <1>1. /\ Begins(r, i) /\ Deps(r) # {} /\ TypeOK /\ r \in Id /\ i \in Instance
        /\ waiting' = [waiting EXCEPT ![i] = @ + 1] /\ cpu' = cpu /\ Kin(reqs')
        /\ reqs'[r].done = {}
    BY LifeFacts DEF BeginsComposite, Begins, Untouched
  <1>2. ~DepsCompleted(r)'
    BY <1>1, KinId DEF DepsCompleted
  <1> DEFINE k == 1
             w == {r}
  <1>4. k \in {0, 1} /\ w \in {{}, {r}} /\ (k = 0 <=> w = {}) /\ (DepsCompleted(r)' <=> w = {})
    BY <1>2
  <1>5. \A j \in Instance : /\ waiting'[j] = IF j = i THEN waiting[i] + k ELSE waiting[j]
                            /\ cpu'[j] = IF j = i THEN cpu[i] \cup ({r} \ w) ELSE cpu[j]
    BY <1>1 DEF TypeOK
  <1>6. Joins(r, i, k, w)
    BY <1>4, <1>5 DEF Joins
  <1> HIDE DEF k, w
  <1> QED
    BY <1>1, <1>6, BeginsWork

\* An answer completes a dependency, and the last one submits the request.
LEMMA ClosesWork ==
  ASSUME LifeInvariant, TypeOK', NEW m, NEW i, NEW p, NEW n, Closes(m, i, p, n)
  PROVE  Work'
  <1>1. /\ TypeOK /\ Work /\ p \in Id /\ n \in DepName /\ i \in Instance
        /\ finishing \subseteq Id /\ p \in handling[i] /\ <<p, n>> \in openDeps[i]
        /\ \A j \in Instance : cpu[j] \subseteq Id /\ handling[j] \subseteq Id
        /\ Kin(reqs') /\ UNCHANGED <<state, handling, notComputed, finishing>>
        /\ \A x \in Id : reqs'[x].done = IF x = p THEN reqs[x].done \cup {n}
                                                  ELSE reqs[x].done
    BY WorkFacts DEF Closes, TypeOK
  <1>2. n \in Deps(p) \ reqs[p].done
    BY <1>1, LifeFacts DEF Instances, OpenIsWaiting
  <1>3. /\ \A x \in Id : x # p => (DepsCompleted(x)' <=> DepsCompleted(x))
        /\ \A x \in Id : IsUser(x)' = IsUser(x) /\ Parent(x)' = Parent(x)
        /\ \A x \in Id : reqs'[x].requester = reqs[x].requester
        /\ \A j \in Instance : Live(j)' = Live(j)
    BY <1>1, CompletedKept, KinId DEF Kin, Live
  <1>4. ~DepsCompleted(p) /\ (DepsCompleted(p)' <=> Completes(p, n))
    BY <1>1, <1>2, KinId DEF DepsCompleted, Completes
  <1>5. \A j \in Instance :
          /\ waiting'[j] = IF j = i /\ Completes(p, n) THEN waiting[j] - 1 ELSE waiting[j]
          /\ cpu'[j] = IF j = i /\ Completes(p, n) THEN cpu[j] \cup {p} ELSE cpu[j]
    BY <1>1 DEF Closes, TypeOK
  <1>6. \A j \in Instance : p \in handling[j] => j = i
    BY <1>1, HandledIsSettled
  <1>7. ComputedIsComplete'
    <2>1. ASSUME NEW j \in Instance, NEW x \in cpu'[j] PROVE DepsCompleted(x)'
      <3>1. CASE x \in cpu[j]
        BY <3>1, <1>1, <1>3, <1>4 DEF Work, ComputedIsComplete
      <3>2. CASE x \notin cpu[j]
        <4>1. x = p /\ Completes(p, n)
          BY <3>2, <2>1, <1>5
        <4> QED
          BY <4>1, <1>4
      <3> QED
        BY <3>1, <3>2
    <2>2. ASSUME NEW x \in finishing PROVE DepsCompleted(x)'
      BY <2>2, <1>1, <1>3, <1>4 DEF Work, ComputedIsComplete
    <2> QED
      BY <2>1, <2>2, <1>1 DEF ComputedIsComplete
  <1>8. CompleteIsComputed'
    <2> SUFFICES ASSUME NEW j \in Instance, Live(j)', NEW x \in handling'[j], DepsCompleted(x)'
                 PROVE  \/ x \in cpu'[j] \cup finishing'
                        \/ /\ ~IsUser(x)'
                           /\ Parent(x)' \notin handling'[reqs'[x].requester]
      BY DEF CompleteIsComputed
    <2>1. CASE x = p
      BY <2>1, <1>1, <1>4, <1>5, <1>6
    <2>2. CASE x # p
      <3>1. x \in handling[j] /\ x \in Id /\ DepsCompleted(x) /\ Live(j)
        BY <2>2, <1>1, <1>3
      <3>2. \/ x \in cpu[j] \cup finishing
            \/ ~IsUser(x) /\ Parent(x) \notin handling[reqs[x].requester]
        BY <3>1, <1>1 DEF Work, CompleteIsComputed
      <3>3. cpu[j] \subseteq cpu'[j]
        BY <1>5
      <3> QED
        BY <3>1, <3>2, <3>3, <1>1, <1>3
    <2> QED
      BY <2>1, <2>2
  <1>9. StatisticsMatch'
    <2>1. \A j \in Instance :
            Waits(j)' = IF j = i /\ Completes(p, n) THEN Waits(j) \ {p} ELSE Waits(j)
      BY <1>1, <1>3, <1>4, <1>6 DEF Waits
    <2>2. p \in Waits(i)
      BY <1>1, <1>4 DEF Waits
    <2>3. ASSUME NEW j \in Instance PROVE waiting'[j] = Cardinality(Waits(j)')
      <3>1. CASE j = i /\ Completes(p, n)
        <4>1. Waits(i)' = Waits(i) \ {p} /\ waiting'[i] = waiting[i] - 1
          BY <3>1, <2>1, <1>5
        <4> QED
          BY <4>1, <3>1, <2>2, WorkFacts, OneLess
      <3>2. CASE ~(j = i /\ Completes(p, n))
        BY <3>2, <2>1, <1>5, WorkFacts
      <3> QED
        BY <3>1, <3>2
    <2> QED
      BY <2>3, <1>1, WorkFacts, StatisticsAre
  <1> QED
    BY <1>7, <1>8, <1>9 DEF Work

\* A request that a dependency fails leaves its instance, and its children are
\* not computed to the end any more.
LEMMA AbandonsWork ==
  ASSUME LifeInvariant, TypeOK', NEW r, NEW i, NEW p, Abandons(r, i, p)
  PROVE  Work'
  <1>1. /\ TypeOK /\ Work /\ p \in Id /\ i \in Instance /\ r \in Id /\ ~IsUser(r)
        /\ finishing \subseteq Id /\ p \in handling[i] /\ DepOf(r) \in openDeps[i]
        /\ p = Parent(r)
        /\ \A j \in Instance : cpu[j] \subseteq Id /\ handling[j] \subseteq Id
        /\ Kin(reqs') /\ UNCHANGED <<state, cpu>> /\ SameLife(reqs')
        /\ finishing' = finishing \ Children(p)
    BY WorkFacts DEF Abandons, TypeOK
  <1>2. p \in Waits(i)
    <2>1. DepOf(r) = <<p, reqs[r].dep>> /\ reqs[r].dep \in DepName
      BY <1>1, LifeFacts, InternalFacts DEF DepOf
    <2>2. reqs[r].dep \in Deps(p) \ reqs[p].done
      BY <2>1, <1>1, LifeFacts DEF Instances, OpenIsWaiting
    <2> QED
      BY <2>2, <1>1 DEF Waits, DepsCompleted
  <1>3. /\ \A x \in Id : DepsCompleted(x)' <=> DepsCompleted(x)
        /\ \A x \in Id : IsUser(x)' = IsUser(x) /\ Parent(x)' = Parent(x)
        /\ \A x \in Id : reqs'[x].requester = reqs[x].requester
        /\ \A j \in Instance : Live(j)' = Live(j)
    BY <1>1, CompletedKept, KinId DEF Kin, Live, SameLife
  <1>4. \A j \in Instance :
          /\ handling'[j] = IF j = i THEN handling[j] \ {p} ELSE handling[j]
          /\ waiting'[j] = IF j = i THEN waiting[j] - 1 ELSE waiting[j]
          /\ notComputed'[j] = IF j = i THEN notComputed[j] - 1 ELSE notComputed[j]
    BY <1>1 DEF Abandons, TypeOK
  <1>5. \A j \in Instance : p \in handling[j] => j = i /\ reqs[p].handler = i
    BY <1>1, HandledIsSettled
  <1>6. ComputedIsComplete'
    BY <1>1, <1>3 DEF Work, ComputedIsComplete
  <1>7. CompleteIsComputed'
    <2> SUFFICES ASSUME NEW j \in Instance, Live(j)', NEW x \in handling'[j], DepsCompleted(x)'
                 PROVE  \/ x \in cpu'[j] \cup finishing'
                        \/ /\ ~IsUser(x)'
                           /\ Parent(x)' \notin handling'[reqs'[x].requester]
      BY DEF CompleteIsComputed
    <2>1. x \in handling[j] /\ x \in Id /\ DepsCompleted(x) /\ Live(j)
      BY <1>1, <1>3, <1>4
    <2>2. CASE x \in cpu[j] \cup finishing'
      BY <2>2, <1>1
    <2>3. CASE x \in Children(p)
      <3>1. PICK n \in Deps(p) : x = reqs[p].child[n]
        BY <2>3 DEF Children
      <3>2. Linked(p) /\ reqs[p].handler = i /\ reqs[p].handler # None
        BY <1>1, <1>5, LifeFacts, ArchitectureAssumption
      <3>3. DepOf(x) = <<p, n>> /\ ~IsUser(x)
        BY <3>1, <3>2 DEF Linked
      <3>4. Parent(x) = p /\ reqs[x].requester = i
        <4>1. Parent(x) = p
          BY <3>3 DEF DepOf, Parent
        <4> QED
          BY <4>1, <3>2, <3>3, <2>1, LifeFacts, InternalFacts
      <3>5. ~IsUser(x)' /\ Parent(x)' = p /\ reqs'[x].requester = i
        BY <3>3, <3>4, <2>1, <1>3
      <3>6. p \notin handling'[i]
        BY <1>1, <1>4
      <3> QED
        BY <3>5, <3>6
    <2>4. CASE ~IsUser(x) /\ Parent(x) \notin handling[reqs[x].requester]
      <3>1. reqs[x].requester \in Instance
        BY <2>1, <2>4, LifeFacts, InternalFacts
      <3> QED
        BY <3>1, <2>1, <2>4, <1>3, <1>4
    <2>5. \/ x \in cpu[j] \cup finishing
          \/ ~IsUser(x) /\ Parent(x) \notin handling[reqs[x].requester]
      BY <2>1, <1>1 DEF Work, CompleteIsComputed
    <2> QED
      BY <2>2, <2>3, <2>4, <2>5, <1>1
  <1>8. StatisticsMatch'
    <2>1. \A j \in Instance : Waits(j)' = IF j = i THEN Waits(j) \ {p} ELSE Waits(j)
      BY <1>1, <1>3, <1>4 DEF Waits
    <2>2. ASSUME NEW j \in Instance
          PROVE  /\ notComputed'[j] = Cardinality(handling'[j])
                 /\ waiting'[j] = Cardinality(Waits(j)')
      <3>1. CASE j = i
        <4>1. /\ Cardinality(handling[i] \ {p}) = Cardinality(handling[i]) - 1
              /\ Cardinality(Waits(i) \ {p}) = Cardinality(Waits(i)) - 1
          BY <1>1, <1>2, WorkFacts, OneLess
        <4> QED
          BY <4>1, <3>1, <2>1, <1>4, WorkFacts
      <3>2. CASE j # i
        BY <3>2, <2>1, <1>4, WorkFacts
      <3> QED
        BY <3>1, <3>2
    <2> QED
      BY <2>2, StatisticsAre
  <1> QED
    BY <1>6, <1>7, <1>8 DEF Work

-----------------------------------------------------------------------------
(* The steps.                                                              *)

\* What LifeInvariant adds to HandlingInvariant
Life == Lineage /\ Messages /\ OpenIsCared /\ AttemptsRemembered /\ Counts /\ Work

LEMMA LifeParts ==
  /\ LifeInvariant <=> HandlingInvariant /\ Life
  /\ (HandlingInvariant /\ Life)' => LifeInvariant'
  BY DEF LifeInvariant, Life, Work

LEMMA InitLife ==
  ASSUME Init
  PROVE  LifeInvariant
  <1>1. /\ reqs = <<>> /\ urgent = <<>> /\ due = <<>> /\ flight = {} /\ finishing = {}
        /\ armed = {} /\ \A i \in Instance : handling[i] = {} /\ cpu[i] = {}
        /\ \A i \in Instance : outgoing[i] = {}
        /\ \A i \in Instance : notComputed[i] = 0 /\ waiting[i] = 0
    BY DEF Init
  <1>2. Id = {} /\ Range(due) = {} /\ Range(urgent) = {}
    BY <1>1 DEF Id, Range
  <1>3. Scheduled = {}
    BY <1>1, <1>2 DEF Scheduled
  <1>4. ToSend = {} /\ Arriving = {} /\ Failing = {} /\ Heard = {}
    BY <1>1, <1>2, <1>3 DEF ToSend, Arriving, Failing, Heard, MessagesOf
  <1>5. Lineage /\ AttemptsRemembered /\ Counts
    BY <1>2 DEF Lineage, AttemptsRemembered, Counts
  <1>6. Messages
    <2>1. ToSendIsUnknown /\ AnswersReturn
      BY <1>3, <1>4 DEF ToSendIsUnknown, AnswersReturn
    <2>2. AnswersComputed
      BY <1>1, <1>4 DEF AnswersComputed, AnswerOnce
    <2>3. UsersAtOnce
      BY <1>1 DEF UsersAtOnce, MessagesOf
    <2> QED
      BY <2>1, <2>2, <2>3 DEF Messages
  <1>7. OpenIsCared /\ ComputedIsComplete /\ CompleteIsComputed
    BY <1>1 DEF OpenIsCared, ComputedIsComplete, CompleteIsComputed
  <1>8. StatisticsMatch
    <2> SUFFICES ASSUME NEW i \in Instance
                 PROVE  /\ notComputed[i] = Cardinality(handling[i])
                        /\ waiting[i] = Cardinality({p \in handling[i] : ~DepsCompleted(p)})
      BY DEF StatisticsMatch
    <2>1. handling[i] = {} /\ {p \in handling[i] : ~DepsCompleted(p)} = {}
      BY <1>1
    <2> QED
      BY <2>1, <1>1, FS_EmptySet
  <1> QED
    BY <1>5, <1>6, <1>7, <1>8, InitHandling DEF LifeInvariant

\* A message is sent, or stopped.
LEMMA DepartsLife ==
  ASSUME LifeInvariant, TypeOK', Lineage', Messages', NEW m, Departs(m)
  PROVE  Life'
  <1>1. Work'
    BY SilentWork DEF Departs, Live
  <1>2. Leaves(m)
    BY DEF Departs, Leaves
  <1> QED
    BY <1>1, <1>2, SendsCared, SendsAttempts, SendsCounts DEF Life

LEMMA SendLife ==
  ASSUME LifeInvariant, TypeOK', NEW e, NEW q, NEW f, Taken(e, q, f),
         e.type = "send", Send(e.m, q, f)
  PROVE  Life'
  BY SendsMessage, DepartsLife

\* A message arrives.
LEMMA ReceiveLife ==
  ASSUME LifeInvariant, TypeOK', NEW e, NEW q, NEW f, Taken(e, q, f),
         e.type = "receive", Receive(e.m, e.i, q, f)
  PROVE  Life'
  <1>1. flight' = f /\ UNCHANGED <<state, finishing>>
    BY DEF Receive
  <1>2. CASE ReceiveRequest(e.m, e.i, q) /\ ReceiveLeafRequest(e.m.r, e.i, q)
    <2>1. BeginsLeaf(e.m.r, e.i) /\ Lineage' /\ Messages'
      BY <1>1, <1>2, LeafEffects
    <2> QED
      BY <2>1, LeafCared, LeafAttempts, LeafCounts, LeafWork DEF Life
  <1>3. CASE ReceiveRequest(e.m, e.i, q) /\ ReceiveCompositeRequest(e.m.r, e.i, q)
    <2>1. BeginsComposite(e.m.r, e.i) /\ Lineage' /\ Messages'
      BY <1>1, <1>3, CompositeEffects
    <2> QED
      BY <2>1, CompositeCared, CompositeAttempts, CompositeCounts, CompositeWork DEF Life
  <1>4. CASE ReceiveAnswer(e.m, e.i, q)
    <2>1. PICK p \in Id, n \in DepName : Closes(e.m, e.i, p, n)
      BY <1>1, <1>4, AnswerEffects
    <2>2. Lineage' /\ Messages'
      BY <1>1, <1>4, AnswerEffects
    <2> QED
      BY <2>1, <2>2, ClosesCared, ClosesAttempts, ClosesCounts, ClosesWork DEF Life
  <1>5. CASE Refuse(e.m, e.i, q)
    <2>1. Refuses(e.m, e.i) /\ Lineage' /\ Messages'
      BY <1>1, <1>5, RefusesMessage
    <2>2. /\ UNCHANGED <<reqs, state, handling, notComputed, waiting, cpu, finishing>>
          /\ ToSend' = ToSend
      BY <2>1 DEF Refuses
    <2>3. Kin(reqs') /\ SameLife(reqs') /\ SameTries(reqs') /\ Len(reqs') = Len(reqs)
      BY <2>2, LifeFacts, NothingChanges
    <2>4. AttemptsRemembered' /\ Work'
      BY <2>2, <2>3, QuietAttempts, SilentWork DEF SameLife, Live
    <2> QED
      BY <2>1, <2>4, RefusesCared, RefusesCounts DEF Life
  <1> QED
    BY <1>2, <1>3, <1>4, <1>5 DEF Receive, ReceiveRequest

\* A computation is completed.
LEMMA CompleteLife ==
  ASSUME LifeInvariant, TypeOK', NeverAborts', NEW e, NEW q, Taken(e, q, flight),
         e.type = "computed", CompleteComputation(e.m, e.i, q)
  PROVE  Life'
  <1>1. CASE e.m.r \in finishing
    <2>1. Computes(e.m.r, e.i) /\ Lineage' /\ Messages'
      BY <1>1, ComputesEffects
    <2>2. AttemptsRemembered'
      BY <2>1, QuietAttempts DEF Computes
    <2> QED
      BY <2>1, <2>2, ComputesCared, ComputesCounts, ComputesWork DEF Life
  <1>2. CASE e.m.r \notin finishing
    <2>1. /\ UNCHANGED <<reqs, state, handling, notComputed, waiting, openDeps, cpu,
                         finishing, urgent, armed>>
          /\ ToSend' = ToSend /\ Arriving' = Arriving /\ Failing' = Failing
          /\ Lineage' /\ Messages'
      BY <1>2, CanceledEffects
    <2>2. Kin(reqs') /\ SameLife(reqs') /\ SameTries(reqs') /\ Len(reqs') = Len(reqs)
      BY <2>1, LifeFacts, NothingChanges
    <2>3. AttemptsRemembered' /\ Work'
      BY <2>1, <2>2, QuietAttempts, SilentWork DEF SameLife, Live
    <2> QED
      BY <2>1, <2>3, CanceledCared, CanceledCounts DEF Life
  <1> QED
    BY <1>1, <1>2

\* A shutdown ends.
LEMMA EndLife ==
  ASSUME LifeInvariant, TypeOK', NEW e, NEW q, Taken(e, q, flight),
         e.type = "end", EndShutdown(e.i, q)
  PROVE  Life'
  <1>1. ShutdownEnds(e.i) /\ Lineage' /\ Messages'
    BY ShutdownEndEffects DEF EndShutdown
  <1>2. /\ e.i \in Instance /\ Live(e.i) /\ state' = [state EXCEPT ![e.i] = "SHUTDOWN"]
        /\ ClearsRetry(e.i) /\ ToSend' = ToSend
    BY <1>1 DEF ShutdownEnds, Live, Quiet
  <1>3. AttemptsRemembered'
    <2> DEFINE s == "SHUTDOWN"
    <2>1. s \notin {"RUNNING", "SHUTTING_DOWN"} /\ state' = [state EXCEPT ![e.i] = s]
      BY <1>2
    <2> HIDE DEF s
    <2> QED
      BY <2>1, <1>2, ClearsAttempts
  <1>4. Work'
    <2>1. \A j \in Instance : Live(j)' => Live(j)
      BY <1>2, LifeFacts DEF Live, TypeOK
    <2> QED
      BY <2>1, <1>1, SilentWork DEF ShutdownEnds, ClearsRetry
  <1> QED
    BY <1>1, <1>3, <1>4, ShutdownEndsCared, ShutdownEndsCounts DEF Life

\* A delayed cancellation, or a timeout
LEMMA ExpiresLife ==
  ASSUME LifeInvariant, TypeOK', Lineage', Messages', NEW m, Expires(m)
  PROVE  Life'
  <1>1. /\ UNCHANGED <<reqs, state, handling, notComputed, waiting, cpu, finishing>>
        /\ ToSend' = ToSend
    BY DEF Expires, Quiet
  <1>2. Kin(reqs') /\ SameLife(reqs') /\ SameTries(reqs') /\ Len(reqs') = Len(reqs)
    BY <1>1, LifeFacts, NothingChanges
  <1>3. AttemptsRemembered' /\ Work'
    BY <1>1, <1>2, QuietAttempts, SilentWork DEF SameLife, Live
  <1> QED
    BY <1>3, ExpiresCared, ExpiresCounts DEF Life

\* Counting a failure changes nothing else of a request.
LEMMA FailureSame ==
  ASSUME TypeOK, NEW p \in Id, reqs' = [reqs EXCEPT ![p].failed = @ + 1]
  PROVE  /\ Kin(reqs') /\ SameLife(reqs') /\ SameLinks(reqs') /\ SameTries(reqs')
         /\ Len(reqs') = Len(reqs)
  BY SetCounts

\* A failure is reported to those who listen.
LEMMA CancelLife ==
  ASSUME LifeInvariant, TypeOK', CancelRequest
  PROVE  Life'
  <1> DEFINE m == Head(urgent).m
  <1>1. /\ Cancels(m)
        /\ \/ FailAnswer(m) \/ FailUserRequest(m) \/ RetryRequest(m)
           \/ LetRequestFail(m) \/ IgnoreFailure(m)
    BY DEF CancelRequest, Cancels
  <1> HIDE DEF m
  <1>2. /\ urgent # <<>> /\ m \in Message /\ m.r \in Id /\ TypeOK
        /\ UNCHANGED <<state, cpu>>
    <2>1. urgent # <<>> /\ urgent \in Seq(Cancellation) /\ m = Head(urgent).m
          /\ UNCHANGED <<state, cpu>>
      BY <1>1, LifeFacts DEF Cancels, TypeOK
    <2>2. Head(urgent) \in Cancellation
      BY <2>1
    <2> QED
      BY <2>1, <2>2, LifeFacts, ReqAns DEF Cancellation
  <1>3. CASE FailAnswer(m)
    <2>1. /\ m.ans /\ Failed(m) /\ urgent' = Tail(urgent)
          /\ UNCHANGED <<reqs, handling, openDeps, notComputed, waiting, finishing, flight>>
      BY <1>3 DEF FailAnswer
    <2>2. /\ Kin(reqs') /\ SameLife(reqs') /\ SameLinks(reqs') /\ SameTries(reqs')
          /\ SameCounts(reqs') /\ Len(reqs') = Len(reqs)
      BY <2>1, <1>2, NothingChanges
    <2>3. Fails(m) /\ Quiet({}) /\ Lineage' /\ Messages'
      BY <2>1, <2>2, <1>1, QuietFails
    <2>4. OpenIsCared'
      BY <2>1, <2>2, <2>3, FailAnswerCared
    <2>5. AttemptsRemembered'
      BY <2>2, <2>3, <1>2, QuietAttempts DEF Quiet, SameLife
    <2>6. Counts'
      BY <2>1, <2>2, <2>3, <1>1, FailCounts, ReqAns
    <2>7. Work'
      BY <2>1, <2>2, <1>2, SilentWork DEF Live
    <2> QED
      BY <2>3, <2>4, <2>5, <2>6, <2>7 DEF Life
  <1>4. CASE FailUserRequest(m)
    <2>1. /\ ~m.ans /\ IsUser(m.r) /\ Failed(m) /\ urgent' = Tail(urgent)
          /\ UNCHANGED <<handling, openDeps, notComputed, waiting, finishing, flight>>
          /\ reqs' = [reqs EXCEPT ![m.r].failed = @ + 1]
      BY <1>4 DEF FailUserRequest
    <2>2. /\ Kin(reqs') /\ SameLife(reqs') /\ SameLinks(reqs') /\ SameTries(reqs')
          /\ Len(reqs') = Len(reqs)
      BY <2>1, <1>2, FailureSame
    <2>3. Fails(m) /\ Quiet({}) /\ Lineage' /\ Messages'
      BY <2>1, <2>2, <1>1, QuietFails
    <2>4. OpenIsCared'
      BY <2>1, <2>2, <2>3, FailAnswerCared
    <2>5. AttemptsRemembered'
      BY <2>2, <2>3, <1>2, QuietAttempts DEF Quiet, SameLife
    <2>6. Counts'
      BY <2>3, <1>1, <1>4, FailUserCounts
    <2>7. Work'
      BY <2>1, <2>2, <1>2, SilentWork DEF Live
    <2> QED
      BY <2>3, <2>4, <2>5, <2>6, <2>7 DEF Life
  <1>5. CASE RetryRequest(m)
    <2>1. PICK new : Repeats(m, new)
      BY <1>1, <1>5, RepeatsEffects
    <2>2. Lineage' /\ Messages'
      BY <1>1, <1>5, RepeatsEffects
    <2>3. OpenIsCared' /\ AttemptsRemembered' /\ Counts'
      BY <2>1, <1>1, <1>2, RepeatsCared, RepeatsAttempts, RepeatsCounts
    <2>4. Work'
      BY <2>1, <1>2, SilentWork DEF Repeats, Live
    <2> QED
      BY <2>2, <2>3, <2>4 DEF Life
  <1>6. CASE LetRequestFail(m)
    <2>1. PICK i \in Instance, p \in Id : GivesUp(m, i, p)
      BY <1>1, <1>6, GivesUpEffects
    <2>2. Lineage' /\ Messages'
      BY <1>1, <1>6, GivesUpEffects
    <2>3. /\ Quiet({Req(p)}) /\ Forgets(m.r) /\ m = Req(m.r) /\ m \notin ToSend
          /\ ~IsUser(m.r)
      BY <2>1 DEF GivesUp, Fails
    <2>4. AttemptsRemembered'
      BY <2>3, <1>2, ForgetsAttempts
    <2>5. OpenIsCared' /\ Counts' /\ Work'
      BY <2>1, <1>1, GivesUpCared, GivesUpCounts, GivesUpAbandons, AbandonsWork
    <2> QED
      BY <2>2, <2>4, <2>5 DEF Life
  <1>7. CASE IgnoreFailure(m)
    <2>1. Fails(m) /\ Quiet({}) /\ Forgets(m.r) /\ Lineage' /\ Messages'
      BY <1>1, <1>7, IgnoreEffects
    <2>2. /\ ~m.ans /\ ~IsUser(m.r) /\ urgent' = Tail(urgent)
          /\ UNCHANGED <<handling, openDeps, notComputed, waiting, finishing, flight>>
      BY <1>7 DEF IgnoreFailure
    <2>3. m = Req(m.r) /\ m \notin ToSend
      BY <2>1, <2>2 DEF Fails
    <2>4. OpenIsCared'
      BY <2>1, <1>7, IgnoreCared
    <2>5. AttemptsRemembered'
      BY <2>1, <2>2, <2>3, <1>2, ForgetsAttempts
    <2>6. Counts'
      BY <2>1, <2>2, <1>1, FailCounts DEF Forgets
    <2>7. Work'
      BY <2>1, <2>2, <1>2, SilentWork DEF Quiet, Live
    <2> QED
      BY <2>1, <2>4, <2>5, <2>6, <2>7 DEF Life
  <1> QED
    BY <1>1, <1>3, <1>4, <1>5, <1>6, <1>7

\* A burst ends.
LEMMA BurstLife ==
  ASSUME LifeInvariant, TypeOK', NEW i \in Instance, NEW r \in cpu[i], CompleteBurst(i, r)
  PROVE  Life'
  <1>1. BurstEnds(i, r) /\ Lineage' /\ Messages'
    BY BurstEffects
  <1>2. AttemptsRemembered'
    BY <1>1, LifeFacts, NothingChanges, QuietAttempts DEF BurstEnds, Quiet
  <1> QED
    BY <1>1, <1>2, BurstCared, BurstCounts, BurstWork DEF Life

\* A user request is created.
LEMMA AskLife ==
  ASSUME LifeInvariant, TypeOK', NEW op \in UserOp, SendNewUserRequest(op)
  PROVE  Life'
  <1>1. PICK new : Asks(new)
    BY AsksEffects
  <1>2. Lineage' /\ Messages'
    BY AsksEffects
  <1>3. Work'
    BY <1>1, SilentWork DEF Asks, Live
  <1> QED
    BY <1>1, <1>2, <1>3, AsksCared, AsksAttempts, AsksCounts DEF Life

\* An instance is killed.
LEMMA KillLife ==
  ASSUME LifeInvariant, TypeOK', NEW i \in Instance, Kill(i)
  PROVE  Life'
  <1>1. PICK ids : Dies(i, ids)
    BY DiesEffects
  <1>2. Lineage' /\ Messages'
    BY DiesEffects
  <1>3. /\ Live(i) /\ state' = [state EXCEPT ![i] = "KILLED"] /\ ClearsRetry(i)
        /\ ToSend' = ToSend
    BY <1>1 DEF Dies, Live, Quiet
  <1>4. AttemptsRemembered'
    <2> DEFINE s == "KILLED"
    <2>1. s \notin {"RUNNING", "SHUTTING_DOWN"} /\ state' = [state EXCEPT ![i] = s]
      BY <1>3
    <2> HIDE DEF s
    <2> QED
      BY <2>1, <1>3, ClearsAttempts
  <1> QED
    BY <1>1, <1>2, <1>4, DiesCared, DiesCounts, DiesWork DEF Life

\* A shutdown starts.
LEMMA ShutdownLife ==
  ASSUME LifeInvariant, TypeOK', NEW i \in Instance, StartShutdown(i)
  PROVE  Life'
  <1>1. ShutdownStarts(i) /\ Lineage' /\ Messages'
    BY ShutdownStartEffects
  <1>2. /\ state' = [state EXCEPT ![i] = "SHUTTING_DOWN"] /\ Live(i)
        /\ UNCHANGED <<reqs, handling, notComputed, waiting, cpu, finishing>>
        /\ ToSend' = ToSend
    BY <1>1 DEF ShutdownStarts, Live, Quiet
  <1>3. Kin(reqs') /\ SameLife(reqs') /\ SameTries(reqs') /\ Len(reqs') = Len(reqs)
    BY <1>2, LifeFacts, NothingChanges
  <1>4. AttemptsRemembered'
    BY <1>2, <1>3, QuietAttempts DEF SameLife
  <1>5. Work'
    <2>1. \A j \in Instance : Live(j)' => Live(j)
      BY <1>2, LifeFacts DEF Live, TypeOK
    <2> QED
      BY <2>1, <1>2, <1>3, SilentWork
  <1> QED
    BY <1>1, <1>4, <1>5, ShutdownStartsCared, ShutdownStartsCounts DEF Life

\* Nothing happens.
LEMMA StutterLife ==
  ASSUME LifeInvariant, TypeOK', UNCHANGED vars
  PROVE  Life'
  <1>1. /\ UNCHANGED <<reqs, state, handling, openDeps, notComputed, waiting>>
        /\ UNCHANGED <<outgoing, cpu, finishing, urgent, due, flight, armed, older, aborted>>
    BY DEF vars, instVars, eventVars
  <1>2. /\ Scheduled' = Scheduled /\ ToSend' = ToSend /\ Arriving' = Arriving
        /\ Failing' = Failing /\ Heard' = Heard
    BY <1>1 DEF Scheduled, ToSend, Arriving, Failing, Heard, MessagesOf
  <1>3. /\ Kin(reqs') /\ SameLife(reqs') /\ SameLinks(reqs') /\ SameTries(reqs')
        /\ SameCounts(reqs') /\ Len(reqs') = Len(reqs)
        /\ TypeOK /\ Lineage /\ Messages
    BY <1>1, LifeFacts, NothingChanges
  <1>4. Lineage'
    BY <1>3, QuietLineage DEF SameLife
  <1>5. Messages'
    <2>1. /\ AnswerOnce(due') /\ \A d \in flight' : d.type = "send" => ~d.m.ans
          /\ AnswersReturn' /\ UsersAtOnce'
      BY <1>1, <1>2, <1>3 DEF Messages, AnswersComputed, AnswersReturn, UsersAtOnce,
                              IsUser, MessagesOf
    <2>2. Tells({})
      BY <1>2 DEF Tells
    <2> QED
      BY <2>1, <2>2, <1>3, QuietMessages DEF SameLife
  <1>6. AttemptsRemembered' /\ Counts'
    BY <1>1, <1>2, <1>3, QuietAttempts, CanceledCounts DEF SameLife
  <1>7. OpenIsCared' /\ Work'
    BY <1>1, <1>2, <1>3, CanceledCared, SilentWork DEF Live
  <1> QED
    BY <1>4, <1>5, <1>6, <1>7 DEF Life

\* Every step preserves the invariant.
LEMMA NextLife ==
  ASSUME LifeInvariant, [Next]_vars
  PROVE  LifeInvariant'
  <1>1. HandlingInvariant'
    BY NextHandling, LifeFacts
  <1>2. TypeOK' /\ NeverAborts'
    BY <1>1 DEF HandlingInvariant
  <1> SUFFICES Life'
    BY <1>1, LifeParts
  <1>3. CASE CancelRequest
    BY <1>2, <1>3, CancelLife
  <1>4. CASE ExecuteDue
    <2> DEFINE e == Head(due)
               q == Tail(due)
    <2>1. Taken(e, q, flight)
      BY <1>4, TakenDue DEF ExecuteDue
    <2> HIDE DEF e, q
    <2>2. CASE e.type = "send" /\ Send(e.m, q, flight)
      BY <2>1, <2>2, <1>2, SendLife
    <2>3. CASE e.type = "receive" /\ Receive(e.m, e.i, q, flight)
      BY <2>1, <2>3, <1>2, ReceiveLife
    <2>4. CASE e.type = "computed" /\ CompleteComputation(e.m, e.i, q)
      BY <2>1, <2>4, <1>2, CompleteLife
    <2>5. CASE e.type = "end" /\ EndShutdown(e.i, q)
      BY <2>1, <2>5, <1>2, EndLife
    <2> QED
      BY <2>2, <2>3, <2>4, <2>5, <1>4 DEF ExecuteDue, e, q
  <1>5. CASE ExecuteDelayed
    <2>1. PICK e \in flight :
            \/ e.type = "send"    /\ Send(e.m, due, flight \ {e})
            \/ e.type = "receive" /\ Receive(e.m, e.i, due, flight \ {e})
            \/ e.type = "cancel"  /\ CancelLater(e.m, flight \ {e})
      BY <1>5 DEF ExecuteDelayed
    <2> DEFINE f == flight \ {e}
    <2>2. Taken(e, due, f)
      BY TakenDelayed
    <2> HIDE DEF f
    <2>3. CASE e.type = "send" /\ Send(e.m, due, f)
      BY <2>2, <2>3, <1>2, SendLife
    <2>4. CASE e.type = "receive" /\ Receive(e.m, e.i, due, f)
      BY <2>2, <2>4, <1>2, ReceiveLife
    <2>5. CASE e.type = "cancel" /\ CancelLater(e.m, f)
      BY <2>2, <2>5, <1>2, CancelLaterEffects, ExpiresLife
    <2> QED
      BY <2>1, <2>3, <2>4, <2>5 DEF f
  <1>6. CASE Timeout
    BY <1>2, <1>6, TimeoutEffects, ExpiresLife
  <1>7. CASE \E i \in Instance : \E r \in cpu[i] : CompleteBurst(i, r)
    BY <1>2, <1>7, BurstLife
  <1>8. CASE \E op \in UserOp : SendNewUserRequest(op)
    BY <1>2, <1>8, AskLife
  <1>9. CASE \E i \in Instance : Kill(i) \/ StartShutdown(i)
    BY <1>2, <1>9, KillLife, ShutdownLife
  <1>10. CASE UNCHANGED vars
    BY <1>2, <1>10, StutterLife
  <1> QED
    BY <1>3, <1>4, <1>5, <1>6, <1>7, <1>8, <1>9, <1>10 DEF Next, System, Environment

\* What the event list, the dependencies, Retry and the statistics know of a
\* request never contradicts its life, for every architecture and every
\* number of users, kills and shutdowns.
THEOREM LifeInvariantHolds == Spec => []LifeInvariant
  <1>1. Init => LifeInvariant
    BY InitLife
  <1>2. LifeInvariant /\ [Next]_vars => LifeInvariant'
    BY NextLife
  <1> QED
    BY <1>1, <1>2, PTL DEF Spec

-----------------------------------------------------------------------------
(* What follows.                                                           *)

LEMMA CaredIsUnderWay ==
  ASSUME NEW c,
         Req(c) \in ToSend \cup armed \cup Failing \/ Ans(c) \in Arriving
  PROVE  UnderWay(c)
  <1>1. CASE Req(c) \in ToSend
    BY <1>1 DEF ToSend, MessagesOf, UnderWay
  <1>2. CASE Ans(c) \in Arriving
    BY <1>2 DEF Arriving, MessagesOf, UnderWay
  <1>3. CASE Req(c) \in armed
    BY <1>3 DEF UnderWay
  <1>4. CASE Req(c) \in Failing
    BY <1>4 DEF Failing, MessagesOf, Scheduled, UnderWay
  <1> QED
    BY <1>1, <1>2, <1>3, <1>4

\* No dependency is forgotten: whatever has failed, been retried, refused or
\* timed out, at a running instance the child request of an open dependency
\* is still about to be sent, travelling, answered, canceled or timed out
\* (MicroserviceInstance.currentlyOpenDependencies, Retry.onRequestFailed).
THEOREM DependenciesUnderWay == Spec => []OpenIsUnderWay
  <1>1. ASSUME LifeInvariant PROVE OpenIsUnderWay
    <2> SUFFICES ASSUME NEW i \in Instance, state[i] = "RUNNING",
                        NEW p \in handling[i], NEW n \in DepName,
                        <<p, n>> \in openDeps[i]
                 PROVE  UnderWay(reqs[p].child[n])
      BY DEF OpenIsUnderWay
    <2>1. \/ Req(reqs[p].child[n]) \in ToSend \cup armed \cup Failing
          \/ Ans(reqs[p].child[n]) \in Arriving
      BY <1>1, LifeFacts DEF OpenIsCared, Cared
    <2> QED
      BY <2>1, CaredIsUnderWay
  <1> QED
    BY <1>1, LifeInvariantHolds, PTL

\* A request is submitted to the CPU neither before its dependencies are
\* complete nor never afterwards, unless its parent has given up on it
\* (MicroserviceInstance.handleIncomingRequest and handleRequestAnswer).
THEOREM SubmittedComputing == Spec => []SubmittedIsComputing
  <1>1. ASSUME LifeInvariant PROVE SubmittedIsComputing
    BY <1>1, LifeFacts DEF SubmittedIsComputing, ComputedIsComplete, CompleteIsComputed
  <1> QED
    BY <1>1, LifeInvariantHolds, PTL

\* The statistics of an instance are the numbers of requests they stand for
\* (MicroserviceInstance.notComputed, waiting, collectQueueStatistics).
THEOREM StatisticsCorrect == Spec => []StatisticsMatch
  <1>1. LifeInvariant => StatisticsMatch
    BY LifeFacts
  <1> QED
    BY <1>1, LifeInvariantHolds, PTL

\* A load generator counts a user request once, as a success or as a failure;
\* only a request whose handler was killed may be counted as failed twice
\* (LoadGeneratorDescriptionExecutor.onRequestFailed and onRequestResultArrival).
THEOREM CountedOnceHolds == Spec => []CountedOnceUnlessKilled
  <1>1. ASSUME LifeInvariant PROVE CountedOnceUnlessKilled
    <2>1. TypeOK /\ Counts
      BY <1>1, LifeFacts
    <2>2. ASSUME NEW r \in Id, IsUser(r)
          PROVE  \/ reqs[r].succeeded + reqs[r].failed <= 1
                 \/ /\ state[reqs[r].handler] = "KILLED"
                    /\ reqs[r].succeeded = 0 /\ reqs[r].failed = 2
      <3>1. PICK a \in Nat, b \in Nat, c \in Nat :
              a = Reports(urgent, r) /\ b = reqs[r].succeeded /\ c = reqs[r].failed
        BY <2>1, CountNumbers
      <3>2. Settled(r) = a + b + c
        BY <3>1, SettledIs
      <3>3. \/ Settled(r) <= 1
            \/ Killed(r) /\ b = 0 /\ Settled(r) <= 2
        BY <2>1, <2>2, <3>1 DEF Counts, CountedOnce, Tally
      <3>4. b + c <= 1 \/ (Killed(r) /\ b = 0 /\ c = 2)
        BY <3>1, <3>2, <3>3
      <3> QED
        BY <3>1, <3>4 DEF Killed
    <2>3. \A r \in Id : ~IsUser(r) => reqs[r].succeeded + reqs[r].failed = 0
      BY <2>1 DEF Counts, CountedOnce
    <2> QED
      BY <2>2, <2>3 DEF CountedOnceUnlessKilled
  <1> QED
    BY <1>1, LifeInvariantHolds, PTL

\* The messages that an instance tries to cancel when it dies have all been
\* sent, and a request to be sent is the current child of its dependency
\* (MicroserviceInstance.die, ServiceDependencyInstance.updateChildRequest).
THEOREM OutgoingSent == Spec => []OutgoingIsSent
  <1>1. ASSUME LifeInvariant PROVE OutgoingIsSent
    <2> SUFFICES ASSUME NEW e \in Scheduled, e.type = "send"
                 PROVE  /\ \A i \in Instance : e.m \notin outgoing[i]
                        /\ e.m.ans \/ IsUser(e.m.r) \/ IsCurrent(e.m.r)
      BY DEF OutgoingIsSent
    <2>1. e.m \in ToSend
      BY DEF ToSend, MessagesOf
    <2>2. e.m \notin Heard /\ (e.m.ans \/ IsUser(e.m.r) \/ IsCurrent(e.m.r))
      BY <2>1, <1>1, LifeFacts DEF Messages, ToSendIsUnknown
    <2> QED
      BY <2>2 DEF Heard
  <1> QED
    BY <1>1, LifeInvariantHolds, PTL

\* The requests for one dependency are at most Retry.maxTries, or one without
\* a Retry; an instance that dies or stops forgets its count and may start
\* over once (Retry.onRequestSend, onRequestFailed and shutdown).
THEOREM AttemptsAreBounded == Spec => []AttemptsBounded
  <1>1. ASSUME LifeInvariant PROVE AttemptsBounded
    <2> SUFFICES ASSUME NEW p \in Id, NEW n \in DepName
                 PROVE  Cardinality({r \in Id : Parent(r) = p /\ reqs[r].dep = n}) <=
                          IF reqs[p].handler \notin RetryInstance THEN 1
                          ELSE IF Live(reqs[p].handler) THEN MaxTries ELSE 2 * MaxTries - 1
      BY DEF AttemptsBounded
    <2>1. PICK h \in Instance \cup {None}, a \in BOOLEAN, tried \in Nat, tries \in Nat,
               known \in Nat :
            /\ Fits(h, a, tried, tries, known)
            /\ h = reqs[p].handler /\ (a <=> Live(h))
            /\ tried = Cardinality(Attempts(p, n))
      BY <1>1, NumbersOf
    <2>2. CASE h \notin RetryInstance
      <3>1. tried <= 1
        BY <2>1, <2>2 DEF Fits
      <3> QED
        BY <3>1, <2>1, <2>2 DEF Attempts
    <2>3. CASE h \in RetryInstance /\ a
      <3>1. tried <= MaxTries
        BY <2>1, <2>3 DEF Fits
      <3> QED
        BY <3>1, <2>1, <2>3 DEF Attempts
    <2>4. CASE h \in RetryInstance /\ ~a
      <3>1. tried <= 2 * MaxTries - 1
        BY <2>1, <2>4 DEF Fits
      <3> QED
        BY <3>1, <2>1, <2>4 DEF Attempts
    <2> QED
      BY <2>2, <2>3, <2>4
  <1> QED
    BY <1>1, LifeInvariantHolds, PTL

-----------------------------------------------------------------------------
(* What follows without a Retry.                                           *)


\* A set of at most one element
LEMMA AtMostOne ==
  ASSUME NEW S, IsFiniteSet(S), Cardinality(S) <= 1, NEW a \in S, NEW b \in S
  PROVE  a = b
  <1> SUFFICES ASSUME a # b PROVE FALSE
    OBVIOUS
  <1>1. IsFiniteSet(S \ {a}) /\ Cardinality(S \ {a}) = Cardinality(S) - 1
        /\ Cardinality(S \ {a}) \in Nat
    BY FS_RemoveElement, FS_CardinalityType
  <1>2. Cardinality(S) \in Nat
    BY FS_CardinalityType
  <1>3. S \ {a} = {}
    BY <1>1, <1>2, FS_EmptySet
  <1> QED
    BY <1>3

LEMMA DepsAreNames ==
  ASSUME TypeOK, NEW p \in Id
  PROVE  Deps(p) \subseteq DepName
  BY ReqsType, ArchitectureAssumption DEF Deps, Request

\* Without a Retry a dependency has no other request than its child.
LEMMA OnlyChild ==
  ASSUME LifeInvariant, RetryInstance = {}, NEW r \in Id, ~IsUser(r)
  PROVE  IsCurrent(r)
  <1>1. PICK p \in Id, n \in DepName : p = Parent(r) /\ n = reqs[r].dep /\ n \in Deps(p)
                                       /\ reqs[p].handler = reqs[r].requester
    <2>1. Born(r) /\ TypeOK
      BY LifeFacts
    <2>2. Parent(r) \in Id /\ reqs[r].dep \in Deps(Parent(r))
          /\ reqs[Parent(r)].handler = reqs[r].requester
      BY <2>1 DEF Born
    <2>3. Deps(Parent(r)) \subseteq DepName
      BY <2>1, <2>2, DepsAreNames
    <2> QED
      BY <2>2, <2>3
  <1>2. reqs[p].handler \in Instance
    BY <1>1, LifeFacts, ReqsType DEF IsUser, Request
  <1>3. reqs[p].child[n] \in Id /\ DepOf(reqs[p].child[n]) = <<p, n>>
    BY <1>1, <1>2, LifeFacts, ArchitectureAssumption DEF Linked
  <1>4. r \in Attempts(p, n) /\ reqs[p].child[n] \in Attempts(p, n)
    BY <1>1, <1>3 DEF Attempts, DepOf, Parent
  <1>5. IsFiniteSet(Attempts(p, n)) /\ Cardinality(Attempts(p, n)) <= 1
    <2>1. PICK h \in Instance \cup {None}, a \in BOOLEAN, tried \in Nat, tries \in Nat,
               known \in Nat :
            /\ Fits(h, a, tried, tries, known) /\ h = reqs[p].handler
            /\ tried = Cardinality(Attempts(p, n))
      BY NumbersOf
    <2>2. tried <= 1
      BY <2>1, <1>2 DEF Fits
    <2> QED
      BY <2>1, <2>2, LifeFacts, AttemptNumbers
  <1>6. r = reqs[p].child[n]
    BY <1>4, <1>5, AtMostOne
  <1> QED
    BY <1>1, <1>6 DEF IsCurrent

\* Nothing is handled that was not, and what is closed is completed.
StaysOpen ==
  /\ \A i \in Instance : handling'[i] \subseteq handling[i]
  /\ \A i \in Instance, n \in DepName : \A p \in handling'[i] :
       /\ n \in reqs[p].done => n \in reqs'[p].done
       /\ <<p, n>> \in openDeps[i] => n \in reqs'[p].done \/ <<p, n>> \in openDeps'[i]

LEMMA NeededStaysOpen ==
  ASSUME LifeInvariant, NeededIsOpen, Kin(reqs'), StaysOpen
  PROVE  NeededIsOpen'
  <1> SUFFICES ASSUME NEW i \in Instance, NEW p \in handling'[i], NEW n \in Deps(p)'
               PROVE  n \in reqs'[p].done \/ <<p, n>> \in openDeps'[i]
    BY DEF NeededIsOpen
  <1>1. p \in handling[i] /\ p \in Id
    BY LifeFacts DEF StaysOpen, TypeOK
  <1>2. n \in Deps(p)
    BY <1>1 DEF Kin, Deps
  <1>3. n \in DepName
    BY <1>1, <1>2, LifeFacts, DepsAreNames
  <1> QED
    BY <1>1, <1>2, <1>3 DEF NeededIsOpen, StaysOpen

\* A step that changes neither the handled requests nor the open dependencies
LEMMA IdleStaysOpen ==
  ASSUME LifeInvariant, NeededIsOpen, Kin(reqs'), SameLife(reqs'),
         UNCHANGED <<handling, openDeps>>
  PROVE  NeededIsOpen'
  <1>1. \A i \in Instance : handling[i] \subseteq Id
    BY LifeFacts DEF TypeOK
  <1>2. StaysOpen
    BY <1>1 DEF StaysOpen, SameLife
  <1> QED
    BY <1>2, NeededStaysOpen

\* Without a Retry a refused answer closes nothing.
LEMMA RefusesNothing ==
  ASSUME LifeInvariant, RetryInstance = {}, NEW m, NEW i, NEW q, Refuses(m, i),
         Refuse(m, i, q)
  PROVE  openDeps' = openDeps
  <1>1. /\ m.r \in Id /\ i \in Instance /\ (m.ans => ~IsUser(m.r))
        /\ openDeps' = IF CanHandle(i, m) THEN [openDeps EXCEPT ![i] = @ \ {DepOf(m.r)}]
                                          ELSE openDeps
        /\ TypeOK /\ Instances /\ DOMAIN openDeps = Instance
    BY LifeFacts DEF Refuses, TypeOK
  <1>2. CASE CanHandle(i, m)
    <2>1. m.ans /\ ~Awaited(i, m.r)
      BY <1>2 DEF Refuse
    <2>2. IsCurrent(m.r)
      BY <2>1, <1>1, OnlyChild
    <2>3. DepOf(m.r) \notin openDeps[i] \/ Parent(m.r) \notin handling[i]
      BY <2>1, <2>2 DEF Awaited
    <2>4. DepOf(m.r) \in openDeps[i] => Parent(m.r) \in handling[i]
      <3>1. openDeps[i] \subseteq Id \X DepName
        BY <1>1 DEF TypeOK
      <3> QED
        BY <3>1, <1>1 DEF Instances, OpenIsWaiting, DepOf, Parent
    <2>5. openDeps[i] \ {DepOf(m.r)} = openDeps[i]
      BY <2>3, <2>4
    <2> QED
      BY <2>5, <1>1, <1>2 DEF TypeOK
  <1>3. CASE ~CanHandle(i, m)
    BY <1>1, <1>3
  <1> QED
    BY <1>2, <1>3

LEMMA ReceiveOpen ==
  ASSUME LifeInvariant, TypeOK', RetryInstance = {}, NeededIsOpen, NEW e, NEW q, NEW f,
         Taken(e, q, f), e.type = "receive", Receive(e.m, e.i, q, f)
  PROVE  NeededIsOpen'
  <1>1. flight' = f /\ UNCHANGED <<state, finishing>>
    BY DEF Receive
  <1>2. /\ TypeOK /\ Instances
        /\ handling \in [Instance -> SUBSET Id] /\ DOMAIN openDeps = Instance
    BY LifeFacts DEF TypeOK
  <1>3. CASE ReceiveRequest(e.m, e.i, q) /\ ReceiveLeafRequest(e.m.r, e.i, q)
    <2>1. BeginsLeaf(e.m.r, e.i)
      BY <1>1, <1>3, LeafEffects
    <2>2. PICK r \in Id, i0 \in Instance : r = e.m.r /\ i0 = e.i
      BY <2>1 DEF BeginsLeaf, Begins
    <2>3. /\ Deps(r) = {} /\ openDeps' = openDeps /\ Kin(reqs')
          /\ handling' = [handling EXCEPT ![i0] = @ \cup {r}]
          /\ \A x \in Id : reqs'[x].done = reqs[x].done
      BY <2>1, <2>2 DEF BeginsLeaf, Begins
    <2> SUFFICES ASSUME NEW i \in Instance, NEW p \in handling'[i], NEW n \in Deps(p)'
                 PROVE  n \in reqs'[p].done \/ <<p, n>> \in openDeps'[i]
      BY DEF NeededIsOpen
    <2>4. p \in handling[i] \/ p = r
      BY <2>3, <1>2
    <2>5. p \in Id /\ Deps(p)' = Deps(p)
      BY <2>3, <2>4, <1>2 DEF Kin, Deps
    <2> QED
      BY <2>3, <2>4, <2>5 DEF NeededIsOpen
  <1>4. CASE ReceiveRequest(e.m, e.i, q) /\ ReceiveCompositeRequest(e.m.r, e.i, q)
    <2>1. BeginsComposite(e.m.r, e.i)
      BY <1>1, <1>4, CompositeEffects
    <2>2. PICK r \in Id, i0 \in Instance : r = e.m.r /\ i0 = e.i
      BY <2>1 DEF BeginsComposite, Begins
    <2>3. /\ openDeps' = [openDeps EXCEPT ![i0] = @ \cup AllDeps(r)] /\ Kin(reqs')
          /\ handling' = [handling EXCEPT ![i0] = @ \cup {r}]
          /\ \A x \in Id : reqs'[x].done = reqs[x].done
          /\ \A j \in Instance : r \notin handling[j]
      BY <2>1, <2>2 DEF BeginsComposite, Begins
    <2> SUFFICES ASSUME NEW i \in Instance, NEW p \in handling'[i], NEW n \in Deps(p)'
                 PROVE  n \in reqs'[p].done \/ <<p, n>> \in openDeps'[i]
      BY DEF NeededIsOpen
    <2>4. p \in handling[i] \/ (p = r /\ i = i0)
      BY <2>3, <1>2
    <2>5. p \in Id /\ Deps(p)' = Deps(p)
      BY <2>3, <2>4, <1>2 DEF Kin, Deps
    <2>6. openDeps[i] \subseteq openDeps'[i] /\ AllDeps(r) \subseteq openDeps'[i0]
      BY <2>3, <1>2
    <2>7. CASE p \in handling[i]
      BY <2>3, <2>5, <2>6, <2>7 DEF NeededIsOpen
    <2>8. CASE p = r /\ i = i0
      BY <2>5, <2>6, <2>8 DEF AllDeps
    <2> QED
      BY <2>4, <2>7, <2>8
  <1>5. CASE ReceiveAnswer(e.m, e.i, q)
    <2>1. PICK p0 \in Id, n0 \in DepName : Closes(e.m, e.i, p0, n0)
      BY <1>1, <1>5, AnswerEffects
    <2>2. /\ Kin(reqs') /\ handling' = handling /\ e.i \in Instance
          /\ openDeps' = [openDeps EXCEPT ![e.i] = @ \ {<<p0, n0>>}]
          /\ \A x \in Id : reqs'[x].done = IF x = p0 THEN reqs[x].done \cup {n0}
                                                     ELSE reqs[x].done
      BY <2>1 DEF Closes
    <2>3. \A i \in Instance : openDeps[i] \subseteq openDeps'[i] \cup {<<p0, n0>>}
      BY <2>2, <1>2
    <2>4. StaysOpen
      <3> SUFFICES ASSUME NEW i \in Instance, NEW n \in DepName, NEW p \in handling[i]
                   PROVE  /\ n \in reqs[p].done => n \in reqs'[p].done
                          /\ <<p, n>> \in openDeps[i] =>
                               n \in reqs'[p].done \/ <<p, n>> \in openDeps'[i]
        BY <2>2 DEF StaysOpen
      <3>1. p \in Id
        BY <1>2
      <3>2. reqs[p].done \subseteq reqs'[p].done /\ (p = p0 => n0 \in reqs'[p].done)
        BY <3>1, <2>2
      <3> QED
        BY <3>2, <2>3
    <2> QED
      BY <2>2, <2>4, NeededStaysOpen
  <1>6. CASE Refuse(e.m, e.i, q)
    <2>1. Refuses(e.m, e.i)
      BY <1>1, <1>6, RefusesMessage
    <2>2. /\ UNCHANGED <<reqs, handling>> /\ e.m.r \in Id /\ e.i \in Instance
          /\ (e.m.ans => ~IsUser(e.m.r))
          /\ openDeps' = IF CanHandle(e.i, e.m)
                         THEN [openDeps EXCEPT ![e.i] = @ \ {DepOf(e.m.r)}]
                         ELSE openDeps
      BY <2>1 DEF Refuses
    <2>3. openDeps' = openDeps
      BY <2>1, <1>6, RefusesNothing
    <2>4. Kin(reqs') /\ SameLife(reqs')
      BY <2>2, LifeFacts, NothingChanges
    <2> QED
      BY <2>2, <2>3, <2>4, IdleStaysOpen
  <1> QED
    BY <1>3, <1>4, <1>5, <1>6 DEF Receive, ReceiveRequest

LEMMA CompleteOpen ==
  ASSUME LifeInvariant, TypeOK', NeverAborts', NeededIsOpen, NEW e, NEW q,
         Taken(e, q, flight), e.type = "computed", CompleteComputation(e.m, e.i, q)
  PROVE  NeededIsOpen'
  <1>1. CASE e.m.r \in finishing
    <2>1. Computes(e.m.r, e.i)
      BY <1>1, ComputesEffects
    <2>2. /\ Kin(reqs') /\ openDeps' = openDeps /\ e.i \in Instance
          /\ handling' = [handling EXCEPT ![e.i] = @ \ {e.m.r}]
          /\ \A x \in Id : reqs'[x].done = reqs[x].done
      BY <2>1 DEF Computes
    <2>3. \A i \in Instance : handling'[i] \subseteq handling[i] /\ handling[i] \subseteq Id
      BY <2>2, LifeFacts DEF TypeOK
    <2>4. StaysOpen
      BY <2>2, <2>3 DEF StaysOpen
    <2> QED
      BY <2>2, <2>4, NeededStaysOpen
  <1>2. CASE e.m.r \notin finishing
    <2>1. UNCHANGED <<reqs, handling, openDeps>>
      BY <1>2, CanceledEffects
    <2>2. Kin(reqs') /\ SameLife(reqs')
      BY <2>1, LifeFacts, NothingChanges
    <2> QED
      BY <2>1, <2>2, IdleStaysOpen
  <1> QED
    BY <1>1, <1>2

\* A request that is given up is not handled any more.
LEMMA AbandonsOpen ==
  ASSUME LifeInvariant, NeededIsOpen, NEW r, NEW i0, NEW p0, Abandons(r, i0, p0)
  PROVE  NeededIsOpen'
  <1>1. /\ Kin(reqs') /\ SameLife(reqs') /\ TypeOK
        /\ handling' = [handling EXCEPT ![i0] = @ \ {p0}]
        /\ openDeps' = [openDeps EXCEPT ![i0] = @ \ AllDeps(p0)]
    BY LifeFacts DEF Abandons
  <1>2. \A i \in Instance : handling[i] \subseteq Id
    BY <1>1 DEF TypeOK
  <1>3. \A i \in Instance : handling'[i] = IF i = i0 THEN handling[i] \ {p0}
                                                     ELSE handling[i]
    BY <1>1 DEF TypeOK
  <1>4. \A i \in Instance : openDeps'[i] = IF i = i0 THEN openDeps[i] \ AllDeps(p0)
                                                     ELSE openDeps[i]
    BY <1>1 DEF TypeOK
  <1>5. StaysOpen
    <2>1. ASSUME NEW i \in Instance, NEW n \in DepName, NEW p \in handling'[i]
          PROVE  /\ n \in reqs[p].done => n \in reqs'[p].done
                 /\ <<p, n>> \in openDeps[i] => <<p, n>> \in openDeps'[i]
      <3>1. p \in handling[i] /\ p \in Id /\ (i = i0 => p # p0)
        BY <1>2, <1>3
      <3>2. i = i0 => <<p, n>> \notin AllDeps(p0)
        BY <3>1 DEF AllDeps
      <3> QED
        BY <3>1, <3>2, <1>1, <1>4 DEF SameLife
    <2>2. \A i \in Instance : handling'[i] \subseteq handling[i]
      BY <1>3
    <2> QED
      BY <2>1, <2>2 DEF StaysOpen
  <1> QED
    BY <1>1, <1>5, NeededStaysOpen

LEMMA CancelOpen ==
  ASSUME LifeInvariant, TypeOK', NeededIsOpen, CancelRequest
  PROVE  NeededIsOpen'
  <1> DEFINE m == Head(urgent).m
  <1>1. /\ Cancels(m)
        /\ \/ FailAnswer(m) \/ FailUserRequest(m) \/ RetryRequest(m)
           \/ LetRequestFail(m) \/ IgnoreFailure(m)
    BY DEF CancelRequest, Cancels
  <1> HIDE DEF m
  <1>2. m.r \in Id /\ TypeOK
    <2>1. urgent # <<>> /\ urgent \in Seq(Cancellation) /\ m = Head(urgent).m
      BY <1>1, LifeFacts DEF Cancels, TypeOK
    <2>2. Head(urgent) \in Cancellation
      BY <2>1
    <2> QED
      BY <2>1, <2>2, LifeFacts, ReqAns DEF Cancellation
  <1>3. CASE FailAnswer(m) \/ FailUserRequest(m)
    <2>1. UNCHANGED <<handling, openDeps>>
          /\ (reqs' = reqs \/ reqs' = [reqs EXCEPT ![m.r].failed = @ + 1])
      BY <1>3 DEF FailAnswer, FailUserRequest
    <2>2. Kin(reqs') /\ SameLife(reqs')
      <3>1. CASE reqs' = reqs
        BY <3>1, <1>2, NothingChanges
      <3>2. CASE reqs' = [reqs EXCEPT ![m.r].failed = @ + 1]
        BY <3>2, <1>2, FailureSame
      <3> QED
        BY <2>1, <3>1, <3>2
    <2> QED
      BY <2>1, <2>2, IdleStaysOpen
  <1>4. CASE RetryRequest(m)
    <2>1. PICK new : Repeats(m, new)
      BY <1>1, <1>4, RepeatsEffects
    <2> QED
      BY <2>1, IdleStaysOpen DEF Repeats
  <1>5. CASE LetRequestFail(m)
    BY <1>1, <1>5, GivesUpEffects, GivesUpAbandons, AbandonsOpen
  <1>6. CASE IgnoreFailure(m)
    <2>1. Quiet({}) /\ UNCHANGED <<handling, openDeps>>
      BY <1>1, <1>6, IgnoreEffects DEF IgnoreFailure
    <2> QED
      BY <2>1, IdleStaysOpen DEF Quiet
  <1> QED
    BY <1>1, <1>3, <1>4, <1>5, <1>6

LEMMA NextOpen ==
  ASSUME LifeInvariant, LifeInvariant', RetryInstance = {}, NeededIsOpen, [Next]_vars
  PROVE  NeededIsOpen'
  <1>1. TypeOK' /\ NeverAborts' /\ TypeOK
    BY LifeFacts DEF LifeInvariant, HandlingInvariant
  <1>2. CASE CancelRequest
    BY <1>1, <1>2, CancelOpen
  <1>3. ASSUME NEW e, NEW q, NEW f, Taken(e, q, f), e.type = "send", Send(e.m, q, f)
        PROVE  NeededIsOpen'
    <2>1. Departs(e.m)
      BY <1>1, <1>3, SendsMessage
    <2> QED
      BY <2>1, IdleStaysOpen DEF Departs
  <1>4. CASE ExecuteDue
    <2> DEFINE e == Head(due)
               q == Tail(due)
    <2>1. Taken(e, q, flight)
      BY <1>4, LifeFacts, TakenDue DEF ExecuteDue
    <2> HIDE DEF e, q
    <2>2. CASE e.type = "send" /\ Send(e.m, q, flight)
      BY <2>1, <2>2, <1>3
    <2>3. CASE e.type = "receive" /\ Receive(e.m, e.i, q, flight)
      BY <2>1, <2>3, <1>1, ReceiveOpen
    <2>4. CASE e.type = "computed" /\ CompleteComputation(e.m, e.i, q)
      BY <2>1, <2>4, <1>1, CompleteOpen
    <2>5. CASE e.type = "end" /\ EndShutdown(e.i, q)
      <3>1. ShutdownEnds(e.i)
        BY <2>1, <2>5, <1>1, ShutdownEndEffects DEF EndShutdown
      <3> QED
        BY <3>1, IdleStaysOpen DEF ShutdownEnds, ClearsRetry
    <2> QED
      BY <2>2, <2>3, <2>4, <2>5, <1>4 DEF ExecuteDue, e, q
  <1>5. CASE ExecuteDelayed
    <2>1. PICK e \in flight :
            \/ e.type = "send"    /\ Send(e.m, due, flight \ {e})
            \/ e.type = "receive" /\ Receive(e.m, e.i, due, flight \ {e})
            \/ e.type = "cancel"  /\ CancelLater(e.m, flight \ {e})
      BY <1>5 DEF ExecuteDelayed
    <2> DEFINE f == flight \ {e}
    <2>2. Taken(e, due, f)
      BY LifeFacts, TakenDelayed
    <2> HIDE DEF f
    <2>3. CASE e.type = "send" /\ Send(e.m, due, f)
      BY <2>2, <2>3, <1>3
    <2>4. CASE e.type = "receive" /\ Receive(e.m, e.i, due, f)
      BY <2>2, <2>4, <1>1, ReceiveOpen
    <2>5. CASE e.type = "cancel" /\ CancelLater(e.m, f)
      BY <2>5, <1>1, NothingChanges, IdleStaysOpen DEF CancelLater, instVars
    <2> QED
      BY <2>1, <2>3, <2>4, <2>5 DEF f
  <1>6. CASE Timeout
    BY <1>1, <1>6, NothingChanges, IdleStaysOpen DEF Timeout, instVars
  <1>7. CASE \E i \in Instance : \E r \in cpu[i] : CompleteBurst(i, r)
    <2>1. UNCHANGED <<reqs, handling, openDeps>>
      BY <1>7 DEF CompleteBurst, instVars
    <2> QED
      BY <2>1, <1>1, NothingChanges, IdleStaysOpen
  <1>8. CASE \E op \in UserOp : SendNewUserRequest(op)
    <2>1. PICK new : Asks(new)
      BY <1>1, <1>8, AsksEffects
    <2> QED
      BY <2>1, IdleStaysOpen DEF Asks
  <1>9. CASE \E i \in Instance : Kill(i)
    <2>1. PICK i \in Instance : Kill(i)
      BY <1>9
    <2>2. PICK ids : Dies(i, ids)
      BY <2>1, <1>1, DiesEffects
    <2> QED
      BY <2>2, IdleStaysOpen DEF Dies, ClearsRetry
  <1>10. CASE \E i \in Instance : StartShutdown(i)
    BY <1>1, <1>10, NothingChanges, IdleStaysOpen DEF StartShutdown
  <1>11. CASE UNCHANGED vars
    BY <1>1, <1>11, NothingChanges, IdleStaysOpen DEF vars, instVars
  <1> QED
    BY <1>2, <1>4, <1>5, <1>6, <1>7, <1>8, <1>9, <1>10, <1>11 DEF Next, System, Environment

\* Without a Retry the open dependencies are exactly those that a handled
\* request still needs, at running, stopping and dead instances alike.  With
\* a Retry the late answer to a replaced request closes the dependency
\* (MicroserviceInstance.handleRequestAnswer, letRequestFail).
THEOREM IncompleteOpen ==
  ASSUME RetryInstance = {}
  PROVE  Spec => []IncompleteIsOpen
  <1>1. Init => NeededIsOpen
    BY DEF Init, NeededIsOpen
  <1>2. LifeInvariant /\ LifeInvariant' /\ NeededIsOpen /\ [Next]_vars => NeededIsOpen'
    BY NextOpen
  <1>3. ASSUME LifeInvariant, NeededIsOpen
        PROVE  IncompleteIsOpen
    <2> SUFFICES ASSUME NEW i \in Instance
                 PROVE  openDeps[i] = UNION {{<<p, n>> : n \in Deps(p) \ reqs[p].done}
                                              : p \in handling[i]}
      BY DEF IncompleteIsOpen
    <2>1. TypeOK /\ Instances
      BY <1>3, LifeFacts
    <2>2. openDeps[i] \subseteq Id \X DepName
      BY <2>1 DEF TypeOK
    <2>3. ASSUME NEW p \in Id, NEW n \in DepName, <<p, n>> \in openDeps[i]
          PROVE  p \in handling[i] /\ n \in Deps(p) \ reqs[p].done
      BY <2>3, <2>1 DEF Instances, OpenIsWaiting
    <2>4. ASSUME NEW p \in handling[i], NEW n \in Deps(p) \ reqs[p].done
          PROVE  <<p, n>> \in openDeps[i]
      BY <1>3 DEF NeededIsOpen
    <2> QED
      BY <2>2, <2>3, <2>4
  <1> QED
    BY <1>1, <1>2, <1>3, LifeInvariantHolds, PTL DEF Spec

-----------------------------------------------------------------------------
(* Requests are trees of calls.                                            *)

\* The records of the tree
Node == [op : Op, parent : Nat, dep : DepName \cup {None}]
NodeOf(v) == [op |-> v.op, parent |-> v.parent, dep |-> v.dep]

LEMMA CallsAre ==
  ASSUME NEW s \in Seq(Request)
  PROVE  /\ CallsIn(s) \in Seq(Node) /\ Len(CallsIn(s)) = Len(s)
         /\ \A c \in 1..Len(s) : CallsIn(s)[c] = NodeOf(s[c])
  <1>1. Len(s) \in Nat /\ \A c \in 1..Len(s) : s[c] \in Request
    OBVIOUS
  <1>2. \A c \in 1..Len(s) : CallsIn(s)[c] = NodeOf(s[c]) /\ NodeOf(s[c]) \in Node
    BY <1>1 DEF CallsIn, NodeOf, Node, Request
  <1>3. CallsIn(s) \in [1..Len(s) -> Node]
    BY <1>2 DEF CallsIn, NodeOf
  <1> HIDE DEF CallsIn
  <1>4. CallsIn(s) \in Seq(Node)
    BY <1>1, <1>3
  <1>5. Len(CallsIn(s)) = Len(s)
    BY <1>1, <1>3
  <1> QED
    BY <1>2, <1>4, <1>5

\* New requests are new calls.
LEMMA CallsConcat ==
  ASSUME NEW s \in Seq(Request), NEW t \in Seq(Request)
  PROVE  CallsIn(s \o t) = CallsIn(s) \o CallsIn(t)
  <1> DEFINE a == CallsIn(s \o t)
             b == CallsIn(s) \o CallsIn(t)
  <1>1. /\ s \o t \in Seq(Request) /\ Len(s) \in Nat /\ Len(t) \in Nat
        /\ Len(s \o t) = Len(s) + Len(t)
        /\ \A k \in 1..Len(s) + Len(t) :
             (s \o t)[k] = IF k <= Len(s) THEN s[k] ELSE t[k - Len(s)]
    BY ConcatProperties
  <1>2. /\ CallsIn(s) \in Seq(Node) /\ Len(CallsIn(s)) = Len(s)
        /\ CallsIn(t) \in Seq(Node) /\ Len(CallsIn(t)) = Len(t)
        /\ a \in Seq(Node) /\ Len(a) = Len(s) + Len(t)
    BY <1>1, CallsAre
  <1>3. /\ b \in Seq(Node) /\ Len(b) = Len(s) + Len(t)
        /\ \A k \in 1..Len(s) + Len(t) :
             b[k] = IF k <= Len(s) THEN CallsIn(s)[k] ELSE CallsIn(t)[k - Len(s)]
    BY <1>2, ConcatProperties
  <1>4. ASSUME NEW k \in 1..Len(s) + Len(t)
        PROVE  a[k] = b[k]
    <2>1. a[k] = NodeOf((s \o t)[k])
      BY <1>1, <1>4, CallsAre
    <2>2. CASE k <= Len(s)
      <3>1. k \in 1..Len(s)
        BY <1>1, <1>4, <2>2
      <3> QED
        BY <1>1, <1>3, <1>4, <2>1, <2>2, <3>1, CallsAre
    <2>3. CASE ~(k <= Len(s))
      <3>1. k - Len(s) \in 1..Len(t)
        BY <1>1, <1>4, <2>3
      <3> QED
        BY <1>1, <1>3, <1>4, <2>1, <2>3, <3>1, CallsAre
    <2> QED
      BY <2>2, <2>3
  <1> HIDE DEF a, b
  <1>5. a = b
    BY <1>2, <1>3, <1>4, SeqEqual
  <1> QED
    BY <1>5 DEF a, b

LEMMA CallsAppend ==
  ASSUME NEW s \in Seq(Request), NEW v \in Request
  PROVE  CallsIn(Append(s, v)) = Append(CallsIn(s), NodeOf(v))
  <1> DEFINE a == CallsIn(Append(s, v))
             b == Append(CallsIn(s), NodeOf(v))
  <1>1. /\ Append(s, v) \in Seq(Request) /\ Len(s) \in Nat
        /\ Len(Append(s, v)) = Len(s) + 1 /\ Append(s, v)[Len(s) + 1] = v
        /\ \A k \in 1..Len(s) : Append(s, v)[k] = s[k]
    BY AppendProperties
  <1>2. NodeOf(v) \in Node
    BY DEF NodeOf, Node, Request
  <1>3. /\ CallsIn(s) \in Seq(Node) /\ Len(CallsIn(s)) = Len(s)
        /\ a \in Seq(Node) /\ Len(a) = Len(s) + 1
    BY <1>1, CallsAre
  <1>4. /\ b \in Seq(Node) /\ Len(b) = Len(s) + 1 /\ b[Len(s) + 1] = NodeOf(v)
        /\ \A k \in 1..Len(s) : b[k] = CallsIn(s)[k]
    BY <1>2, <1>3, AppendProperties
  <1>5. \A k \in 1..Len(s) + 1 : a[k] = NodeOf(Append(s, v)[k])
    BY <1>1, CallsAre
  <1>6. \A k \in 1..Len(s) : CallsIn(s)[k] = NodeOf(s[k])
    BY CallsAre
  <1> HIDE DEF a, b
  <1>7. \A k \in 1..Len(s) + 1 : a[k] = b[k]
    <2>1. \A k \in 1..Len(s) + 1 : k \in 1..Len(s) \/ k = Len(s) + 1
      BY <1>1
    <2> QED
      BY <1>1, <1>4, <1>5, <1>6, <2>1
  <1>8. a = b
    BY <1>3, <1>4, <1>7, SeqEqual
  <1> QED
    BY <1>8 DEF a, b

LEMMA TreeOrders ==
  ASSUME NEW S
  PROVE  Tree!Bijection(1..Tree!Cardinality(S), S) = Orders(S)
  <1>1. Tree!Cardinality(S) = Cardinality(S)
    BY DEF Tree!Cardinality, Cardinality
  <1> QED
    BY <1>1 DEF Orders, Tree!Bijection, Bijection, Tree!Injection, Injection,
                Tree!Surjection, Surjection, Tree!IsInjective, IsInjective

\* The words of the tree in those of RequestHandling
LEMMA TreeWords ==
  ASSUME TypeOK, Lineage
  PROVE  /\ Tree!Id = Id
         /\ \A c \in Id : /\ Tree!Deps(c) = Deps(c)
                          /\ Tree!IsUser(c) <=> IsUser(c)
                          /\ CallsIn(reqs)[c] = NodeOf(reqs[c])
                          /\ CallsIn(reqs)[c].parent = Parent(c)
                          /\ CallsIn(reqs)[c].dep = reqs[c].dep
  <1>1. /\ reqs \in Seq(Request) /\ Len(CallsIn(reqs)) = Len(reqs)
        /\ \A c \in Id : CallsIn(reqs)[c] = NodeOf(reqs[c])
    BY CallsAre DEF TypeOK, Id
  <1>2. \A c \in Id : /\ CallsIn(reqs)[c].op = reqs[c].op
                      /\ CallsIn(reqs)[c].parent = Parent(c)
                      /\ CallsIn(reqs)[c].dep = reqs[c].dep
    <2>1. \A v : NodeOf(v).op = v.op /\ NodeOf(v).parent = v.parent /\ NodeOf(v).dep = v.dep
      BY DEF NodeOf
    <2> QED
      BY <1>1, <2>1 DEF Parent
  <1>3. \A c \in Id : Born(c)
    BY DEF Lineage
  <1>4. \A c \in Id : IF IsUser(c) THEN Parent(c) = 0 ELSE Parent(c) \in Id
    BY <1>3 DEF Born, Parent
  <1>5. 0 \notin Id
    BY DEF Id
  <1> QED
    BY <1>1, <1>2, <1>4, <1>5 DEF Tree!Id, Tree!Deps, Tree!IsUser, Id, Deps

\* What does not change in the tree
LEMMA TreeKept ==
  ASSUME TypeOK, TypeOK', Kin(reqs'), \A x \in Id' \ Id : Unborn(reqs'[x])
  PROVE  /\ Len(reqs') = Len(reqs) => CallsIn(reqs)' = CallsIn(reqs)
         /\ (\A x \in Id : reqs'[x].done = reqs[x].done) =>
              CompletedIn(reqs)' = CompletedIn(reqs)
         /\ (\A x \in Id : reqs'[x].computed = reqs[x].computed) =>
              ComputedIn(reqs)' = ComputedIn(reqs)
         /\ (\A x \in Id : reqs'[x].succeeded = reqs[x].succeeded) =>
              SucceededIn(reqs)' = SucceededIn(reqs)
         /\ (\A x \in Id : reqs'[x].failed = reqs[x].failed) =>
              FailedIn(reqs)' = FailedIn(reqs)
  <1>1. Id \subseteq Id'
    BY KinId
  <1>2. Len(reqs') = Len(reqs) => CallsIn(reqs)' = CallsIn(reqs)
    BY DEF CallsIn, Kin, Id
  <1>3. \A x \in Id' \ Id : /\ reqs'[x].done = {} /\ ~reqs'[x].computed
                            /\ reqs'[x].succeeded = 0 /\ reqs'[x].failed = 0
    BY DEF Unborn
  <1>4. /\ (\A x \in Id : reqs'[x].computed = reqs[x].computed) =>
              ComputedIn(reqs)' = ComputedIn(reqs)
        /\ (\A x \in Id : reqs'[x].succeeded = reqs[x].succeeded) =>
              SucceededIn(reqs)' = SucceededIn(reqs)
        /\ (\A x \in Id : reqs'[x].failed = reqs[x].failed) =>
              FailedIn(reqs)' = FailedIn(reqs)
    BY <1>1, <1>3 DEF ComputedIn, SucceededIn, FailedIn, Id
  <1>5. (\A x \in Id : reqs'[x].done = reqs[x].done) => CompletedIn(reqs)' = CompletedIn(reqs)
    BY <1>1, <1>3 DEF CompletedIn, Id
  <1> QED
    BY <1>2, <1>4, <1>5

\* Every step of the tree is one of these, or none.
InTree == [Tree!Next]_(Tree!vars)

LEMMA StepsOfTree ==
  ASSUME TypeOK, Lineage
  PROVE  /\ UNCHANGED Tree!vars => InTree
         /\ \A op \in UserOp : Tree!CallUser(op) => InTree
         /\ \A c \in Id : Tree!CallDependencies(c) \/ Tree!CallAgain(c) \/ Tree!Complete(c)
                            \/ Tree!Compute(c) \/ Tree!Succeed(c) \/ Tree!Fail(c) => InTree
  BY TreeWords DEF InTree, Tree!Next

LEMMA TreeFacts ==
  ASSUME TreeInvariant
  PROVE  /\ LifeInvariant /\ DoneIsComputed /\ ComputedIsAnswered /\ TypeOK /\ Lineage
         /\ \A r \in Id : Born(r)
  BY LifeFacts DEF TreeInvariant

\* The parts of TreeInvariant that are not of LifeInvariant
TreeParts == DoneIsComputed /\ ComputedIsAnswered

\* A step that completes no dependency and computes nothing
KeepsDone ==
  \A x \in Id : /\ reqs'[x].done = reqs[x].done /\ reqs'[x].computed = reqs[x].computed
                /\ \A n \in reqs[x].done : /\ reqs'[x].child[n] = reqs[x].child[n]
                                           /\ reqs'[x].tries[n] = 0
KeepsAnswers ==
  \A x \in Id : IsUser(x) =>
                /\ reqs[x].succeeded > 0 => reqs'[x].succeeded > 0
                /\ Ans(x) \in ToSend => Ans(x) \in ToSend' \/ reqs'[x].succeeded > 0

LEMMA PartsKept ==
  ASSUME TreeInvariant, TypeOK', Kin(reqs'), \A x \in Id' \ Id : Unborn(reqs'[x]),
         KeepsDone, KeepsAnswers
  PROVE  TreeParts'
  <1>1. /\ TypeOK /\ DoneIsComputed /\ ComputedIsAnswered /\ Id \subseteq Id'
        /\ \A x \in Id : /\ IsUser(x)' = IsUser(x) /\ DepOf(x)' = DepOf(x)
                         /\ Deps(x)' = Deps(x)
    BY TreeFacts, KinId
  <1>2. \A x \in Id' \ Id : reqs'[x].done = {} /\ ~reqs'[x].computed
    BY DEF Unborn
  <1>3. ASSUME NEW p \in Id', NEW n \in reqs'[p].done
        PROVE  /\ n \in Deps(p)' /\ reqs'[p].child[n] \in Id'
               /\ DepOf(reqs[p].child[n])' = <<p, n>>
               /\ reqs'[reqs'[p].child[n]].computed /\ reqs'[p].tries[n] = 0
    <2>1. p \in Id /\ n \in reqs[p].done
      BY <1>2, <1>3 DEF KeepsDone
    <2>2. /\ n \in Deps(p) /\ reqs[p].child[n] \in Id /\ DepOf(reqs[p].child[n]) = <<p, n>>
          /\ reqs[reqs[p].child[n]].computed
      BY <1>1, <2>1 DEF DoneIsComputed
    <2>3. reqs'[p].child[n] = reqs[p].child[n] /\ reqs'[p].tries[n] = 0
      BY <2>1 DEF KeepsDone
    <2>4. PICK c \in Id : c = reqs[p].child[n]
      BY <2>2
    <2>5. DepOf(c)' = <<p, n>> /\ reqs'[c].computed
      BY <1>1, <2>2, <2>4 DEF KeepsDone
    <2> QED
      BY <1>1, <2>1, <2>2, <2>3, <2>4, <2>5 DEF DepOf
  <1>4. DoneIsComputed'
    BY <1>3 DEF DoneIsComputed, DepOf
  <1>5. ASSUME NEW r \in Id', reqs'[r].computed
        PROVE  /\ DepsCompleted(r)'
               /\ IsUser(r)' => Ans(r) \in ToSend' \/ reqs'[r].succeeded > 0
    <2>1. r \in Id /\ reqs[r].computed
      BY <1>2, <1>5 DEF KeepsDone
    <2>2. DepsCompleted(r) /\ (IsUser(r) => Ans(r) \in ToSend \/ reqs[r].succeeded > 0)
      BY <1>1, <2>1 DEF ComputedIsAnswered
    <2>3. DepsCompleted(r)'
      BY <1>1, <2>1, <2>2 DEF DepsCompleted, KeepsDone
    <2> QED
      BY <1>1, <2>1, <2>2, <2>3 DEF KeepsAnswers
  <1>6. ComputedIsAnswered'
    BY <1>5 DEF ComputedIsAnswered, Ans
  <1> QED
    BY <1>4, <1>6 DEF TreeParts

\* A step that is none of the tree
LEMMA SilentTree ==
  ASSUME TreeInvariant, TypeOK', Kin(reqs'), Len(reqs') = Len(reqs), KeepsDone,
         SameCounts(reqs'), \A x \in Id : Ans(x) \in ToSend => Ans(x) \in ToSend'
  PROVE  TreeParts' /\ InTree
  <1>1. TypeOK /\ Lineage /\ Id' = Id
    BY TreeFacts DEF Id
  <1>2. TreeParts'
    BY <1>1, PartsKept DEF KeepsAnswers, SameCounts
  <1>3. UNCHANGED Tree!vars
    BY <1>1, TreeKept DEF KeepsDone, SameCounts, Tree!vars
  <1> QED
    BY <1>1, <1>2, <1>3, StepsOfTree

LEMMA DoneFacts ==
  ASSUME TreeInvariant, NEW x \in Id, NEW y \in reqs[x].done
  PROVE  /\ y \in DepName /\ y \in Deps(x) /\ reqs[x].child[y] \in Id
         /\ DepOf(reqs[x].child[y]) = <<x, y>>
         /\ reqs[reqs[x].child[y]].computed /\ reqs[x].tries[y] = 0
  <1>1. reqs[x] \in Request
    BY TreeFacts, ReqsType
  <1>2. y \in DepName
    BY <1>1 DEF Request
  <1> QED
    BY <1>2, TreeFacts DEF DoneIsComputed

\* What is done is not tried again.
LEMMA DoneKept ==
  ASSUME TreeInvariant, SameLife(reqs'), SameLinks(reqs'),
         \A x \in Id, y \in DepName : reqs'[x].tries[y] \in {reqs[x].tries[y], 0}
  PROVE  KeepsDone
  <1>1. \A x \in Id : reqs[x].done \subseteq DepName
    BY DoneFacts
  <1>2. \A x \in Id : \A n \in reqs[x].done : reqs[x].tries[n] = 0
    BY DoneFacts
  <1> QED
    BY <1>1, <1>2 DEF KeepsDone, SameLife, SameLinks

LEMMA IdleTree ==
  ASSUME TreeInvariant, TypeOK', reqs' = reqs, ToSend \subseteq ToSend'
  PROVE  TreeParts' /\ InTree
  <1>1. /\ Kin(reqs') /\ SameLife(reqs') /\ SameLinks(reqs') /\ SameTries(reqs')
        /\ SameCounts(reqs')
    BY TreeFacts, NothingChanges
  <1>2. KeepsDone
    BY <1>1, DoneKept DEF SameTries
  <1> QED
    BY <1>1, <1>2, SilentTree

LEMMA QuietTree ==
  ASSUME TreeInvariant, TypeOK', NEW N, Quiet(N), SameCounts(reqs'),
         \A x \in Id, y \in DepName : reqs'[x].tries[y] \in {reqs[x].tries[y], 0}
  PROVE  TreeParts' /\ InTree
  BY DoneKept, SilentTree DEF Quiet

\* The numbers of a user request
LEMMA Tallies ==
  ASSUME LifeInvariant, NEW r \in Id
  PROVE  /\ Reports(urgent, r) \in Nat /\ reqs[r].succeeded \in Nat /\ reqs[r].failed \in Nat
         /\ Settled(r) = Reports(urgent, r) + reqs[r].succeeded + reqs[r].failed
         /\ IF IsUser(r)
            THEN Tally(Unsettled(r), Handled(r), Killed(r), Settled(r), reqs[r].succeeded)
            ELSE reqs[r].succeeded = 0 /\ reqs[r].failed = 0
  <1>1. /\ Reports(urgent, r) \in Nat /\ reqs[r].succeeded \in Nat /\ reqs[r].failed \in Nat
        /\ CountedOnce(r)
    BY LifeFacts, CountNumbers DEF Counts
  <1> QED
    BY <1>1, SettledIs DEF CountedOnce

LEMMA DepartsTree ==
  ASSUME TreeInvariant, TypeOK', NEW m, Departs(m)
  PROVE  TreeParts' /\ InTree
  <1>1. /\ LifeInvariant /\ TypeOK /\ Lineage /\ Messages /\ \A r \in Id : Born(r)
    BY TreeFacts, LifeFacts
  <1>2. /\ m \in ToSend /\ m.r \in Id /\ Kin(reqs') /\ Len(reqs') = Len(reqs) /\ Id' = Id
        /\ SameLife(reqs') /\ SameLinks(reqs') /\ ToSend' = ToSend \ {m}
        /\ m = IF m.ans THEN Ans(m.r) ELSE Req(m.r)
    BY ReqAns DEF Departs, Id
  <1>3. ASSUME NEW x \in Id, NEW y \in reqs[x].done
        PROVE  reqs'[x].tries[y] = 0
    <2>1. y \in DepName /\ reqs[x].tries[y] = 0 /\ reqs[reqs[x].child[y]].computed
      BY <1>3, DoneFacts
    <2> SUFFICES ASSUME ~m.ans, reqs[m.r].requester \in RetryInstance, x = Parent(m.r),
                        y = reqs[m.r].dep
                 PROVE  FALSE
      BY <2>1 DEF Departs
    <2>2. ~IsUser(m.r)
      BY ArchitectureAssumption DEF IsUser
    <2>3. IsCurrent(m.r)
      BY <1>1, <1>2, <2>2 DEF Messages, ToSendIsUnknown
    <2>4. Untouched(reqs, m.r)
      BY <1>1, <1>2, OnTheWayUntouched
    <2> QED
      BY <2>1, <2>3, <2>4 DEF IsCurrent, Untouched
  <1>4. KeepsDone
    BY <1>2, <1>3 DEF KeepsDone, SameLife, SameLinks
  <1>5. CASE m.ans /\ IsUser(m.r) /\ reqs' = [reqs EXCEPT ![m.r].succeeded = @ + 1]
    <2> DEFINE u == m.r
    <2>1. /\ \A x \in Id : x # u => reqs'[x] = reqs[x]
          /\ reqs'[u].succeeded = reqs[u].succeeded + 1 /\ reqs'[u].failed = reqs[u].failed
      BY <1>1, <1>2, <1>5, SuccessSet
    <2>2. reqs[u].computed
      BY <1>1, <1>2, <1>5 DEF Messages, AnswersComputed
    <2>3. reqs[u].succeeded = 0
      <3>1. Unsettled(u)
        BY <1>2, <1>5 DEF Unsettled
      <3>2. Settled(u) = 0
        BY <1>1, <1>2, <1>5, <3>1, Tallies DEF Tally
      <3> QED
        BY <1>1, <1>2, <3>2, Tallies
    <2>4. \A x \in Id : reqs[x].succeeded \in Nat
      BY <1>1, Tallies
    <2>5. \A x \in Id : reqs'[x].failed = reqs[x].failed
      BY <2>1
    <2>6. SucceededIn(reqs)' = SucceededIn(reqs) \cup {u}
      BY <1>2, <2>1, <2>3 DEF SucceededIn, Id
    <2>7. u \in ComputedIn(reqs) \ SucceededIn(reqs)
      BY <1>2, <2>2, <2>3 DEF ComputedIn, SucceededIn, Id
    <2>8. Tree!Succeed(u)
      <3>1. Tree!IsUser(u)
        BY <1>1, <1>2, <1>5, TreeWords
      <3>2. UNCHANGED <<CallsIn(reqs), CompletedIn(reqs), ComputedIn(reqs), FailedIn(reqs)>>
        BY <1>1, <1>2, <2>5, TreeKept DEF SameLife
      <3> QED
        BY <2>6, <2>7, <3>1, <3>2 DEF Tree!Succeed
    <2>9. KeepsAnswers
      <3>1. \A x \in Id : Ans(x) \in ToSend => Ans(x) \in ToSend' \/ x = u
        BY <1>2, <1>5 DEF Ans
      <3> QED
        BY <2>1, <2>3, <2>4, <3>1, <1>2 DEF KeepsAnswers
    <2> QED
      BY <1>1, <1>2, <1>4, <2>8, <2>9, PartsKept, StepsOfTree
  <1>6. CASE SameCounts(reqs') /\ ~(m.ans /\ IsUser(m.r))
    <2>1. KeepsAnswers
      <3>1. \A x \in Id : Ans(x) \in ToSend => Ans(x) \in ToSend' \/ Ans(x) = m
        BY <1>2
      <3>2. \A x \in Id : IsUser(x) => Ans(x) # m
        BY <1>6 DEF Ans
      <3> QED
        BY <1>6, <3>1, <3>2 DEF KeepsAnswers, SameCounts
    <2>2. TreeParts'
      BY <1>2, <1>4, <2>1, PartsKept
    <2>3. UNCHANGED Tree!vars
      BY <1>1, <1>2, <1>6, TreeKept DEF SameLife, SameCounts, Tree!vars
    <2> QED
      BY <1>1, <2>2, <2>3, StepsOfTree
  <1>7. \/ m.ans /\ IsUser(m.r) /\ reqs' = [reqs EXCEPT ![m.r].succeeded = @ + 1]
        \/ SameCounts(reqs') /\ ~(m.ans /\ IsUser(m.r))
    BY DEF Departs
  <1> QED
    BY <1>5, <1>6, <1>7

LEMMA LeafTree ==
  ASSUME TreeInvariant, TypeOK', NEW r, NEW i, BeginsLeaf(r, i)
  PROVE  TreeParts' /\ InTree
  <1>1. KeepsDone
    BY DoneFacts DEF BeginsLeaf, Begins, KeepsDone, SameLinks, SameTries
  <1> QED
    BY <1>1, SilentTree DEF BeginsLeaf, Begins

\* A request that arrives has called nobody yet, and calls all at once.
LEMMA CompositeTree ==
  ASSUME TreeInvariant, TypeOK', NEW r, NEW i, NEW q, BeginsComposite(r, i),
         ReceiveCompositeRequest(r, i, q)
  PROVE  TreeParts' /\ InTree
  <1>1. /\ LifeInvariant /\ TypeOK /\ Lineage /\ r \in Id /\ i \in Instance
        /\ Untouched(reqs, r) /\ Kin(reqs') /\ SameTries(reqs') /\ SameCounts(reqs')
        /\ \A x \in Id : /\ reqs'[x].computed = reqs[x].computed
                         /\ reqs'[x].done = reqs[x].done
                         /\ x # r => reqs'[x].child = reqs[x].child
        /\ \A x \in Id' \ Id : Unborn(reqs'[x])
        /\ ToSend \subseteq ToSend' /\ reqs \in Seq(Request)
    BY TreeFacts DEF BeginsComposite, Begins, TypeOK
  <1>2. KeepsDone
    <2>1. reqs[r].done = {}
      BY <1>1 DEF Untouched
    <2> QED
      BY <1>1, <2>1, DoneFacts DEF KeepsDone, SameTries
  <1>3. TreeParts'
    BY <1>1, <1>2, PartsKept DEF KeepsAnswers, SameCounts
  <1>4. PICK order \in Orders(Deps(r)) : reqs' = WithChildren(r, i, order)
    BY DEF ReceiveCompositeRequest, WithChildren, ChildrenOf, Created
  <1>5. ASSUME NEW c \in Id PROVE Parent(c) # r
    <2> SUFFICES ASSUME Parent(c) = r PROVE FALSE
      OBVIOUS
    <2>1. Born(c) /\ r # 0
      BY <1>1, TreeFacts DEF Id
    <2>2. ~IsUser(c)
      BY <2>1 DEF Born, Parent
    <2>3. reqs[c].dep \in DepName
      BY <1>1, <2>2, InternalFacts
    <2>4. c \in Attempts(r, reqs[c].dep)
      BY DEF Attempts
    <2> QED
      BY <1>1, <2>3, <2>4, NothingTried DEF Untouched
  <1>6. CallsIn(reqs)' = CallsIn(reqs) \o
          [k \in DOMAIN order |-> Tree!Call(TargetOf[order[k]], r, order[k])]
    <2> DEFINE a == [reqs EXCEPT ![r].handler = i, ![r].child = ChildrenOf(r, order)]
               b == Created(r, i, order)
               t == [k \in DOMAIN order |-> Tree!Call(TargetOf[order[k]], r, order[k])]
    <2>1. HandlingInvariant /\ b \in Seq(Request)
      BY <1>1, LifeFacts, ChildrenFacts
    <2>2. /\ a \in Seq(Request) /\ Len(a) = Len(reqs)
          /\ \A x \in Id : /\ a[x].op = reqs[x].op /\ a[x].parent = reqs[x].parent
                           /\ a[x].dep = reqs[x].dep
      <3> DEFINE v == [reqs[r] EXCEPT !.handler = i, !.child = ChildrenOf(r, order)]
      <3>1. reqs[r] \in Request /\ DOMAIN reqs = Id
        BY <1>1, ReqsType
      <3>2. /\ v \in Request /\ v.op = reqs[r].op /\ v.parent = reqs[r].parent
            /\ v.dep = reqs[r].dep
        BY <3>1, <2>1, <1>1, ChildrenFacts DEF Request
      <3>3. a = [reqs EXCEPT ![r] = v]
        BY <3>1 DEF Request
      <3> HIDE DEF v, a
      <3>4. /\ a \in Seq(Request) /\ Len(a) = Len(reqs) /\ a[r] = v
            /\ \A x \in Id : x # r => a[x] = reqs[x]
        BY <1>1, <3>2, <3>3, Replaced
      <3> QED
        BY <3>2, <3>4
    <2>3. CallsIn(a) = CallsIn(reqs)
      BY <2>2 DEF CallsIn, Id
    <2>4. CallsIn(b) = t
      <3>1. DOMAIN b = DOMAIN order /\ DOMAIN b = 1..Len(b)
        <4>1. DOMAIN b = DOMAIN order
          BY DEF Created
        <4> HIDE DEF b
        <4> QED
          BY <2>1, <4>1, LenProperties
      <3>2. \A k \in DOMAIN order :
              /\ b[k].op = TargetOf[order[k]] /\ b[k].parent = r /\ b[k].dep = order[k]
        BY DEF Created, NewRequest
      <3> HIDE DEF b
      <3> QED
        BY <3>1, <3>2 DEF CallsIn, Tree!Call
    <2> HIDE DEF a, b, t
    <2>5. reqs' = a \o b
      BY <1>4 DEF a, b, WithChildren
    <2>6. CallsIn(reqs') = CallsIn(reqs) \o t
      BY <2>1, <2>2, <2>3, <2>4, <2>5, CallsConcat
    <2> QED
      BY <2>6 DEF t
  <1>7. Tree!CallDependencies(r)
    <2>1. \A c \in Tree!Id : CallsIn(reqs)[c].parent # r
      BY <1>1, <1>5, TreeWords
    <2>2. Tree!Deps(r) = Deps(r)
      BY <1>1, TreeWords
    <2>3. order \in Tree!Bijection(1..Tree!Cardinality(Tree!Deps(r)), Tree!Deps(r))
      BY <2>2, TreeOrders
    <2>4. UNCHANGED <<CompletedIn(reqs), ComputedIn(reqs), SucceededIn(reqs), FailedIn(reqs)>>
      BY <1>1, TreeKept DEF SameCounts
    <2> QED
      BY <1>6, <2>1, <2>3, <2>4 DEF Tree!CallDependencies
  <1> QED
    BY <1>1, <1>3, <1>7, StepsOfTree

\* The answer that a dependency waits for completes it.
LEMMA ClosesTree ==
  ASSUME TreeInvariant, TypeOK', NEW m, NEW i, NEW p, NEW n, Closes(m, i, p, n)
  PROVE  TreeParts' /\ InTree
  <1> DEFINE c == m.r
  <1>1. /\ TypeOK /\ TypeOK' /\ LifeInvariant /\ Lineage /\ Instances
        /\ c \in Id /\ p \in Id /\ n \in DepName /\ i \in Instance /\ ~IsUser(c)
        /\ p = Parent(c) /\ DepOf(c) = <<p, n>> /\ reqs[c].dep = n /\ IsCurrent(c)
        /\ <<p, n>> \in openDeps[i] /\ Kin(reqs') /\ Len(reqs') = Len(reqs) /\ Id' = Id
        /\ SameLinks(reqs') /\ SameCounts(reqs') /\ ToSend' = ToSend /\ reqs[c].computed
        /\ \A x \in Id : /\ reqs'[x].computed = reqs[x].computed
                         /\ reqs'[x].done = IF x = p THEN reqs[x].done \cup {n}
                                                     ELSE reqs[x].done
        /\ \A x \in Id, y \in DepName :
             reqs'[x].tries[y] = IF x = p /\ y = n THEN 0 ELSE reqs[x].tries[y]
    BY TreeFacts, LifeFacts DEF Closes, DepOf, Id
  <1> HIDE DEF c
  <1>2. reqs[p].child[n] = c /\ n \in Deps(p) /\ n \notin reqs[p].done
    BY <1>1, InternalFacts DEF IsCurrent, Instances, OpenIsWaiting
  <1>3. \A x \in Id : /\ IsUser(x)' = IsUser(x) /\ DepOf(x)' = DepOf(x)
                     /\ Deps(x)' = Deps(x)
    BY <1>1, KinId
  <1>4. ASSUME NEW x \in Id, NEW y \in reqs'[x].done
        PROVE  /\ y \in Deps(x) /\ reqs'[x].child[y] = reqs[x].child[y]
               /\ reqs[x].child[y] \in Id /\ DepOf(reqs[x].child[y]) = <<x, y>>
               /\ reqs[reqs[x].child[y]].computed /\ reqs'[x].tries[y] = 0
    <2>1. CASE x = p /\ y = n
      BY <2>1, <1>1, <1>2 DEF SameLinks
    <2>2. CASE ~(x = p /\ y = n)
      <3>1. y \in reqs[x].done
        <4>1. reqs'[x].done = IF x = p THEN reqs[x].done \cup {n} ELSE reqs[x].done
          BY <1>1
        <4> QED
          BY <4>1, <1>4, <2>2
      <3> QED
        BY <1>1, <2>2, <3>1, DoneFacts DEF SameLinks
    <2> QED
      BY <2>1, <2>2
  <1>5. DoneIsComputed'
    <2> SUFFICES ASSUME NEW x \in Id', NEW y \in reqs'[x].done
                 PROVE  /\ y \in Deps(x)' /\ reqs'[x].child[y] \in Id'
                        /\ DepOf(reqs[x].child[y])' = <<x, y>>
                        /\ reqs'[reqs'[x].child[y]].computed /\ reqs'[x].tries[y] = 0
      BY DEF DoneIsComputed, DepOf
    <2>1. PICK d \in Id : d = reqs[x].child[y]
      BY <1>1, <1>4
    <2>2. x \in Id /\ reqs'[x].child[y] = d /\ reqs'[x].tries[y] = 0
      BY <1>1, <1>4, <2>1
    <2>3. y \in Deps(x) /\ DepOf(d) = <<x, y>> /\ reqs[d].computed
      BY <2>1, <2>2, <1>4
    <2>4. y \in Deps(x)' /\ DepOf(d)' = <<x, y>> /\ reqs'[d].computed
      BY <1>1, <1>3, <2>1, <2>2, <2>3
    <2> QED
      BY <1>1, <2>1, <2>2, <2>4 DEF DepOf
  <1>6. ComputedIsAnswered'
    <2> SUFFICES ASSUME NEW x \in Id', reqs'[x].computed
                 PROVE  /\ DepsCompleted(x)'
                        /\ IsUser(x)' => Ans(x) \in ToSend' \/ reqs'[x].succeeded > 0
      BY DEF ComputedIsAnswered, Ans
    <2>1. x \in Id /\ reqs[x].computed /\ reqs[x].done \subseteq reqs'[x].done
      BY <1>1
    <2>2. DepsCompleted(x) /\ (IsUser(x) => Ans(x) \in ToSend \/ reqs[x].succeeded > 0)
      BY <2>1, TreeFacts DEF ComputedIsAnswered
    <2> QED
      BY <1>1, <1>3, <2>1, <2>2 DEF DepsCompleted, SameCounts
  <1>7. CompletedIn(reqs)' = CompletedIn(reqs) \cup {<<p, n>>}
    <2>1. CompletedIn(reqs)' = {d \in Id \X DepName : d[2] \in reqs'[d[1]].done}
      BY <1>1 DEF CompletedIn, Id
    <2>2. CompletedIn(reqs) = {d \in Id \X DepName : d[2] \in reqs[d[1]].done}
      BY DEF CompletedIn, Id
    <2>3. \A x \in Id, y \in DepName :
            y \in reqs'[x].done <=> y \in reqs[x].done \/ <<x, y>> = <<p, n>>
      <3> SUFFICES ASSUME NEW x \in Id, NEW y \in DepName
                   PROVE  y \in reqs'[x].done <=> y \in reqs[x].done \/ (x = p /\ y = n)
        OBVIOUS
      <3>1. reqs'[x].done = IF x = p THEN reqs[x].done \cup {n} ELSE reqs[x].done
        BY <1>1
      <3> QED
        BY <3>1
    <2> QED
      BY <1>1, <2>1, <2>2, <2>3
  <1>8. Tree!Complete(c)
    <2>1. /\ ~Tree!IsUser(c) /\ CallsIn(reqs)[c].parent = p /\ CallsIn(reqs)[c].dep = n
      BY <1>1, TreeWords
    <2>2. c \in ComputedIn(reqs) /\ <<p, n>> \notin CompletedIn(reqs)
      BY <1>1, <1>2 DEF ComputedIn, CompletedIn, Id
    <2>3. UNCHANGED <<CallsIn(reqs), ComputedIn(reqs), SucceededIn(reqs), FailedIn(reqs)>>
      BY <1>1, TreeKept DEF SameCounts
    <2> QED
      BY <1>7, <2>1, <2>2, <2>3 DEF Tree!Complete
  <1> QED
    BY <1>1, <1>5, <1>6, <1>8, StepsOfTree DEF TreeParts

\* A request is computed when it is complete, and is on the way to its user.
LEMMA ComputesTree ==
  ASSUME TreeInvariant, TypeOK', NEW r, NEW i, Computes(r, i)
  PROVE  TreeParts' /\ InTree
  <1>1. /\ TypeOK /\ LifeInvariant /\ Lineage /\ ComputedIsComplete
        /\ r \in finishing /\ r \in Id /\ i \in Instance /\ Live(i)
        /\ reqs[r].handler = i /\ r \in handling[i] /\ ~reqs[r].computed
        /\ Len(reqs') = Len(reqs) /\ Id' = Id /\ Kin(reqs') /\ SameLinks(reqs')
        /\ SameTries(reqs') /\ SameCounts(reqs') /\ ToSend' = ToSend \cup {Ans(r)}
        /\ \A x \in Id : /\ reqs'[x].done = reqs[x].done
                         /\ reqs'[x].computed = (x = r \/ reqs[x].computed)
    BY TreeFacts, LifeFacts DEF Computes, Id
  <1>2. DepsCompleted(r)
    BY <1>1 DEF ComputedIsComplete
  <1>3. \A x \in Id : /\ IsUser(x)' = IsUser(x) /\ DepOf(x)' = DepOf(x)
                     /\ Deps(x)' = Deps(x)
    BY <1>1, KinId
  <1>4. DoneIsComputed'
    <2> SUFFICES ASSUME NEW x \in Id', NEW y \in reqs'[x].done
                 PROVE  /\ y \in Deps(x)' /\ reqs'[x].child[y] \in Id'
                        /\ DepOf(reqs[x].child[y])' = <<x, y>>
                        /\ reqs'[reqs'[x].child[y]].computed /\ reqs'[x].tries[y] = 0
      BY DEF DoneIsComputed, DepOf
    <2>1. x \in Id /\ y \in reqs[x].done
      BY <1>1
    <2>2. PICK d \in Id : d = reqs[x].child[y]
      BY <2>1, DoneFacts
    <2>3. reqs'[x].child[y] = d /\ reqs'[x].tries[y] = 0
      BY <1>1, <2>1, <2>2, DoneFacts DEF SameLinks, SameTries
    <2>4. y \in Deps(x) /\ DepOf(d) = <<x, y>> /\ reqs[d].computed
      BY <2>1, <2>2, DoneFacts
    <2>5. y \in Deps(x)' /\ DepOf(d)' = <<x, y>> /\ reqs'[d].computed
      BY <1>1, <1>3, <2>1, <2>2, <2>4
    <2> QED
      BY <1>1, <2>2, <2>3, <2>5 DEF DepOf
  <1>5. ComputedIsAnswered'
    <2> SUFFICES ASSUME NEW x \in Id', reqs'[x].computed
                 PROVE  /\ DepsCompleted(x)'
                        /\ IsUser(x)' => Ans(x) \in ToSend' \/ reqs'[x].succeeded > 0
      BY DEF ComputedIsAnswered, Ans
    <2>1. x \in Id /\ (x = r \/ reqs[x].computed)
      BY <1>1
    <2>2. DepsCompleted(x) /\ (IsUser(x) => Ans(x) \in ToSend' \/ reqs[x].succeeded > 0)
      BY <2>1, <1>1, <1>2, TreeFacts DEF ComputedIsAnswered
    <2> QED
      BY <1>1, <1>3, <2>1, <2>2 DEF DepsCompleted, SameCounts
  <1>6. reqs[r].failed = 0
    <2>1. CASE IsUser(r)
      <3>1. Handled(r) /\ ~Killed(r)
        <4>1. i # None
          BY <1>1, ArchitectureAssumption
        <4> QED
          BY <1>1, <4>1 DEF Handled, Killed, Live
      <3> QED
        BY <1>1, <2>1, <3>1, Tallies DEF Tally
    <2>2. CASE ~IsUser(r)
      BY <1>1, <2>2, Tallies
    <2> QED
      BY <2>1, <2>2
  <1>7. Tree!Compute(r)
    <2>1. r \notin ComputedIn(reqs) \cup FailedIn(reqs)
      BY <1>1, <1>6 DEF ComputedIn, FailedIn
    <2>2. \A n \in Tree!Deps(r) : <<r, n>> \in CompletedIn(reqs)
      <3>1. Tree!Deps(r) = Deps(r) /\ Deps(r) \subseteq DepName
        BY <1>1, TreeWords, DepsAreNames
      <3> QED
        BY <1>1, <1>2, <3>1 DEF CompletedIn, DepsCompleted, Id
    <2>3. ComputedIn(reqs)' = ComputedIn(reqs) \cup {r}
      BY <1>1 DEF ComputedIn, Id
    <2>4. UNCHANGED <<CallsIn(reqs), CompletedIn(reqs), SucceededIn(reqs), FailedIn(reqs)>>
      BY <1>1, TreeKept DEF SameCounts
    <2> QED
      BY <2>1, <2>2, <2>3, <2>4 DEF Tree!Compute
  <1> QED
    BY <1>1, <1>4, <1>5, <1>7, StepsOfTree DEF TreeParts

\* A user request that fails was not computed, and may fail again.
LEMMA FailUserTree ==
  ASSUME TreeInvariant, TypeOK', NEW m, Cancels(m), Fails(m), Quiet({}), FailUserRequest(m)
  PROVE  TreeParts' /\ InTree
  <1> DEFINE u == m.r
  <1>1. /\ LifeInvariant /\ TypeOK /\ Lineage /\ urgent # <<>> /\ m = Head(urgent).m
        /\ u \in Id /\ m = Req(u) /\ IsUser(u) /\ reqs' = [reqs EXCEPT ![u].failed = @ + 1]
        /\ Kin(reqs') /\ Len(reqs') = Len(reqs) /\ Id' = Id /\ SameLife(reqs')
        /\ SameLinks(reqs') /\ SameTries(reqs') /\ ToSend' = ToSend
    <2>1. /\ LifeInvariant /\ TypeOK /\ Lineage /\ urgent # <<>> /\ m = Head(urgent).m
          /\ u \in Id /\ ToSend' = ToSend /\ m = IF m.ans THEN Ans(m.r) ELSE Req(u)
      BY TreeFacts DEF Cancels, Fails, Quiet
    <2>2. ~m.ans /\ IsUser(u) /\ reqs' = [reqs EXCEPT ![u].failed = @ + 1]
      BY DEF FailUserRequest
    <2> QED
      BY <2>1, <2>2, FailureSame DEF Id
  <1> HIDE DEF u
  <1>2. /\ \A x \in Id : x # u => reqs'[x] = reqs[x]
        /\ reqs'[u].failed = reqs[u].failed + 1 /\ reqs'[u].succeeded = reqs[u].succeeded
    BY <1>1, FailureSet
  <1>3. \A x \in Id : reqs'[x].succeeded = reqs[x].succeeded
    BY <1>2
  <1>4. TreeParts'
    <2>1. KeepsDone
      BY <1>1, DoneKept DEF SameTries
    <2>2. KeepsAnswers
      BY <1>1, <1>3 DEF KeepsAnswers
    <2> QED
      BY <1>1, <2>1, <2>2, PartsKept
  <1>5. Settled(u) > reqs[u].succeeded
    <2>1. Reports(Tail(urgent), u) \in Nat
          /\ Reports(urgent, u) = Reports(Tail(urgent), u) + 1
      BY <1>1, ReportsTail DEF TypeOK
    <2>2. Reports(urgent, u) > 0
      BY <2>1
    <2> QED
      BY <1>1, <2>2, Tallies
  <1>6. ~reqs[u].computed
    <2> SUFFICES ASSUME reqs[u].computed PROVE FALSE
      OBVIOUS
    <2>1. Ans(u) \in ToSend \/ reqs[u].succeeded > 0
      BY <1>1, TreeFacts DEF ComputedIsAnswered
    <2>2. Ans(u) \in ToSend => Settled(u) = 0
      BY <1>1, Tallies DEF Tally, Unsettled
    <2>3. Settled(u) \in Nat /\ reqs[u].succeeded \in Nat
      BY <1>1, Tallies
    <2>4. Settled(u) <= 1 \/ reqs[u].succeeded = 0
      BY <1>1, Tallies DEF Tally
    <2> QED
      BY <1>5, <2>1, <2>2, <2>3, <2>4
  <1>7. UNCHANGED <<CallsIn(reqs), CompletedIn(reqs), ComputedIn(reqs), SucceededIn(reqs)>>
    BY <1>1, <1>3, TreeKept DEF SameLife
  <1>8. \A x \in Id : reqs[x].failed \in Nat
    BY <1>1, Tallies
  <1>9. FailedIn(reqs)' = FailedIn(reqs) \cup {u}
    BY <1>1, <1>2, <1>8 DEF FailedIn, Id
  <1>10. CASE reqs[u].failed = 0
    <2>1. u \notin ComputedIn(reqs) \cup FailedIn(reqs)
      BY <1>6, <1>10 DEF ComputedIn, FailedIn
    <2>2. Tree!IsUser(u)
      BY <1>1, TreeWords
    <2>3. Tree!Fail(u)
      BY <1>7, <1>9, <2>1, <2>2 DEF Tree!Fail
    <2> QED
      BY <1>1, <1>4, <2>3, StepsOfTree
  <1>11. CASE reqs[u].failed # 0
    <2>1. FailedIn(reqs)' = FailedIn(reqs)
      BY <1>1, <1>8, <1>9, <1>11 DEF FailedIn, Id
    <2>2. UNCHANGED Tree!vars
      BY <1>7, <2>1 DEF Tree!vars
    <2> QED
      BY <1>1, <1>4, <2>2, StepsOfTree
  <1> QED
    BY <1>10, <1>11

\* What Retry calls again is not complete.
LEMMA RepeatsTree ==
  ASSUME TreeInvariant, TypeOK', NEW m, NEW new, Repeats(m, new), RetryRequest(m)
  PROVE  TreeParts' /\ InTree
  <1> DEFINE r == m.r
             p == Parent(m.r)
             n == reqs[m.r].dep
  <1>1. /\ LifeInvariant /\ TypeOK /\ Lineage /\ r \in Id /\ ~IsUser(r) /\ Retries(r)
        /\ new = Len(reqs) + 1 /\ Id' = Id \cup {new} /\ new \notin Id
        /\ Kin(reqs') /\ SameLife(reqs') /\ SameTries(reqs') /\ SameCounts(reqs')
        /\ \A x \in Id, y \in DepName :
             reqs'[x].child[y] = IF x = p /\ y = n THEN new ELSE reqs[x].child[y]
        /\ Unborn(reqs'[new]) /\ ToSend \subseteq ToSend'
        /\ reqs' = Append(Relinked(r, new), NewRequest(reqs[r].op, p, n, reqs[r].requester))
        /\ p = Parent(r) /\ n = reqs[r].dep
    <2>1. LifeInvariant /\ TypeOK /\ Lineage
      BY TreeFacts
    <2>2. reqs' = Append(Relinked(r, new), NewRequest(reqs[r].op, p, n, reqs[r].requester))
      BY DEF Repeats, RetryRequest
    <2> QED
      BY <2>1, <2>2 DEF Repeats
  <1> HIDE DEF r, p, n
  <1>2. p \in Id /\ n \in DepName
    BY <1>1, InternalFacts
  <1>3. n \notin reqs[p].done
    <2>1. reqs[p].tries[n] > 0
      BY <1>1 DEF Retries, Known, Tries
    <2> QED
      BY <1>2, <2>1, DoneFacts
  <1>4. TreeParts'
    <2>1. KeepsDone
      <3>1. \A x \in Id : \A y \in reqs[x].done : y \in DepName /\ reqs[x].tries[y] = 0
        BY DoneFacts
      <3>2. ASSUME NEW x \in Id, NEW y \in reqs[x].done
            PROVE  reqs'[x].child[y] = reqs[x].child[y] /\ reqs'[x].tries[y] = 0
        <4>1. ~(x = p /\ y = n)
          BY <1>3, <3>2
        <4>2. y \in DepName /\ reqs[x].tries[y] = 0
          BY <3>1, <3>2
        <4>3. reqs'[x].child[y] = reqs[x].child[y]
          BY <1>1, <4>1, <4>2
        <4>4. reqs'[x].tries = reqs[x].tries
          BY <1>1 DEF SameTries
        <4> QED
          BY <4>2, <4>3, <4>4
      <3>3. \A x \in Id : /\ reqs'[x].done = reqs[x].done
                          /\ reqs'[x].computed = reqs[x].computed
        BY <1>1 DEF SameLife
      <3> QED
        BY <3>2, <3>3 DEF KeepsDone
    <2> QED
      BY <1>1, <2>1, PartsKept DEF KeepsAnswers, SameCounts
  <1>5. CallsIn(reqs)' = Append(CallsIn(reqs), CallsIn(reqs)[r])
    <2> DEFINE a == Relinked(r, new)
               v == NewRequest(reqs[r].op, p, n, reqs[r].requester)
    <2>1. reqs[r] \in Request /\ reqs[p] \in Request /\ DOMAIN reqs = Id /\ new \in Nat
      <3>1. \A x \in Id : reqs[x] \in Request
        BY <1>1, ReqsType
      <3>2. DOMAIN reqs = Id /\ Len(reqs) \in Nat
        BY <1>1 DEF TypeOK, Id
      <3> QED
        BY <1>1, <1>2, <3>1, <3>2
    <2>2. /\ v \in Request /\ NodeOf(v) = NodeOf(reqs[r])
      <3>1. p = reqs[r].parent /\ p \in Nat /\ n = reqs[r].dep /\ n \in DepName
        BY <1>1, <1>2 DEF Parent, Id
      <3>2. v \in Request
        BY <2>1, <3>1 DEF NewRequest, Request
      <3>3. NodeOf(v) = NodeOf(reqs[r])
        BY <3>1 DEF NewRequest, NodeOf
      <3> QED
        BY <3>2, <3>3
    <2>3. /\ a \in Seq(Request) /\ Len(a) = Len(reqs)
          /\ \A x \in Id : /\ a[x].op = reqs[x].op /\ a[x].parent = reqs[x].parent
                           /\ a[x].dep = reqs[x].dep
      <3> DEFINE w == [reqs[p] EXCEPT !.child[n] = new]
      <3>1. /\ w \in Request /\ w.op = reqs[p].op /\ w.parent = reqs[p].parent
            /\ w.dep = reqs[p].dep
        BY <1>2, <2>1 DEF Request
      <3>2. a = [reqs EXCEPT ![p] = w]
        BY <1>1, <2>1 DEF Relinked, Request
      <3> HIDE DEF w, a
      <3>3. /\ a \in Seq(Request) /\ Len(a) = Len(reqs) /\ a[p] = w
            /\ \A x \in Id : x # p => a[x] = reqs[x]
        BY <1>1, <1>2, <3>1, <3>2, Replaced
      <3>4. ASSUME NEW x \in Id
            PROVE  /\ a[x].op = reqs[x].op /\ a[x].parent = reqs[x].parent
                   /\ a[x].dep = reqs[x].dep
        BY <3>1, <3>3
      <3> QED
        BY <3>3, <3>4
    <2> HIDE DEF a, v
    <2>4. CallsIn(a) = CallsIn(reqs)
      BY <2>3 DEF CallsIn, Id
    <2>5. CallsIn(reqs)[r] = NodeOf(v)
      BY <1>1, <2>2, TreeWords
    <2>6. CallsIn(reqs') = Append(CallsIn(a), NodeOf(v))
      <3>1. reqs' = Append(a, v)
        BY <1>1 DEF a, v
      <3> QED
        BY <2>2, <2>3, <3>1, CallsAppend
    <2> QED
      BY <2>4, <2>5, <2>6
  <1>6. Tree!CallAgain(r)
    <2>1. /\ ~Tree!IsUser(r) /\ CallsIn(reqs)[r].parent = p /\ CallsIn(reqs)[r].dep = n
      BY <1>1, TreeWords
    <2>2. <<p, n>> \notin CompletedIn(reqs)
      BY <1>3 DEF CompletedIn
    <2>3. UNCHANGED <<CompletedIn(reqs), ComputedIn(reqs), SucceededIn(reqs), FailedIn(reqs)>>
      BY <1>1, TreeKept DEF SameLife, SameCounts
    <2> QED
      BY <1>5, <2>1, <2>2, <2>3 DEF Tree!CallAgain
  <1> QED
    BY <1>1, <1>4, <1>6, StepsOfTree

LEMMA AsksTree ==
  ASSUME TreeInvariant, TypeOK', NEW op \in UserOp, SendNewUserRequest(op)
  PROVE  TreeParts' /\ InTree
  <1> DEFINE new == Len(reqs) + 1
             v == NewRequest(op, 0, None, Generator)
  <1>1. Asks(new) /\ reqs' = Append(reqs, v)
    BY AsksEffects, TreeFacts DEF SendNewUserRequest
  <1> HIDE DEF new
  <1>2. /\ TypeOK /\ Lineage /\ reqs \in Seq(Request) /\ Id' = Id \cup {new}
        /\ Kin(reqs') /\ SameLife(reqs') /\ SameLinks(reqs') /\ SameTries(reqs')
        /\ SameCounts(reqs') /\ Unborn(reqs'[new]) /\ ToSend \subseteq ToSend'
    BY <1>1, TreeFacts DEF Asks, TypeOK
  <1>3. TreeParts'
    <2>1. KeepsDone
      BY <1>2, DoneKept DEF SameTries
    <2> QED
      BY <1>2, <2>1, PartsKept DEF KeepsAnswers, SameCounts
  <1>4. v \in Request /\ NodeOf(v) = Tree!Call(op, 0, None)
    BY ArchitectureAssumption DEF NewRequest, Request, NodeOf, Tree!Call
  <1> HIDE DEF v
  <1>5. CallsIn(reqs)' = Append(CallsIn(reqs), Tree!Call(op, 0, None))
    BY <1>1, <1>2, <1>4, CallsAppend
  <1>6. UNCHANGED <<CompletedIn(reqs), ComputedIn(reqs), SucceededIn(reqs), FailedIn(reqs)>>
    BY <1>2, TreeKept DEF SameLife, SameCounts
  <1>7. Tree!CallUser(op)
    BY <1>5, <1>6 DEF Tree!CallUser
  <1> QED
    BY <1>2, <1>3, <1>7, StepsOfTree

LEMMA ReceiveTree ==
  ASSUME TreeInvariant, TypeOK', NEW e, NEW q, NEW f, Taken(e, q, f),
         e.type = "receive", Receive(e.m, e.i, q, f)
  PROVE  TreeParts' /\ InTree
  <1>1. flight' = f /\ UNCHANGED <<state, finishing>> /\ LifeInvariant
    BY TreeFacts DEF Receive
  <1>2. CASE ReceiveRequest(e.m, e.i, q) /\ ReceiveLeafRequest(e.m.r, e.i, q)
    BY <1>1, <1>2, LeafEffects, LeafTree
  <1>3. CASE ReceiveRequest(e.m, e.i, q) /\ ReceiveCompositeRequest(e.m.r, e.i, q)
    BY <1>1, <1>3, CompositeEffects, CompositeTree
  <1>4. CASE ReceiveAnswer(e.m, e.i, q)
    BY <1>1, <1>4, AnswerEffects, ClosesTree
  <1>5. CASE Refuse(e.m, e.i, q)
    <2>1. Refuses(e.m, e.i)
      BY <1>1, <1>5, RefusesMessage
    <2> QED
      BY <2>1, IdleTree DEF Refuses
  <1> QED
    BY <1>2, <1>3, <1>4, <1>5 DEF Receive, ReceiveRequest

LEMMA CompleteTree ==
  ASSUME TreeInvariant, TypeOK', NeverAborts', NEW e, NEW q, Taken(e, q, flight),
         e.type = "computed", CompleteComputation(e.m, e.i, q)
  PROVE  TreeParts' /\ InTree
  <1>1. CASE e.m.r \in finishing
    BY <1>1, TreeFacts, ComputesEffects, ComputesTree
  <1>2. CASE e.m.r \notin finishing
    BY <1>2, TreeFacts, CanceledEffects, IdleTree
  <1> QED
    BY <1>1, <1>2

LEMMA ForgetsTree ==
  ASSUME TreeInvariant, TypeOK', NEW N, Quiet(N), NEW r, Forgets(r)
  PROVE  TreeParts' /\ InTree
  <1>1. \A x \in Id, y \in DepName : reqs'[x].tries[y] \in {reqs[x].tries[y], 0}
    BY DEF Forgets, SameTries
  <1> QED
    BY <1>1, QuietTree DEF Forgets

LEMMA ClearsTree ==
  ASSUME TreeInvariant, TypeOK', NEW N, Quiet(N), NEW i, ClearsRetry(i)
  PROVE  TreeParts' /\ InTree
  BY QuietTree DEF ClearsRetry

LEMMA CancelTree ==
  ASSUME TreeInvariant, TypeOK', CancelRequest
  PROVE  TreeParts' /\ InTree
  <1> DEFINE m == Head(urgent).m
  <1>1. /\ Cancels(m) /\ UNCHANGED due
        /\ \/ FailAnswer(m) \/ FailUserRequest(m) \/ RetryRequest(m)
           \/ LetRequestFail(m) \/ IgnoreFailure(m)
    BY DEF CancelRequest, Cancels
  <1> HIDE DEF m
  <1>2. LifeInvariant /\ TypeOK
    BY TreeFacts
  <1>3. CASE FailAnswer(m)
    <2>1. UNCHANGED <<reqs, due, flight>>
      BY <1>1, <1>3 DEF FailAnswer
    <2> QED
      BY <2>1, <1>2, SameEvents, IdleTree
  <1>4. CASE FailUserRequest(m)
    <2>1. Fails(m) /\ Quiet({})
      <3>1. /\ Failed(m) /\ UNCHANGED flight /\ urgent' = Tail(urgent) /\ m.r \in Id
            /\ reqs' = [reqs EXCEPT ![m.r].failed = @ + 1]
        <4>1. urgent # <<>> /\ urgent \in Seq(Cancellation) /\ m = Head(urgent).m
          BY <1>1, <1>2 DEF Cancels, TypeOK
        <4>2. Head(urgent) \in Cancellation
          BY <4>1
        <4> QED
          BY <4>1, <4>2, <1>4, ReqAns DEF Cancellation, FailUserRequest
      <3> QED
        BY <1>1, <1>2, <3>1, FailureSame, QuietFails
    <2> QED
      BY <1>1, <1>4, <2>1, FailUserTree
  <1>5. CASE RetryRequest(m)
    BY <1>1, <1>2, <1>5, RepeatsEffects, RepeatsTree
  <1>6. CASE LetRequestFail(m)
    <2>1. PICK i \in Instance, p \in Id : GivesUp(m, i, p)
      BY <1>1, <1>2, <1>6, GivesUpEffects
    <2> QED
      BY <2>1, ForgetsTree DEF GivesUp
  <1>7. CASE IgnoreFailure(m)
    BY <1>1, <1>2, <1>7, IgnoreEffects, ForgetsTree
  <1> QED
    BY <1>1, <1>3, <1>4, <1>5, <1>6, <1>7

LEMMA NextTree ==
  ASSUME TreeInvariant, [Next]_vars
  PROVE  TreeInvariant' /\ InTree
  <1>1. LifeInvariant /\ LifeInvariant' /\ TypeOK /\ TypeOK' /\ NeverAborts'
    BY TreeFacts, NextLife DEF LifeInvariant, HandlingInvariant
  <1> SUFFICES TreeParts' /\ InTree
    BY <1>1 DEF TreeInvariant, TreeParts
  <1>2. CASE CancelRequest
    BY <1>1, <1>2, CancelTree
  <1>3. ASSUME NEW e, NEW q, NEW f, Taken(e, q, f), e.type = "send", Send(e.m, q, f)
        PROVE  TreeParts' /\ InTree
    BY <1>1, <1>3, SendsMessage, DepartsTree
  <1>4. CASE ExecuteDue
    <2> DEFINE e == Head(due)
               q == Tail(due)
    <2>1. Taken(e, q, flight)
      BY <1>1, <1>4, TakenDue DEF ExecuteDue
    <2> HIDE DEF e, q
    <2>2. CASE e.type = "send" /\ Send(e.m, q, flight)
      BY <2>1, <2>2, <1>3
    <2>3. CASE e.type = "receive" /\ Receive(e.m, e.i, q, flight)
      BY <2>1, <2>3, <1>1, ReceiveTree
    <2>4. CASE e.type = "computed" /\ CompleteComputation(e.m, e.i, q)
      BY <2>1, <2>4, <1>1, CompleteTree
    <2>5. CASE e.type = "end" /\ EndShutdown(e.i, q)
      <3>1. ShutdownEnds(e.i)
        BY <2>1, <2>5, <1>1, ShutdownEndEffects DEF EndShutdown
      <3> QED
        BY <3>1, <1>1, ClearsTree DEF ShutdownEnds
    <2> QED
      BY <2>2, <2>3, <2>4, <2>5, <1>4 DEF ExecuteDue, e, q
  <1>5. CASE ExecuteDelayed
    <2>1. PICK e \in flight :
            \/ e.type = "send"    /\ Send(e.m, due, flight \ {e})
            \/ e.type = "receive" /\ Receive(e.m, e.i, due, flight \ {e})
            \/ e.type = "cancel"  /\ CancelLater(e.m, flight \ {e})
      BY <1>5 DEF ExecuteDelayed
    <2> DEFINE f == flight \ {e}
    <2>2. Taken(e, due, f)
      BY <1>1, TakenDelayed
    <2> HIDE DEF f
    <2>3. CASE e.type = "send" /\ Send(e.m, due, f)
      BY <2>2, <2>3, <1>3
    <2>4. CASE e.type = "receive" /\ Receive(e.m, e.i, due, f)
      BY <2>2, <2>4, <1>1, ReceiveTree
    <2>5. CASE e.type = "cancel" /\ CancelLater(e.m, f)
      <3>1. Expires(e.m)
        BY <2>2, <2>5, <1>1, CancelLaterEffects
      <3> QED
        BY <3>1, <1>1, IdleTree DEF Expires, Quiet
    <2> QED
      BY <2>1, <2>3, <2>4, <2>5 DEF f
  <1>6. CASE Timeout
    <2>1. PICK m : Expires(m)
      BY <1>1, <1>6, TimeoutEffects
    <2> QED
      BY <2>1, <1>1, IdleTree DEF Expires, Quiet
  <1>7. CASE \E i \in Instance : \E r \in cpu[i] : CompleteBurst(i, r)
    <2>1. PICK i \in Instance : \E r \in cpu[i] : CompleteBurst(i, r)
      BY <1>7
    <2>2. PICK r \in cpu[i] : CompleteBurst(i, r)
      BY <2>1
    <2>3. BurstEnds(i, r)
      BY <2>2, <1>1, BurstEffects
    <2> QED
      BY <2>3, <1>1, IdleTree DEF BurstEnds, Quiet
  <1>8. CASE \E op \in UserOp : SendNewUserRequest(op)
    BY <1>1, <1>8, AsksTree
  <1>9. CASE \E i \in Instance : Kill(i)
    <2>1. PICK i \in Instance : Kill(i)
      BY <1>9
    <2>2. PICK ids : Dies(i, ids)
      BY <2>1, <1>1, DiesEffects
    <2> QED
      BY <2>2, <1>1, ClearsTree DEF Dies
  <1>10. CASE \E i \in Instance : StartShutdown(i)
    <2>1. PICK i \in Instance : StartShutdown(i)
      BY <1>10
    <2>2. ShutdownStarts(i)
      BY <2>1, <1>1, ShutdownStartEffects
    <2> QED
      BY <2>2, <1>1, IdleTree DEF ShutdownStarts, Quiet
  <1>11. CASE UNCHANGED vars
    <2>1. UNCHANGED <<reqs, due, flight>>
      BY <1>11 DEF vars, eventVars
    <2> QED
      BY <2>1, <1>1, SameEvents, IdleTree
  <1> QED
    BY <1>2, <1>4, <1>5, <1>6, <1>7, <1>8, <1>9, <1>10, <1>11 DEF Next, System, Environment

LEMMA InitTree ==
  ASSUME Init
  PROVE  TreeInvariant /\ Tree!Init
  <1>1. LifeInvariant
    BY InitLife
  <1>2. reqs = <<>> /\ Len(reqs) = 0 /\ Id = {}
    BY DEF Init, Id
  <1>3. DoneIsComputed /\ ComputedIsAnswered
    BY <1>2 DEF DoneIsComputed, ComputedIsAnswered
  <1>4. CallsIn(reqs) = <<>>
    <2>1. CallsIn(reqs) \in Seq(Node) /\ Len(CallsIn(reqs)) = 0
      BY <1>1, <1>2, LifeFacts, CallsAre DEF TypeOK
    <2> QED
      BY <2>1
  <1>5. Tree!Init
    BY <1>2, <1>4 DEF Tree!Init, CompletedIn, ComputedIn, SucceededIn, FailedIn
  <1> QED
    BY <1>1, <1>3, <1>5 DEF TreeInvariant

\* What is computed was complete, what is done was computed and is not tried
\* again, and a user gets the answer to what was computed (Request.setComputation-
\* Completed, ServiceDependencyInstance, Retry.requestIndex).
THEOREM TreeInvariantHolds == Spec => []TreeInvariant
  <1>1. Init => TreeInvariant
    BY InitTree
  <1>2. TreeInvariant /\ [Next]_vars => TreeInvariant'
    BY NextTree
  <1> QED
    BY <1>1, <1>2, PTL DEF Spec

\* RequestHandling implements CallTree: whatever times out, is canceled, killed
\* or retried, Retry calls only dependencies that are not complete, a request is
\* computed after all its dependencies, and the generator counts a success only
\* for a computed request and a failure only for one that never is computed.
THEOREM RequestsAreCallTrees == Spec => IsCallTree
  <1>1. Init => Tree!Init
    BY InitTree
  <1>2. TreeInvariant /\ [Next]_vars => [Tree!Next]_(Tree!vars)
    BY NextTree DEF InTree
  <1> QED
    BY <1>1, <1>2, TreeInvariantHolds, PTL DEF Spec, IsCallTree, Tree!Spec
=============================================================================
