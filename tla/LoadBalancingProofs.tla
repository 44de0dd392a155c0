------------------------ MODULE LoadBalancingProofs ------------------------
(***************************************************************************)
(* Proofs about Cluster and about LoadBalancing, which extends it.  The    *)
(* events of an instance never contradict its state, and the instances of  *)
(* a service are the running ones; the round robin keeps its queue and its *)
(* set in agreement, whatever the strategies are asked while the cluster   *)
(* changes, they choose running instances, and the round robin is fair.    *)
(***************************************************************************)
EXTENDS LoadBalancing, TLAPS, FiniteSetTheorems, FunctionTheorems, SequenceTheorems,
        NaturalsInduction, WellFoundedInduction

-----------------------------------------------------------------------------
(* CLUSTER                                                                 *)
-----------------------------------------------------------------------------

USE DEF HIGH, NORMAL, LOW, Priorities

-----------------------------------------------------------------------------
(* The HIGH events, when one was executed.                                 *)

\* Taking an event keeps the others in order.
LEMMA OrderOfTail ==
  ASSUME NEW h \in Seq(Events), h # <<>>, NEW ids, UrgentInOrder(h, ids)
  PROVE  UrgentInOrder(Tail(h), ids)
<1>1. \A k \in DOMAIN Tail(h) : Tail(h)[k] = h[k + 1] /\ k + 1 \in DOMAIN h /\ k \in Nat
  OBVIOUS
<1>2. QED BY <1>1 DEF UrgentInOrder

\* What is in a queue besides its first event is in the rest of it.
LEMMA TailFinds ==
  ASSUME NEW h \in Seq(Events), h # <<>>, NEW e, h[1] # e
  PROVE  (\E k \in DOMAIN Tail(h) : Tail(h)[k] = e) <=> (\E k \in DOMAIN h : h[k] = e)
<1>1. \A k \in DOMAIN Tail(h) : Tail(h)[k] = h[k + 1] /\ k + 1 \in DOMAIN h
  OBVIOUS
<1>2. \A k \in DOMAIN h : k # 1 => k - 1 \in DOMAIN Tail(h) /\ Tail(h)[k - 1] = h[k]
  OBVIOUS
<1>3. QED BY <1>1, <1>2, ZenonT(40)

\* An event that is not about an instance leaves the others in agreement.
LEMMA UrgentTaken ==
  ASSUME NEW h \in Seq(Events), NEW st, NEW ins,
         UrgentEventsFit(h, st, ins), h # <<>>,
         Head(h).kind \notin {"start", "stop"}
  PROVE  UrgentEventsFit(Tail(h), st, ins)
<1>1. h[1] = Head(h) /\ 1 \in DOMAIN h
  OBVIOUS
<1>2. ASSUME NEW i \in DOMAIN st, NEW kind \in {"start", "stop"}
      PROVE  (\E k \in DOMAIN Tail(h) : Tail(h)[k] = Event(kind, i))
               <=> (\E k \in DOMAIN h : h[k] = Event(kind, i))
  <2>1. h[1] # Event(kind, i)
    BY <1>1 DEF Event
  <2>2. QED BY <2>1, TailFinds
<1>3. UrgentInOrder(Tail(h), DOMAIN st)
  BY OrderOfTail DEF UrgentEventsFit
<1>4. QED BY <1>2, <1>3 DEF UrgentEventsFit

\* An instance that is started is created, and no longer due to be started.
LEMMA StartTaken ==
  ASSUME NEW h \in Seq(Events), NEW st \in Seq(States), NEW ins,
         UrgentEventsFit(h, st, ins), h # <<>>, Head(h).kind = "start"
  PROVE  LET i == Head(h).of
         IN  /\ i \in DOMAIN st /\ st[i] = "CREATED"
             /\ UrgentEventsFit(Tail(h), [st EXCEPT ![i] = "RUNNING"], ins)
<1> DEFINE i == Head(h).of
           new == [st EXCEPT ![i] = "RUNNING"]
<1>1. \A k \in DOMAIN Tail(h) : Tail(h)[k] = h[k + 1] /\ k + 1 \in DOMAIN h /\ k + 1 # 1
  OBVIOUS
<1>2. h[1] = Head(h) /\ 1 \in DOMAIN h /\ h[1] \in Events
  OBVIOUS
<1>3. h[1] = Event("start", i)
  BY <1>2 DEF Event, Events
<1>4. i \in DOMAIN st /\ st[i] = "CREATED"
  BY <1>2, <1>3 DEF UrgentEventsFit, UrgentInOrder, Event
<1>5. DOMAIN new = DOMAIN st /\ new[i] = "RUNNING" /\ \A j \in DOMAIN st : j # i => new[j] = st[j]
  BY <1>4
<1>6. \A k \in DOMAIN h : k # 1 => h[k] # Event("start", i)
  BY <1>2, <1>3 DEF UrgentEventsFit, UrgentInOrder, Event
<1>7. ASSUME NEW j \in DOMAIN st
      PROVE  (\E k \in DOMAIN Tail(h) : Tail(h)[k] = Event("start", j)) <=> new[j] = "CREATED"
  <2>1. CASE j = i
    BY <2>1, <1>1, <1>5, <1>6
  <2>2. CASE j # i
    <3>1. h[1] # Event("start", j)
      BY <2>2, <1>3 DEF Event
    <3>2. (\E k \in DOMAIN h : h[k] = Event("start", j)) <=> st[j] = "CREATED"
      BY DEF UrgentEventsFit
    <3>3. new[j] = st[j]
      BY <2>2, <1>5
    <3>4. QED BY <3>1, <3>2, <3>3, TailFinds
  <2>3. QED BY <2>1, <2>2
<1>8. ASSUME NEW j \in DOMAIN st
      PROVE  (\E k \in DOMAIN Tail(h) : Tail(h)[k] = Event("stop", j))
               <=> new[j] \in {"CREATED", "RUNNING"} /\ j \notin ins
  <2>1. h[1] # Event("stop", j)
    BY <1>3 DEF Event
  <2>2. (\E k \in DOMAIN h : h[k] = Event("stop", j))
           <=> st[j] \in {"CREATED", "RUNNING"} /\ j \notin ins
    BY DEF UrgentEventsFit
  <2>3. new[j] \in {"CREATED", "RUNNING"} <=> st[j] \in {"CREATED", "RUNNING"}
    BY <1>4, <1>5
  <2>4. QED BY <2>1, <2>2, <2>3, TailFinds
<1>9. UrgentEventsFit(Tail(h), new, ins)
  <2>1. UrgentInOrder(Tail(h), DOMAIN st)
    BY OrderOfTail DEF UrgentEventsFit
  <2>2. QED BY <1>5, <1>7, <1>8, <2>1 DEF UrgentEventsFit
<1>10. QED BY <1>4, <1>9

\* An instance that is stopped is running, as it was started before, and no
\* longer of the service.
LEMMA StopTaken ==
  ASSUME NEW h \in Seq(Events), NEW st \in Seq(States), NEW ins,
         UrgentEventsFit(h, st, ins), h # <<>>, Head(h).kind = "stop"
  PROVE  LET i == Head(h).of
         IN  /\ i \in DOMAIN st /\ st[i] = "RUNNING" /\ i \notin ins
             /\ UrgentEventsFit(Tail(h), [st EXCEPT ![i] = "SHUTTING_DOWN"], ins)
<1> DEFINE i == Head(h).of
           new == [st EXCEPT ![i] = "SHUTTING_DOWN"]
<1>1. \A k \in DOMAIN Tail(h) : Tail(h)[k] = h[k + 1] /\ k + 1 \in DOMAIN h /\ k + 1 # 1
  OBVIOUS
<1>2. h[1] = Head(h) /\ 1 \in DOMAIN h /\ h[1] \in Events
  OBVIOUS
<1>3. h[1] = Event("stop", i)
  BY <1>2 DEF Event, Events
<1>4. i \in DOMAIN st /\ st[i] \in {"CREATED", "RUNNING"} /\ i \notin ins
  BY <1>2, <1>3 DEF UrgentEventsFit, UrgentInOrder, Event
<1>5. \A k \in DOMAIN h : h[k] # Event("start", i)
  <2>1. ASSUME NEW k \in DOMAIN h, h[k] = Event("start", i) PROVE FALSE
    <3>1. k < 1
      BY <2>1, <1>2, <1>3 DEF UrgentEventsFit, UrgentInOrder, Event
    <3>2. QED BY <3>1
  <2>2. QED BY <2>1
<1>6. st[i] = "RUNNING"
  BY <1>4, <1>5 DEF UrgentEventsFit
<1>7. /\ DOMAIN new = DOMAIN st /\ new[i] = "SHUTTING_DOWN"
      /\ \A j \in DOMAIN st : j # i => new[j] = st[j]
  BY <1>4
<1>8. \A k \in DOMAIN h : k # 1 => h[k] # Event("stop", i)
  BY <1>2, <1>3 DEF UrgentEventsFit, UrgentInOrder, Event
<1>9. ASSUME NEW j \in DOMAIN st
       PROVE  (\E k \in DOMAIN Tail(h) : Tail(h)[k] = Event("start", j)) <=> new[j] = "CREATED"
  <2>1. h[1] # Event("start", j)
    BY <1>3 DEF Event
  <2>2. (\E k \in DOMAIN h : h[k] = Event("start", j)) <=> st[j] = "CREATED"
    BY DEF UrgentEventsFit
  <2>3. new[j] = "CREATED" <=> st[j] = "CREATED"
    BY <1>6, <1>7
  <2>4. QED BY <2>1, <2>2, <2>3, TailFinds
<1>10. ASSUME NEW j \in DOMAIN st
       PROVE  (\E k \in DOMAIN Tail(h) : Tail(h)[k] = Event("stop", j))
                <=> new[j] \in {"CREATED", "RUNNING"} /\ j \notin ins
  <2>1. CASE j = i
    BY <2>1, <1>1, <1>7, <1>8
  <2>2. CASE j # i
    <3>1. h[1] # Event("stop", j)
      BY <2>2, <1>3 DEF Event
    <3>2. (\E k \in DOMAIN h : h[k] = Event("stop", j))
             <=> st[j] \in {"CREATED", "RUNNING"} /\ j \notin ins
      BY DEF UrgentEventsFit
    <3>3. new[j] = st[j]
      BY <2>2, <1>7
    <3>4. QED BY <3>1, <3>2, <3>3, TailFinds
  <2>3. QED BY <2>1, <2>2
<1>11. UrgentEventsFit(Tail(h), new, ins)
  <2>1. UrgentInOrder(Tail(h), DOMAIN st)
    BY OrderOfTail DEF UrgentEventsFit
  <2>2. QED BY <1>7, <1>9, <1>10, <2>1 DEF UrgentEventsFit
<1>12. QED BY <1>4, <1>6, <1>11

-----------------------------------------------------------------------------
(* The HIGH events, when some were scheduled.                              *)

LEMMA ConcatFinds ==
  ASSUME NEW h \in Seq(Events), NEW g \in Seq(Events), NEW e
  PROVE  (\E k \in DOMAIN (h \o g) : (h \o g)[k] = e)
           <=> (\E k \in DOMAIN h : h[k] = e) \/ (\E k \in DOMAIN g : g[k] = e)
<1>1. \A k \in DOMAIN h : k \in DOMAIN (h \o g) /\ (h \o g)[k] = h[k]
  OBVIOUS
<1>2. \A k \in DOMAIN g : Len(h) + k \in DOMAIN (h \o g) /\ (h \o g)[Len(h) + k] = g[k]
  OBVIOUS
<1>3. \A k \in DOMAIN (h \o g) :
        \/ k \in DOMAIN h /\ (h \o g)[k] = h[k]
        \/ k - Len(h) \in DOMAIN g /\ (h \o g)[k] = g[k - Len(h)]
  OBVIOUS
<1>4. QED BY <1>1, <1>2, <1>3

\* Two queues in order, of which the second starts no instance that the first
\* starts or stops and stops none that the first stops, are in order together.
LEMMA OrderOfConcat ==
  ASSUME NEW h \in Seq(Events), NEW g \in Seq(Events), NEW ids,
         UrgentInOrder(h, ids), UrgentInOrder(g, ids),
         \A k \in DOMAIN h, l \in DOMAIN g :
           g[l].kind \in {"start", "stop"} =>
             /\ h[k] # g[l]
             /\ ~(h[k].kind = "stop" /\ g[l].kind = "start" /\ h[k].of = g[l].of)
  PROVE  UrgentInOrder(h \o g, ids)
<1> DEFINE q == h \o g
<1>1. \A k \in DOMAIN q :
        /\ k \in Nat
        /\ \/ k \in DOMAIN h /\ q[k] = h[k] /\ k <= Len(h)
           \/ k - Len(h) \in DOMAIN g /\ q[k] = g[k - Len(h)] /\ k > Len(h)
  OBVIOUS
<1>2. Len(h) \in Nat /\ \A k \in DOMAIN g : k \in Nat
  OBVIOUS
<1> HIDE DEF q
<1>3. \A k \in DOMAIN q :
        /\ q[k].kind \in {"start", "stop", "trigger", "summon"}
        /\ q[k].kind \in {"start", "stop"} => q[k].of \in ids
  BY <1>1 DEF UrgentInOrder
<1>4. ASSUME NEW k \in DOMAIN q, NEW l \in DOMAIN q, q[k] = q[l], q[k].kind \in {"start", "stop"}
      PROVE  k = l
  BY <1>1, <1>2, <1>4 DEF UrgentInOrder
<1>5. ASSUME NEW k \in DOMAIN q, NEW l \in DOMAIN q,
             q[k].kind = "start", q[l].kind = "stop", q[k].of = q[l].of
      PROVE  k < l
  <2>1. CASE k \in DOMAIN h /\ l \in DOMAIN h /\ q[k] = h[k] /\ q[l] = h[l]
    BY <2>1, <1>5 DEF UrgentInOrder
  <2>2. CASE /\ k - Len(h) \in DOMAIN g /\ l - Len(h) \in DOMAIN g
             /\ q[k] = g[k - Len(h)] /\ q[l] = g[l - Len(h)]
    <3>1. k - Len(h) < l - Len(h)
      BY <2>2, <1>5 DEF UrgentInOrder
    <3>2. QED BY <3>1, <1>1, <1>2
  <2>3. CASE k <= Len(h) /\ l > Len(h)
    BY <2>3, <1>1, <1>2
  <2>4. CASE k - Len(h) \in DOMAIN g /\ q[k] = g[k - Len(h)] /\ l \in DOMAIN h /\ q[l] = h[l]
    BY <2>4, <1>5
  <2>5. QED BY <1>1, <2>1, <2>2, <2>3, <2>4
<1>6. UrgentInOrder(q, ids)
  BY <1>3, <1>4, <1>5 DEF UrgentInOrder
<1>7. QED BY <1>6 DEF q

\* Events that are not about instances
LEMMA PlannedUrgent ==
  ASSUME NEW h \in Seq(Events), NEW st, NEW ins, UrgentEventsFit(<<>>, st, ins),
         \A k \in DOMAIN h : h[k].kind \in {"trigger", "summon"}
  PROVE  UrgentEventsFit(h, st, ins)
<1>1. UrgentInOrder(h, DOMAIN st)
  BY DEF UrgentInOrder
<1>2. \A i \in DOMAIN st, k \in DOMAIN h :
        h[k] # Event("start", i) /\ h[k] # Event("stop", i)
  BY DEF Event
<1>3. QED BY <1>1, <1>2 DEF UrgentEventsFit

\* Nothing is due for an instance that is killed.
LEMMA KilledUrgent ==
  ASSUME NEW st, NEW ins, NEW K, UrgentEventsFit(<<>>, st, ins), K \subseteq ins,
         NEW new, DOMAIN new = DOMAIN st,
         \A i \in DOMAIN st : new[i] = IF i \in K THEN "KILLED" ELSE st[i]
  PROVE  UrgentEventsFit(<<>>, new, ins \ K)
BY DEF UrgentEventsFit, UrgentInOrder

\* Instances are created, and will be started.
LEMMA UpUrgent ==
  ASSUME NEW h \in Seq(Events), NEW st \in Seq(States), NEW ins \in SUBSET DOMAIN st,
         UrgentEventsFit(h, st, ins), NEW n \in Nat
  PROVE  LET new == [k \in 1..n |-> Len(st) + k]
         IN  UrgentEventsFit(h \o [k \in 1..n |-> Event("start", new[k])],
                             st \o [k \in 1..n |-> "CREATED"],
                             ins \cup {new[k] : k \in 1..n})
<1> DEFINE new == [k \in 1..n |-> Len(st) + k]
           g == [k \in 1..n |-> Event("start", new[k])]
           c == [k \in 1..n |-> "CREATED"]
           st2 == st \o c
           ins2 == ins \cup {new[k] : k \in 1..n}
<1>1. Len(st) \in Nat /\ DOMAIN st = 1..Len(st)
  OBVIOUS
<1>2. /\ g \in Seq(Events) /\ DOMAIN g = 1..n
      /\ \A k \in 1..n : g[k].kind = "start" /\ g[k].of = Len(st) + k /\ g[k] = Event("start", Len(st) + k)
  BY <1>1 DEF Event, Events
<1>3. /\ DOMAIN st2 = 1..(Len(st) + n)
      /\ \A i \in DOMAIN st : st2[i] = st[i]
      /\ \A i \in DOMAIN st2 : i \notin DOMAIN st => st2[i] = "CREATED" /\ i - Len(st) \in 1..n
  <2>1. c \in Seq({"CREATED"}) /\ Len(c) = n
    OBVIOUS
  <2>2. QED BY <2>1, <1>1
<1>4. /\ \A i \in DOMAIN st : i \in ins2 <=> i \in ins
      /\ \A i \in DOMAIN st2 : i \notin DOMAIN st => i \in ins2
  <2>1. \A i : i \in ins2 <=> i \in ins \/ \E k \in 1..n : i = Len(st) + k
    OBVIOUS
  <2>2. \A i \in DOMAIN st, k \in 1..n : i # Len(st) + k
    BY <1>1
  <2>3. \A i \in DOMAIN st2 : i \notin DOMAIN st => i = Len(st) + (i - Len(st))
    BY <1>1, <1>3
  <2>4. QED BY <2>1, <2>2, <2>3, <1>3
<1>5. DOMAIN st \subseteq DOMAIN st2 /\ \A k \in 1..n : Len(st) + k \in DOMAIN st2 /\ Len(st) + k \notin DOMAIN st
  BY <1>1, <1>3
<1> HIDE DEF new, g, c, st2, ins2
<1>6. UrgentInOrder(h, DOMAIN st2)
  BY <1>5 DEF UrgentEventsFit, UrgentInOrder
<1>7. UrgentInOrder(g, DOMAIN st2)
  <2>1. \A k \in DOMAIN g : k \in Int /\ g[k].kind = "start" /\ g[k].of = Len(st) + k
    BY <1>2
  <2>2. \A k \in DOMAIN g : g[k].of \in DOMAIN st2
    BY <1>2, <1>5
  <2>3. \A k, l \in DOMAIN g : g[k] = g[l] => k = l
    BY <2>1, <1>1
  <2>4. QED BY <2>1, <2>2, <2>3 DEF UrgentInOrder
<1>8. UrgentInOrder(h \o g, DOMAIN st2)
  <2>1. ASSUME NEW k \in DOMAIN h, NEW l \in DOMAIN g
        PROVE  /\ h[k] # g[l]
               /\ ~(h[k].kind = "stop" /\ g[l].kind = "start" /\ h[k].of = g[l].of)
    BY <1>2, <1>5 DEF UrgentEventsFit, UrgentInOrder
  <2>2. QED BY <1>2, <1>6, <1>7, <2>1, OrderOfConcat
<1>9. \A e : (\E k \in DOMAIN (h \o g) : (h \o g)[k] = e)
              <=> (\E k \in DOMAIN h : h[k] = e) \/ (\E k \in DOMAIN g : g[k] = e)
  BY <1>2, ConcatFinds
<1>10. ASSUME NEW i \in DOMAIN st2
      PROVE  (\E k \in DOMAIN (h \o g) : (h \o g)[k] = Event("start", i)) <=> st2[i] = "CREATED"
  <2>1. CASE i \in DOMAIN st
    <3>1. \A k \in DOMAIN g : g[k] # Event("start", i)
      BY <2>1, <1>2, <1>5 DEF Event
    <3>2. (\E k \in DOMAIN h : h[k] = Event("start", i)) <=> st[i] = "CREATED"
      BY <2>1 DEF UrgentEventsFit
    <3>3. QED BY <2>1, <3>1, <3>2, <1>2, <1>3, <1>9
  <2>2. CASE i \notin DOMAIN st
    <3>1. i - Len(st) \in DOMAIN g /\ g[i - Len(st)] = Event("start", i)
      BY <2>2, <1>1, <1>2, <1>3
    <3>2. QED BY <2>2, <3>1, <1>2, <1>3, <1>9
  <2>3. QED BY <2>1, <2>2
<1>11. ASSUME NEW i \in DOMAIN st2
       PROVE  (\E k \in DOMAIN (h \o g) : (h \o g)[k] = Event("stop", i))
                <=> st2[i] \in {"CREATED", "RUNNING"} /\ i \notin ins2
  <2>1. \A k \in DOMAIN g : g[k] # Event("stop", i)
    BY <1>2 DEF Event
  <2>2. CASE i \in DOMAIN st
    <3>1. (\E k \in DOMAIN h : h[k] = Event("stop", i))
             <=> st[i] \in {"CREATED", "RUNNING"} /\ i \notin ins
      BY <2>2 DEF UrgentEventsFit
    <3>2. QED BY <2>1, <2>2, <3>1, <1>2, <1>3, <1>4, <1>9
  <2>3. CASE i \notin DOMAIN st
    <3>1. \A k \in DOMAIN h : h[k] # Event("stop", i)
      BY <2>3 DEF UrgentEventsFit, UrgentInOrder, Event
    <3>2. QED BY <2>1, <2>3, <3>1, <1>2, <1>4, <1>9
  <2>4. QED BY <2>2, <2>3
<1>12. UrgentEventsFit(h \o g, st2, ins2)
  BY <1>8, <1>10, <1>11 DEF UrgentEventsFit
<1>13. QED BY <1>12 DEF new, g, c, st2, ins2

\* Instances leave the service, and will be stopped.
LEMMA DownUrgent ==
  ASSUME NEW h \in Seq(Events), NEW st \in Seq(States),
         NEW ins \in SUBSET {i \in DOMAIN st : st[i] \in {"CREATED", "RUNNING"}},
         UrgentEventsFit(h, st, ins),
         NEW n \in Nat, NEW victims \in Injection(1..n, ins)
  PROVE  UrgentEventsFit(h \o [k \in 1..n |-> Event("stop", victims[k])],
                         st, ins \ Range(victims))
<1> DEFINE g == [k \in 1..n |-> Event("stop", victims[k])]
           ins2 == ins \ Range(victims)
<1>1. /\ \A k \in 1..n : victims[k] \in Nat /\ victims[k] \in DOMAIN st /\ victims[k] \in ins
      /\ DOMAIN victims = 1..n
      /\ \A j, k \in 1..n : victims[j] = victims[k] => j = k
  BY DEF Injection, IsInjective
<1>2. /\ g \in Seq(Events) /\ DOMAIN g = 1..n
      /\ \A k \in 1..n : g[k].kind = "stop" /\ g[k].of = victims[k] /\ g[k] = Event("stop", victims[k])
  BY <1>1 DEF Event, Events
<1>3. \A i : i \in ins2 <=> i \in ins /\ \A k \in 1..n : victims[k] # i
  BY <1>1 DEF Range
<1> HIDE DEF g, ins2
<1>4. UrgentInOrder(g, DOMAIN st)
  <2>1. \A k \in DOMAIN g : k \in 1..n /\ g[k].kind = "stop" /\ g[k].of = victims[k]
    BY <1>2
  <2>2. \A k \in DOMAIN g : g[k].of \in DOMAIN st
    BY <2>1, <1>1
  <2>3. \A k, l \in DOMAIN g : g[k] = g[l] => k = l
    BY <2>1, <1>1
  <2>4. QED BY <2>1, <2>2, <2>3 DEF UrgentInOrder
<1>5. \A k \in DOMAIN h, l \in DOMAIN g : h[k] # g[l]
  BY <1>1, <1>2 DEF UrgentEventsFit
<1>6. UrgentInOrder(h \o g, DOMAIN st)
  <2>1. \A k \in DOMAIN h, l \in DOMAIN g : ~(h[k].kind = "stop" /\ g[l].kind = "start")
    BY <1>2
  <2>2. UrgentInOrder(h, DOMAIN st)
    BY DEF UrgentEventsFit
  <2>3. g \in Seq(Events)
    BY <1>2
  <2>4. QED BY <1>4, <1>5, <2>1, <2>2, <2>3, OrderOfConcat
<1>7. \A e : (\E k \in DOMAIN (h \o g) : (h \o g)[k] = e)
              <=> (\E k \in DOMAIN h : h[k] = e) \/ (\E k \in DOMAIN g : g[k] = e)
  BY <1>2, ConcatFinds
<1>8. ASSUME NEW i \in DOMAIN st
      PROVE  (\E k \in DOMAIN (h \o g) : (h \o g)[k] = Event("start", i)) <=> st[i] = "CREATED"
  <2>1. \A k \in DOMAIN g : g[k] # Event("start", i)
    BY <1>2 DEF Event
  <2>2. (\E k \in DOMAIN h : h[k] = Event("start", i)) <=> st[i] = "CREATED"
    BY DEF UrgentEventsFit
  <2>3. QED BY <2>1, <2>2, <1>7
<1>9. ASSUME NEW i \in DOMAIN st
      PROVE  (\E k \in DOMAIN (h \o g) : (h \o g)[k] = Event("stop", i))
               <=> st[i] \in {"CREATED", "RUNNING"} /\ i \notin ins2
  <2>1. (\E k \in DOMAIN g : g[k] = Event("stop", i)) <=> \E k \in 1..n : victims[k] = i
    <3>1. \A k \in 1..n : g[k] = Event("stop", victims[k]) /\ (g[k] = Event("stop", i) <=> victims[k] = i)
      BY <1>2 DEF Event
    <3>2. QED BY <3>1, <1>2
  <2>2. (\E k \in DOMAIN h : h[k] = Event("stop", i))
           <=> st[i] \in {"CREATED", "RUNNING"} /\ i \notin ins
    BY DEF UrgentEventsFit
  <2>3. i \in ins => st[i] \in {"CREATED", "RUNNING"}
    OBVIOUS
  <2>4. (\E k \in 1..n : victims[k] = i) => i \in ins
    BY <1>1
  <2>5. (\E k \in DOMAIN (h \o g) : (h \o g)[k] = Event("stop", i))
           <=> (\E k \in DOMAIN h : h[k] = Event("stop", i)) \/ (\E k \in 1..n : victims[k] = i)
    BY <2>1, <1>7
  <2>6. QED BY <2>2, <2>3, <2>4, <2>5, <1>3
<1>10. UrgentEventsFit(h \o g, st, ins2)
  BY <1>6, <1>8, <1>9 DEF UrgentEventsFit
<1>11. QED BY <1>10 DEF g, ins2

-----------------------------------------------------------------------------
(* The NORMAL events.                                                      *)

\* A shutdown that is about to end is not disturbed by what happens to others.
LEMMA NormalElsewhere ==
  ASSUME NEW h, NEW st, NEW hd, NEW st2, NEW hd2, NormalEventsFit(h, st, hd),
         \A i \in DOMAIN st : st[i] = "SHUTTING_DOWN" /\ hd[i] = 0 =>
           i \in DOMAIN st2 /\ st2[i] = "SHUTTING_DOWN" /\ hd2[i] = 0
  PROVE  NormalEventsFit(h, st2, hd2)
BY DEF NormalEventsFit

LEMMA NormalTaken ==
  ASSUME NEW h \in Seq(Events), NEW st, NEW hd, NormalEventsFit(h, st, hd), h # <<>>
  PROVE  NormalEventsFit(Tail(h), st, hd)
<1>1. \A k \in DOMAIN Tail(h) : Tail(h)[k] = h[k + 1] /\ k + 1 \in DOMAIN h /\ k \in Nat
  OBVIOUS
<1>2. QED BY <1>1 DEF NormalEventsFit

\* A shutdown that ends was begun, and will not end again.
LEMMA EndTaken ==
  ASSUME NEW h \in Seq(Events), NEW st \in Seq(States), NEW hd,
         NormalEventsFit(h, st, hd), h # <<>>, Head(h).kind = "end"
  PROVE  LET i == Head(h).of
         IN  /\ i \in DOMAIN st /\ st[i] = "SHUTTING_DOWN"
             /\ NormalEventsFit(Tail(h), [st EXCEPT ![i] = "SHUTDOWN"], hd)
<1> DEFINE i == Head(h).of
           new == [st EXCEPT ![i] = "SHUTDOWN"]
<1>1. \A k \in DOMAIN Tail(h) : /\ Tail(h)[k] = h[k + 1]
                                 /\ k + 1 \in DOMAIN h /\ k + 1 # 1 /\ k \in Nat
  OBVIOUS
<1>2. h[1] = Head(h) /\ 1 \in DOMAIN h /\ \A k \in DOMAIN h : h[k] \in Events
  OBVIOUS
<1>3. i \in DOMAIN st /\ st[i] = "SHUTTING_DOWN"
  BY <1>2 DEF NormalEventsFit
<1>4. \A k \in DOMAIN h : h[k].kind = "end" /\ h[k].of = i => k = 1
  BY <1>2 DEF NormalEventsFit, Events
<1>5. DOMAIN new = DOMAIN st /\ \A j \in DOMAIN st : j # i => new[j] = st[j]
  BY <1>3
<1> HIDE DEF i, new
<1>6. NormalEventsFit(Tail(h), new, hd)
  <2>1. ASSUME NEW k \in DOMAIN Tail(h)
        PROVE  /\ Tail(h)[k].kind \in {"end", "summon", "kill", "scale"}
               /\ Tail(h)[k].kind = "end" =>
                    /\ Tail(h)[k].of \in DOMAIN new
                    /\ new[Tail(h)[k].of] = "SHUTTING_DOWN" /\ hd[Tail(h)[k].of] = 0
    BY <1>1, <1>4, <1>5 DEF NormalEventsFit
  <2>2. ASSUME NEW k \in DOMAIN Tail(h), NEW l \in DOMAIN Tail(h),
               Tail(h)[k] = Tail(h)[l], Tail(h)[k].kind = "end"
        PROVE  k = l
    <3>1. k + 1 = l + 1
      BY <1>1, <2>2 DEF NormalEventsFit
    <3>2. QED BY <3>1, <1>1
  <2>3. QED BY <2>1, <2>2 DEF NormalEventsFit
<1>7. QED BY <1>3, <1>6 DEF i, new

\* The end of a shutdown is scheduled when the last request is gone: before
\* that, it was not.
LEMMA EndScheduled ==
  ASSUME NEW h \in Seq(Events), NEW st, NEW hd, NormalEventsFit(h, st, hd), NEW i \in Nat,
         st[i] # "SHUTTING_DOWN" \/ hd[i] # 0,
         NEW st2, NEW hd2, DOMAIN st2 = DOMAIN st,
         \A j \in DOMAIN st : j # i => st2[j] = st[j] /\ hd2[j] = hd[j],
         i \in DOMAIN st2, st2[i] = "SHUTTING_DOWN", hd2[i] = 0
  PROVE  NormalEventsFit(h \o <<Event("end", i)>>, st2, hd2)
<1> DEFINE q == h \o <<Event("end", i)>>
<1>1. Event("end", i) \in Events
  BY DEF Event, Events
<1>2. \A k \in DOMAIN q : \/ k \in DOMAIN h /\ q[k] = h[k]
                          \/ k = Len(h) + 1 /\ q[k] = Event("end", i)
  BY <1>1
<1>3. \A k \in DOMAIN h : h[k].kind = "end" => h[k].of # i
  BY DEF NormalEventsFit
<1> HIDE DEF q
<1>4. \A k \in DOMAIN h : h[k].kind = "end" => h[k] # Event("end", i)
  BY <1>3 DEF Event
<1>5. \A k \in DOMAIN q :
        /\ q[k].kind \in {"end", "summon", "kill", "scale"}
        /\ q[k].kind = "end" =>
             q[k].of \in DOMAIN st2 /\ st2[q[k].of] = "SHUTTING_DOWN" /\ hd2[q[k].of] = 0
  BY <1>2, <1>3 DEF NormalEventsFit, Event
<1>6. ASSUME NEW k \in DOMAIN q, NEW l \in DOMAIN q, q[k] = q[l], q[k].kind = "end"
      PROVE  k = l
  BY <1>2, <1>4, <1>6 DEF NormalEventsFit
<1>7. NormalEventsFit(q, st2, hd2)
  BY <1>5, <1>6 DEF NormalEventsFit
<1>8. QED BY <1>7 DEF q

-----------------------------------------------------------------------------
(* Actions of the service.                                                 *)

LEMMA ConcatType ==
  ASSUME NEW S, NEW a \in Seq(S), NEW b \in Seq(S)
  PROVE  a \o b \in Seq(S) /\ Len(a \o b) = Len(a) + Len(b)
OBVIOUS

LEMMA ElementType ==
  ASSUME NEW S, NEW s \in Seq(S), NEW i \in DOMAIN s PROVE s[i] \in S
OBVIOUS

LEMMA FunctionIsSequence ==
  ASSUME NEW S, NEW n \in Nat, NEW f \in [1..n -> S] PROVE f \in Seq(S)
OBVIOUS

LEMMA CountIsNatural == ClusterTypeOK => Cardinality(instances) \in Nat
<1> SUFFICES ASSUME ClusterTypeOK PROVE Cardinality(instances) \in Nat
  OBVIOUS
<1>1. instances \subseteq 1..Len(state) /\ Len(state) \in Nat
  BY DEF ClusterTypeOK, ID
<1>2. IsFiniteSet(1..Len(state))
  BY <1>1, FS_Interval
<1>3. IsFiniteSet(instances)
  BY <1>1, <1>2, FS_Subset
<1>4. QED BY <1>3, FS_CardinalityType

\* An event that is neither a start nor a stop is taken from the list; others
\* than urgent ones only when nothing urgent is left.
LEMMA ExecutedFits ==
  ASSUME ClusterInvariant, NEW p \in Priorities, Present(p),
         Head(events[p]).kind \notin {"start", "stop"}
  PROVE  LET rest == Executed(p)
         IN  /\ rest \in [Priorities -> Seq(Events)]
             /\ UrgentEventsFit(rest[HIGH], state, instances)
             /\ NormalEventsFit(rest[NORMAL], state, handled)
             /\ \A k \in DOMAIN rest[LOW] : rest[LOW][k].kind = "kill"
             /\ p # HIGH => rest[HIGH] = <<>>
<1> DEFINE rest == Executed(p)
<1>1. /\ events \in [Priorities -> Seq(Events)] /\ events[p] # <<>>
      /\ UrgentEventsFit(events[HIGH], state, instances)
      /\ NormalEventsFit(events[NORMAL], state, handled)
      /\ \A k \in DOMAIN events[LOW] : events[LOW][k].kind = "kill"
  BY DEF ClusterInvariant, ClusterTypeOK, Present
<1>2. /\ rest \in [Priorities -> Seq(Events)]
      /\ rest[p] = Tail(events[p])
      /\ \A q \in Priorities : q # p => rest[q] = events[q]
  BY <1>1 DEF Executed
<1> HIDE DEF rest
<1>3. UrgentEventsFit(rest[HIGH], state, instances)
  <2>1. CASE p = HIGH
    <3>1. events[HIGH] \in Seq(Events) /\ events[HIGH] # <<>>
      BY <1>1, <2>1
    <3>2. UrgentEventsFit(Tail(events[HIGH]), state, instances)
      BY <1>1, <2>1, <3>1, UrgentTaken
    <3>3. QED BY <1>2, <2>1, <3>2
  <2>2. QED BY <2>1, <1>1, <1>2
<1>4. NormalEventsFit(rest[NORMAL], state, handled)
  BY <1>1, <1>2, NormalTaken
<1>5. \A k \in DOMAIN rest[LOW] : rest[LOW][k].kind = "kill"
  <2>1. CASE p = LOW
    <3>1. events[LOW] \in Seq(Events) /\ events[LOW] # <<>>
      BY <1>1, <2>1
    <3>2. \A k \in DOMAIN Tail(events[LOW]) :
            Tail(events[LOW])[k] = events[LOW][k + 1] /\ k + 1 \in DOMAIN events[LOW]
      BY <3>1
    <3>3. QED BY <3>2, <2>1, <1>1, <1>2
  <2>2. QED BY <2>1, <1>1, <1>2
<1>6. p # HIGH => rest[HIGH] = <<>>
  BY <1>2 DEF Present
<1>7. QED BY <1>2, <1>3, <1>4, <1>5, <1>6 DEF rest

\* Scaling to any count keeps the events in agreement with the service.
LEMMA ScaleFits ==
  ASSUME ClusterInvariant, NEW count \in Int, NEW rest \in [Priorities -> Seq(Events)],
         UrgentEventsFit(rest[HIGH], state, instances),
         NormalEventsFit(rest[NORMAL], state, handled),
         \A k \in DOMAIN rest[LOW] : rest[LOW][k].kind = "kill",
         ScaleTo(count, rest),
         sinceScale' \in 0..(HoldTime + 1), aborted' = aborted
  PROVE  ClusterInvariant'
<1>1. /\ state \in Seq(States) /\ handled \in Seq(0..MaxRequests) /\ DOMAIN handled = DOMAIN state
      /\ instances \in SUBSET DOMAIN state /\ aborted \in BOOLEAN /\ ~aborted
      /\ \A i \in instances : state[i] \in {"CREATED", "RUNNING"}
  BY DEF ClusterInvariant, ClusterTypeOK, ID, NeverContradicted
<1>2. Cardinality(instances) \in Nat
  BY CountIsNatural DEF ClusterInvariant
<1>3. MaxRequests \in Nat
  BY ClusterAssumption
<1>4. Len(state) \in Nat /\ DOMAIN state = 1..Len(state) /\ Len(handled) = Len(state)
  BY <1>1
<1>5. CASE ScaleUp(count, rest)
  <2> DEFINE n == count - Cardinality(instances)
             new == [k \in 1..n |-> Len(state) + k]
             g == [k \in 1..n |-> Event("start", new[k])]
             c == [k \in 1..n |-> "CREATED"]
             z == [k \in 1..n |-> 0]
             more == {new[k] : k \in 1..n}
  <2>1. /\ n \in Nat
        /\ state' = state \o c
        /\ handled' = handled \o z
        /\ instances' = instances \cup more
        /\ events' = [rest EXCEPT ![HIGH] = @ \o g]
    BY <1>2, <1>5 DEF ScaleUp, Scheduled, PriorityOfStart
  <2>2. c \in Seq(States) /\ Len(c) = n /\ z \in Seq(0..MaxRequests) /\ Len(z) = n
    BY <1>3, <2>1, SMTT(20) DEF States
  <2>3. g \in Seq(Events)
    <3>1. \A k \in 1..n : Event("start", new[k]) \in Events
      BY <1>4, <2>1 DEF Event, Events
    <3>2. g \in [1..n -> Events]
      BY <3>1
    <3> HIDE DEF n, g
    <3>3. QED BY <2>1, <3>2, FunctionIsSequence, Zenon
  <2>4. UrgentEventsFit(rest[HIGH] \o g, state \o c, instances \cup more)
    <3>1. rest[HIGH] \in Seq(Events)
      OBVIOUS
    <3>2. QED BY <1>1, <2>1, <3>1, UpUrgent
  <2>5. \A i : i \in more <=> \E k \in 1..n : i = Len(state) + k
    OBVIOUS
  <2> HIDE DEF n, new, g, c, z, more
  <2>6. /\ state' \in Seq(States) /\ handled' \in Seq(0..MaxRequests)
        /\ DOMAIN state' = 1..(Len(state) + n) /\ DOMAIN handled' = DOMAIN state'
    <3>1. state' \in Seq(States) /\ Len(state') = Len(state) + n
      BY <1>1, <2>1, <2>2, ConcatType, Zenon
    <3>2. handled' \in Seq(0..MaxRequests) /\ Len(handled') = Len(state) + n
      <4>1. handled \o z \in Seq(0..MaxRequests) /\ Len(handled \o z) = Len(handled) + Len(z)
        BY <1>1, <2>2, ConcatType, Zenon
      <4>2. QED BY <1>4, <2>1, <2>2, <4>1
    <3>3. QED BY <3>1, <3>2
  <2>7. /\ \A i \in DOMAIN state : /\ i \in DOMAIN state'
                                   /\ state'[i] = state[i] /\ handled'[i] = handled[i]
        /\ \A k \in 1..n : Len(state) + k \in DOMAIN state' /\ state'[Len(state) + k] = "CREATED"
    <3>1. \A k \in 1..n : c[k] = "CREATED"
      BY DEF c
    <3>2. QED BY <1>1, <1>4, <2>1, <2>2, <3>1, SMTT(20)
  <2>8. ASSUME NEW i \in instances'
        PROVE  i \in DOMAIN state' /\ state'[i] \in {"CREATED", "RUNNING"}
    <3>1. CASE i \in instances
      BY <3>1, <1>1, <2>7
    <3>2. CASE i \in more
      BY <3>2, <2>5, <2>7
    <3>3. QED BY <2>1, <3>1, <3>2
  <2>9. events' \in [Priorities -> Seq(Events)]
    BY <2>1, <2>3
  <2>10. ClusterTypeOK'
    BY <1>1, <2>6, <2>8, <2>9 DEF ClusterTypeOK, ID
  <2>11. UrgentEventsFit(events'[HIGH], state', instances')
    BY <2>1, <2>4
  <2>12. NormalEventsFit(events'[NORMAL], state', handled')
    <3>1. events'[NORMAL] = rest[NORMAL]
      BY <2>1
    <3>2. QED BY <2>7, <3>1, NormalElsewhere
  <2>13. \A k \in DOMAIN events'[LOW] : events'[LOW][k].kind = "kill"
    BY <2>1
  <2>14. QED BY <1>1, <2>8, <2>10, <2>11, <2>12, <2>13 DEF ClusterInvariant, NeverContradicted
<1>6. CASE ScaleDown(count, rest)
  <2> DEFINE n == Cardinality(instances) - count
  <2>1. n \in Nat
    BY <1>2, <1>6 DEF ScaleDown
  <2>2. PICK victims \in Injection(1..n, instances) :
          /\ instances' = instances \ Range(victims)
          /\ events' = [rest EXCEPT ![HIGH] = @ \o [k \in 1..n |-> Event("stop", victims[k])]]
    BY <1>6 DEF ScaleDown, Scheduled, PriorityOfStop, Removed
  <2> DEFINE g == [k \in 1..n |-> Event("stop", victims[k])]
  <2>3. state' = state /\ handled' = handled
    BY <1>6 DEF ScaleDown
  <2>4. g \in Seq(Events)
    <3> HIDE DEF n
    <3>1. \A k \in 1..n : victims[k] \in Nat
      <4>1. victims \in [1..n -> instances]
        BY DEF Injection
      <4>2. instances \subseteq Nat
        BY <1>1, <1>4
      <4>3. QED BY <4>1, <4>2
    <3>2. \A k \in 1..n : Event("stop", victims[k]) \in Events
      BY <3>1 DEF Event, Events
    <3>3. g \in [1..n -> Events]
      BY <3>2
    <3>4. QED BY <2>1, <3>3, FunctionIsSequence, Zenon
  <2>5. UrgentEventsFit(rest[HIGH] \o g, state, instances')
    <3>1. rest[HIGH] \in Seq(Events)
      OBVIOUS
    <3>2. instances \in SUBSET {i \in DOMAIN state : state[i] \in {"CREATED", "RUNNING"}}
      BY <1>1
    <3>3. UrgentEventsFit(rest[HIGH] \o g, state, instances \ Range(victims))
      BY <1>1, <2>1, <3>1, <3>2, DownUrgent
    <3>4. QED BY <2>2, <3>3
  <2>6. events' = [rest EXCEPT ![HIGH] = @ \o g] /\ instances' \subseteq instances
    BY <2>2
  <2> HIDE DEF n, g
  <2>7. events' \in [Priorities -> Seq(Events)]
    BY <2>4, <2>6
  <2>8. ClusterTypeOK'
    BY <1>1, <2>3, <2>6, <2>7 DEF ClusterTypeOK, ID
  <2>9. /\ events'[HIGH] = rest[HIGH] \o g
        /\ events'[NORMAL] = rest[NORMAL] /\ events'[LOW] = rest[LOW]
    BY <2>6
  <2>10. QED BY <1>1, <2>3, <2>5, <2>6, <2>8, <2>9 DEF ClusterInvariant, NeverContradicted
<1>7. QED BY <1>5, <1>6 DEF ScaleTo

\* Startup finds its instance created.
LEMMA StartupFits == ASSUME ClusterInvariant, Startup PROVE ClusterInvariant'
<1> DEFINE h == events[HIGH]
           i == Head(h).of
<1>1. /\ events \in [Priorities -> Seq(Events)] /\ state \in Seq(States)
      /\ UrgentEventsFit(h, state, instances) /\ h # <<>> /\ Head(h).kind = "start"
      /\ events' = [events EXCEPT ![HIGH] = Tail(h)]
  BY DEF ClusterInvariant, ClusterTypeOK, Startup, Due, Present, Executed, PriorityOfStart
<1>2. h \in Seq(Events)
  BY <1>1
<1>3. /\ i \in DOMAIN state /\ state[i] = "CREATED"
      /\ UrgentEventsFit(Tail(h), [state EXCEPT ![i] = "RUNNING"], instances)
  BY <1>1, <1>2, StartTaken
<1>4. /\ state' = [state EXCEPT ![i] = "RUNNING"]
      /\ UNCHANGED <<handled, instances, sinceScale, aborted>>
  BY <1>3 DEF Startup, PriorityOfStart
<1>5. /\ events' \in [Priorities -> Seq(Events)] /\ events'[HIGH] = Tail(h)
      /\ events'[NORMAL] = events[NORMAL] /\ events'[LOW] = events[LOW]
  BY <1>1, <1>2
<1>6. state' \in Seq(States) /\ DOMAIN state' = DOMAIN state /\ state'[i] = "RUNNING"
      /\ \A j \in DOMAIN state : j # i => state'[j] = state[j]
  BY <1>1, <1>3, <1>4 DEF States
<1> HIDE DEF h, i
<1>7. ClusterTypeOK'
  BY <1>4, <1>5, <1>6 DEF ClusterInvariant, ClusterTypeOK, ID
<1>8. NormalEventsFit(events'[NORMAL], state', handled')
  <2>1. NormalEventsFit(events[NORMAL], state, handled)
    BY DEF ClusterInvariant
  <2>2. QED BY <2>1, <1>3, <1>4, <1>5, <1>6, NormalElsewhere
<1>9. \A j \in instances' : state'[j] \in {"CREATED", "RUNNING"}
  BY <1>4, <1>6 DEF ClusterInvariant, ClusterTypeOK, ID
<1>10. QED BY <1>3, <1>4, <1>5, <1>7, <1>8, <1>9 DEF ClusterInvariant, NeverContradicted

\* ShutdownStart finds its instance running.
LEMMA ShutdownStartFits == ASSUME ClusterInvariant, ShutdownStart PROVE ClusterInvariant'
<1> DEFINE h == events[HIGH]
           n == events[NORMAL]
           i == Head(h).of
<1>1. /\ events \in [Priorities -> Seq(Events)] /\ state \in Seq(States)
      /\ UrgentEventsFit(h, state, instances) /\ NormalEventsFit(n, state, handled)
      /\ h # <<>> /\ Head(h).kind = "stop"
  BY DEF ClusterInvariant, ClusterTypeOK, ShutdownStart, Due, Present, PriorityOfStop
<1>2. h \in Seq(Events) /\ n \in Seq(Events)
  BY <1>1
<1>3. /\ i \in DOMAIN state /\ state[i] = "RUNNING" /\ i \notin instances
      /\ UrgentEventsFit(Tail(h), [state EXCEPT ![i] = "SHUTTING_DOWN"], instances)
  BY <1>1, <1>2, StopTaken
<1>4. /\ state' = [state EXCEPT ![i] = "SHUTTING_DOWN"]
      /\ UNCHANGED <<handled, instances, sinceScale, aborted>>
      /\ events' = IF EndsAtOnce(i)
                   THEN [[events EXCEPT ![HIGH] = Tail(h)] EXCEPT ![NORMAL] = @ \o <<Event("end", i)>>]
                   ELSE [events EXCEPT ![HIGH] = Tail(h)]
  BY <1>3 DEF ShutdownStart, PriorityOfStop, PriorityOfEnd, Executed, Scheduled
<1>5. /\ state' \in Seq(States) /\ DOMAIN state' = DOMAIN state /\ state'[i] = "SHUTTING_DOWN"
      /\ \A j \in DOMAIN state : j # i => state'[j] = state[j]
  BY <1>1, <1>3, <1>4 DEF States
<1>6. i \in Nat /\ Event("end", i) \in Events
  BY <1>1, <1>3 DEF Event, Events
<1>7. /\ events' \in [Priorities -> Seq(Events)]
      /\ events'[HIGH] = Tail(h) /\ events'[LOW] = events[LOW]
      /\ EndsAtOnce(i) => events'[NORMAL] = n \o <<Event("end", i)>>
      /\ ~EndsAtOnce(i) => events'[NORMAL] = n
  <2>1. Tail(h) \in Seq(Events) /\ n \o <<Event("end", i)>> \in Seq(Events) /\ n = events[NORMAL]
    BY <1>1, <1>2, <1>6
  <2> HIDE DEF h, n, i
  <2>2. CASE EndsAtOnce(i)
    <3> DEFINE rest == [events EXCEPT ![HIGH] = Tail(h)]
    <3>1. /\ rest \in [Priorities -> Seq(Events)]
          /\ rest[HIGH] = Tail(h) /\ rest[NORMAL] = n /\ rest[LOW] = events[LOW]
      BY <2>1, <1>1
    <3>2. events' = [rest EXCEPT ![NORMAL] = @ \o <<Event("end", i)>>]
      BY <2>2, <1>4
    <3> HIDE DEF rest
    <3>3. QED BY <2>1, <2>2, <3>1, <3>2
  <2>3. CASE ~EndsAtOnce(i)
    BY <2>1, <2>3, <1>1, <1>4
  <2>4. QED BY <2>2, <2>3
<1> HIDE DEF h, i, n
<1>8. ClusterTypeOK'
  BY <1>4, <1>5, <1>7 DEF ClusterInvariant, ClusterTypeOK, ID
<1>9. NormalEventsFit(events'[NORMAL], state', handled')
  <2>1. CASE EndsAtOnce(i)
    <3>1. handled[i] = 0
      BY <2>1 DEF EndsAtOnce
    <3>2. NormalEventsFit(n \o <<Event("end", i)>>, state', handled')
      <4>1. state[i] # "SHUTTING_DOWN" /\ i \in Nat /\ i \in DOMAIN state'
        BY <1>3, <1>5, <1>6
      <4>2. handled'[i] = 0 /\ \A j \in DOMAIN state : j # i => /\ state'[j] = state[j]
                                                                /\ handled'[j] = handled[j]
        BY <3>1, <1>4, <1>5
      <4>3. n \in Seq(Events) /\ NormalEventsFit(n, state, handled)
        BY <1>1, <1>2
      <4>4. DOMAIN state' = DOMAIN state /\ state'[i] = "SHUTTING_DOWN"
        BY <1>5
      <4>5. QED BY <4>1, <4>2, <4>3, <4>4, EndScheduled
    <3>3. QED BY <3>2, <2>1, <1>7
  <2>2. CASE ~EndsAtOnce(i)
    <3>1. NormalEventsFit(n, state', handled')
      BY <1>1, <1>3, <1>4, <1>5, NormalElsewhere
    <3>2. QED BY <3>1, <2>2, <1>7
  <2>3. QED BY <2>1, <2>2
<1>10. \A j \in instances' : state'[j] \in {"CREATED", "RUNNING"}
  BY <1>3, <1>4, <1>5 DEF ClusterInvariant, ClusterTypeOK, ID
<1>11. QED BY <1>3, <1>4, <1>7, <1>8, <1>9, <1>10 DEF ClusterInvariant, NeverContradicted

\* ShutdownEnd finds its instance shutting down, and nothing urgent is left.
LEMMA ShutdownEndFits == ASSUME ClusterInvariant, ShutdownEnd PROVE ClusterInvariant'
<1> DEFINE n == events[NORMAL]
           i == Head(n).of
<1>1. /\ events \in [Priorities -> Seq(Events)] /\ state \in Seq(States)
      /\ UrgentEventsFit(events[HIGH], state, instances) /\ NormalEventsFit(n, state, handled)
      /\ n # <<>> /\ Head(n).kind = "end"
      /\ events' = [events EXCEPT ![NORMAL] = Tail(n)]
  BY DEF ClusterInvariant, ClusterTypeOK, ShutdownEnd, Due, Present, Executed, PriorityOfEnd
<1>2. n \in Seq(Events)
  BY <1>1
<1>3. /\ i \in DOMAIN state /\ state[i] = "SHUTTING_DOWN"
      /\ NormalEventsFit(Tail(n), [state EXCEPT ![i] = "SHUTDOWN"], handled)
  BY <1>1, <1>2, EndTaken
<1>4. /\ state' = [state EXCEPT ![i] = "SHUTDOWN"]
      /\ UNCHANGED <<handled, instances, sinceScale, aborted>>
  BY <1>3 DEF ShutdownEnd, PriorityOfEnd
<1>5. /\ events' \in [Priorities -> Seq(Events)] /\ events'[NORMAL] = Tail(n)
      /\ events'[HIGH] = events[HIGH] /\ events'[LOW] = events[LOW]
  BY <1>1, <1>2
<1>6. state' \in Seq(States) /\ DOMAIN state' = DOMAIN state /\ state'[i] = "SHUTDOWN"
      /\ \A j \in DOMAIN state : j # i => state'[j] = state[j]
  BY <1>1, <1>3, <1>4 DEF States
<1> HIDE DEF n, i
<1>7. ClusterTypeOK'
  BY <1>4, <1>5, <1>6 DEF ClusterInvariant, ClusterTypeOK, ID
<1>8. UrgentEventsFit(events'[HIGH], state', instances')
  <2>1. \A j \in DOMAIN state :
          /\ state'[j] = "CREATED" <=> state[j] = "CREATED"
          /\ state'[j] = "RUNNING" <=> state[j] = "RUNNING"
    BY <1>3, <1>6
  <2>2. QED BY <2>1, <1>1, <1>4, <1>5, <1>6 DEF UrgentEventsFit
<1>9. \A j \in instances' : state'[j] \in {"CREATED", "RUNNING"}
  BY <1>3, <1>4, <1>6 DEF ClusterInvariant, ClusterTypeOK, ID
<1>10. QED BY <1>3, <1>4, <1>5, <1>7, <1>8, <1>9 DEF ClusterInvariant, NeverContradicted

\* Requests only change how many an instance handles, and the last answer of
\* an instance that shuts down schedules the end.
LEMMA RequestFits ==
  ASSUME ClusterInvariant, NEW i \in ID, Accept(i) \/ Answer(i) \/ Fail(i)
  PROVE  ClusterInvariant'
<1>1. /\ events \in [Priorities -> Seq(Events)] /\ state \in Seq(States)
      /\ handled \in Seq(0..MaxRequests) /\ DOMAIN handled = DOMAIN state /\ i \in DOMAIN state
      /\ UrgentEventsFit(events[HIGH], state, instances)
      /\ NormalEventsFit(events[NORMAL], state, handled)
      /\ MaxRequests \in Nat
  BY ClusterAssumption DEF ClusterInvariant, ClusterTypeOK, ID
<1>2. /\ UNCHANGED <<state, instances, sinceScale, aborted>>
      /\ \/ /\ state[i] = "RUNNING" /\ handled[i] < MaxRequests /\ UNCHANGED events
            /\ handled' = [handled EXCEPT ![i] = handled[i] + 1]
         \/ /\ handled[i] > 0 /\ handled' = [handled EXCEPT ![i] = handled[i] - 1]
            /\ \/ UNCHANGED events
               \/ /\ state[i] = "SHUTTING_DOWN" /\ handled[i] = 1
                  /\ events' = [events EXCEPT ![NORMAL] = @ \o <<Event("end", i)>>]
  BY DEF Accept, Answer, Fail, EndsWithAnswer, Scheduled, PriorityOfEnd
<1>3. handled[i] \in 0..MaxRequests
  <2>1. handled \in Seq(0..MaxRequests) /\ i \in DOMAIN handled
    BY <1>1
  <2>2. QED BY <2>1, ElementType, Zenon
<1>4. /\ handled' \in Seq(0..MaxRequests) /\ DOMAIN handled' = DOMAIN state
      /\ \A j \in DOMAIN state : j # i => handled'[j] = handled[j]
      /\ handled'[i] \in {handled[i] + 1, handled[i] - 1}
  <2>1. CASE handled[i] < MaxRequests /\ handled' = [handled EXCEPT ![i] = handled[i] + 1]
    <3>1. handled[i] + 1 \in 0..MaxRequests
      BY <2>1, <1>1, <1>3
    <3>2. QED BY <2>1, <3>1, <1>1
  <2>2. CASE handled[i] > 0 /\ handled' = [handled EXCEPT ![i] = handled[i] - 1]
    <3>1. handled[i] - 1 \in 0..MaxRequests
      BY <2>2, <1>1, <1>3
    <3>2. QED BY <2>2, <3>1, <1>1
  <2>3. QED BY <2>1, <2>2, <1>2
<1>5. /\ events' \in [Priorities -> Seq(Events)]
      /\ events'[HIGH] = events[HIGH] /\ events'[LOW] = events[LOW]
      /\ NormalEventsFit(events'[NORMAL], state', handled')
  <2>1. CASE UNCHANGED events
    <3>1. \A j \in DOMAIN state :
            state[j] = "SHUTTING_DOWN" /\ handled[j] = 0 => handled'[j] = 0
      <4>1. state[i] = "SHUTTING_DOWN" /\ handled[i] = 0 => FALSE
        BY <1>2
      <4>2. QED BY <4>1, <1>4
    <3>2. NormalEventsFit(events[NORMAL], state', handled')
      BY <3>1, <1>1, <1>2, NormalElsewhere
    <3>3. QED BY <2>1, <3>2, <1>1
  <2>2. CASE /\ state[i] = "SHUTTING_DOWN" /\ handled[i] = 1
             /\ handled' = [handled EXCEPT ![i] = handled[i] - 1]
             /\ events' = [events EXCEPT ![NORMAL] = @ \o <<Event("end", i)>>]
    <3>1. i \in Nat /\ Event("end", i) \in Events
      BY <1>1 DEF Event, Events
    <3>2. handled'[i] = 0 /\ handled[i] # 0 /\ state' = state
      BY <2>2, <1>1, <1>2
    <3>3. events[NORMAL] \in Seq(Events)
      BY <1>1
    <3>4. NormalEventsFit(events[NORMAL] \o <<Event("end", i)>>, state', handled')
      <4>1. /\ DOMAIN state' = DOMAIN state /\ state'[i] = "SHUTTING_DOWN" /\ i \in DOMAIN state'
            /\ \A j \in DOMAIN state : j # i => state'[j] = state[j] /\ handled'[j] = handled[j]
        BY <2>2, <3>2, <1>1, <1>4
      <4>2. QED BY <3>1, <3>2, <3>3, <4>1, <1>1, EndScheduled
    <3>5. events[NORMAL] \o <<Event("end", i)>> \in Seq(Events)
      BY <3>1, <3>3
    <3> DEFINE q == events[NORMAL] \o <<Event("end", i)>>
    <3>6. q \in Seq(Events) /\ NormalEventsFit(q, state', handled')
      BY <3>4, <3>5
    <3>7. events' = [events EXCEPT ![NORMAL] = q]
      BY <2>2
    <3> HIDE DEF q
    <3>8. QED BY <3>6, <3>7, <1>1
  <2>3. UNCHANGED events \/
          /\ state[i] = "SHUTTING_DOWN" /\ handled[i] = 1
          /\ handled' = [handled EXCEPT ![i] = handled[i] - 1]
          /\ events' = [events EXCEPT ![NORMAL] = @ \o <<Event("end", i)>>]
    BY <1>2
  <2>4. QED BY <2>1, <2>2, <2>3
<1>6. ClusterTypeOK'
  BY <1>1, <1>2, <1>4, <1>5 DEF ClusterInvariant, ClusterTypeOK, ID
<1>7. QED BY <1>1, <1>2, <1>5, <1>6 DEF ClusterInvariant, NeverContradicted

\* A monkey kills when nothing urgent is left, so that the instances of the
\* service have been started.
LEMMA ChaosMonkeyFits ==
  ASSUME ClusterInvariant, NEW p \in Priorities, ChaosMonkey(p)
  PROVE  ClusterInvariant'
<1> DEFINE rest == Executed(p)
           K == First(Head(events[p]).of)
<1>1. /\ state \in Seq(States) /\ handled \in Seq(0..MaxRequests) /\ DOMAIN handled = DOMAIN state
      /\ instances \subseteq DOMAIN state /\ ~aborted /\ aborted \in BOOLEAN
      /\ sinceScale \in 0..(HoldTime + 1)
      /\ events \in [Priorities -> Seq(Events)] /\ MaxRequests \in Nat
      /\ \A i \in instances : state[i] \in {"CREATED", "RUNNING"}
  BY ClusterAssumption DEF ClusterInvariant, ClusterTypeOK, ID, NeverContradicted
<1>2. /\ Present(p) /\ Head(events[p]).kind = "kill" /\ events[p] # <<>>
      /\ events' = rest /\ KillInstances(Head(events[p]).of) /\ sinceScale' = sinceScale
  BY DEF ChaosMonkey, Due, Present
<1>3. /\ rest \in [Priorities -> Seq(Events)]
      /\ UrgentEventsFit(rest[HIGH], state, instances)
      /\ NormalEventsFit(rest[NORMAL], state, handled)
      /\ \A k \in DOMAIN rest[LOW] : rest[LOW][k].kind = "kill"
      /\ p # HIGH => rest[HIGH] = <<>>
  BY <1>2, ExecutedFits
<1>4. rest[HIGH] = <<>>
  <2>1. p # HIGH
    <3>1. ASSUME p = HIGH PROVE FALSE
      <4>1. events[HIGH] \in Seq(Events) /\ events[HIGH] # <<>> /\ Head(events[HIGH]).kind = "kill"
        BY <1>1, <1>2, <3>1
      <4>2. 1 \in DOMAIN events[HIGH] /\ events[HIGH][1].kind = "kill"
        BY <4>1
      <4>3. QED BY <4>2 DEF ClusterInvariant, UrgentEventsFit, UrgentInOrder
    <3>2. QED BY <3>1
  <2>2. QED BY <2>1, <1>3
<1>5. K \subseteq instances
  BY DEF First
<1>6. /\ state' = [i \in DOMAIN state |-> IF i \in K THEN "KILLED" ELSE state[i]]
      /\ handled' = [i \in DOMAIN state |-> IF i \in K THEN 0 ELSE handled[i]]
      /\ instances' = instances \ K /\ aborted' = aborted
  <2>1. ~(\E i \in K : state[i] = "KILLED")
    BY <1>1, <1>5
  <2>2. QED BY <2>1, <1>2 DEF KillInstances, ID
<1> HIDE DEF rest, K
<1>7. /\ DOMAIN state' = DOMAIN state /\ DOMAIN handled' = DOMAIN state
      /\ \A i \in DOMAIN state : /\ state'[i] = IF i \in K THEN "KILLED" ELSE state[i]
                                 /\ handled'[i] = IF i \in K THEN 0 ELSE handled[i]
  BY <1>6
<1>8. state' \in Seq(States) /\ handled' \in Seq(0..MaxRequests)
  <2>1. Len(state) \in Nat /\ DOMAIN state = 1..Len(state)
    BY <1>1
  <2>2. \A i \in DOMAIN state : state'[i] \in States /\ handled'[i] \in 0..MaxRequests
    BY <1>1, <1>7 DEF States
  <2>3. state' \in [1..Len(state) -> States] /\ handled' \in [1..Len(state) -> 0..MaxRequests]
    BY <2>1, <2>2, <1>6
  <2>4. state' \in Seq(States)
    BY <2>1, <2>3
  <2>5. handled' \in Seq(0..MaxRequests)
    BY <2>1, <2>3, FunctionIsSequence, Zenon
  <2>6. QED BY <2>4, <2>5
<1>9. ClusterTypeOK'
  BY <1>1, <1>2, <1>3, <1>6, <1>7, <1>8 DEF ClusterTypeOK, ID
<1>10. UrgentEventsFit(events'[HIGH], state', instances')
  <2>1. UrgentEventsFit(<<>>, state, instances) /\ events'[HIGH] = <<>>
    BY <1>2, <1>3, <1>4
  <2>2. /\ DOMAIN state' = DOMAIN state
        /\ \A i \in DOMAIN state : state'[i] = IF i \in K THEN "KILLED" ELSE state[i]
    BY <1>7
  <2>3. UrgentEventsFit(<<>>, state', instances \ K)
    BY <2>1, <2>2, <1>5, KilledUrgent
  <2>4. QED BY <2>1, <2>3, <1>6
<1>11. NormalEventsFit(events'[NORMAL], state', handled')
  <2>1. \A i \in DOMAIN state : state[i] = "SHUTTING_DOWN" => i \notin K
    BY <1>1, <1>5
  <2>2. QED BY <2>1, <1>2, <1>3, <1>7, NormalElsewhere
<1>12. \A i \in instances' : state'[i] \in {"CREATED", "RUNNING"}
  BY <1>1, <1>6, <1>7
<1>13. QED BY <1>1, <1>2, <1>3, <1>6, <1>9, <1>10, <1>11, <1>12 DEF ClusterInvariant, NeverContradicted

\* A summoner monkey schedules starts, after what is due already.
LEMMA SummonerMonkeyFits ==
  ASSUME ClusterInvariant, NEW p \in Priorities, SummonerMonkey(p)
  PROVE  ClusterInvariant'
<1> DEFINE rest == Executed(p)
           count == Cardinality(instances) + Head(events[p]).of
<1>1. /\ Present(p) /\ Head(events[p]).kind = "summon" /\ events[p] # <<>>
      /\ ScaleTo(count, rest) /\ sinceScale' = sinceScale /\ aborted' = aborted
  BY DEF SummonerMonkey, Due, Present
<1>2. events \in [Priorities -> Seq(Events)] /\ ClusterTypeOK /\ sinceScale \in 0..(HoldTime + 1)
  BY DEF ClusterInvariant, ClusterTypeOK
<1>3. count \in Int
  <2>1. events[p] \in Seq(Events)
    BY <1>2
  <2>2. Head(events[p]) \in Events
    BY <1>1, <2>1
  <2>3. Head(events[p]).of \in Nat
    BY <2>2 DEF Events
  <2>4. QED BY <1>2, <2>3, CountIsNatural
<1>4. /\ rest \in [Priorities -> Seq(Events)]
      /\ UrgentEventsFit(rest[HIGH], state, instances)
      /\ NormalEventsFit(rest[NORMAL], state, handled)
      /\ \A k \in DOMAIN rest[LOW] : rest[LOW][k].kind = "kill"
  BY <1>1, ExecutedFits
<1> HIDE DEF rest, count
<1>5. QED BY <1>1, <1>2, <1>3, <1>4, ScaleFits

\* A scaling event schedules starts or stops, after what is due already.
LEMMA MicroserviceScaleFits ==
  ASSUME ClusterInvariant, NEW p \in Priorities, MicroserviceScale(p)
  PROVE  ClusterInvariant'
<1> DEFINE rest == Executed(p)
           count == Head(events[p]).of
<1>1. /\ Present(p) /\ Head(events[p]).kind = "scale" /\ events[p] # <<>>
      /\ ScaleTo(count, rest) /\ sinceScale' = sinceScale /\ aborted' = aborted
  BY DEF MicroserviceScale, Due, Present
<1>2. events \in [Priorities -> Seq(Events)] /\ sinceScale \in 0..(HoldTime + 1)
  BY DEF ClusterInvariant, ClusterTypeOK
<1>3. count \in Int
  <2>1. events[p] \in Seq(Events)
    BY <1>2
  <2>2. Head(events[p]) \in Events
    BY <1>1, <2>1
  <2>3. QED BY <2>2 DEF Events
<1>4. /\ rest \in [Priorities -> Seq(Events)]
      /\ UrgentEventsFit(rest[HIGH], state, instances)
      /\ NormalEventsFit(rest[NORMAL], state, handled)
      /\ \A k \in DOMAIN rest[LOW] : rest[LOW][k].kind = "kill"
  BY <1>1, ExecutedFits
<1> HIDE DEF rest, count
<1>5. QED BY <1>1, <1>2, <1>3, <1>4, ScaleFits

\* Whatever the autoscaler decides, it scales to a number, or not at all.
LEMMA CountsAreIntegers ==
  ASSUME NEW n \in Nat, NEW avg \in Nat
  PROVE  CountUp(n, avg) \in Int /\ CountDown(n, avg) \in Int
<1>1. \A a, b \in Int : Lesser(a, b) \in Int /\ Greater(a, b) \in Int
  BY DEF Lesser, Greater
<1>2. ASSUME NEW a \in Int, NEW b \in Nat \ {0} PROVE Ceiling(a, b) \in Int
  BY DEF Ceiling
<1>3. /\ UpperBound - 1 \in Nat \ {0} /\ LowerBound \in Nat \ {0}
      /\ MinInstances \in Int /\ MaxInstances \in Int
  BY ClusterAssumption
<1>4. n * avg \in Int
  OBVIOUS
<1>5. Greater(1, avg) \in Int
  BY <1>1
<1>6. n * Greater(1, avg) \in Int
  BY <1>5
<1>7. Ceiling(n * avg, UpperBound - 1) \in Int /\ Ceiling(n * Greater(1, avg), LowerBound) \in Int
  BY <1>2, <1>3, <1>4, <1>6
<1> DEFINE u == Ceiling(n * avg, UpperBound - 1)
           d == Ceiling(n * Greater(1, avg), LowerBound)
<1>8. CountUp(n, avg) = Lesser(MaxInstances, Greater(1, u))
  BY DEF CountUp
<1>9. CountDown(n, avg) = Greater(MinInstances, Greater(1, d))
  BY DEF CountDown
<1>10. u \in Int /\ d \in Int
  BY <1>7
<1> HIDE DEF u, d
<1>11. QED BY <1>1, <1>3, <1>8, <1>9, <1>10

LEMMA TriggerScales ==
  ASSUME ClusterInvariant, Trigger
  PROVE  LET rest == Executed(HIGH)
         IN  \/ \E count \in Int : ScaleTo(count, rest) /\ sinceScale' \in {sinceScale, 0}
             \/ events' = rest /\ UNCHANGED <<state, handled, instances, sinceScale>>
<1> DEFINE rest == Executed(HIGH)
           n == Cardinality(instances)
<1>1. n \in Nat
  BY CountIsNatural DEF ClusterInvariant
<1>2. MinInstances \in Int /\ MaxInstances \in Int
  BY ClusterAssumption
<1>3. PICK avg \in Utilizations \cup {0} :
        \/ ScaleTo(MinInstances, rest) /\ sinceScale' = sinceScale
        \/ ScaleTo(MaxInstances, rest) /\ sinceScale' = sinceScale
        \/ ScaleTo(CountUp(n, avg), rest) /\ sinceScale' = 0
        \/ ScaleTo(CountDown(n, avg), rest) /\ sinceScale' = 0
        \/ events' = rest /\ UNCHANGED <<state, handled, instances, sinceScale>>
  BY DEF Trigger
<1> HIDE DEF rest, n
<1>4. CountUp(n, avg) \in Int /\ CountDown(n, avg) \in Int
  <2>1. avg \in Nat
    <3>1. Utilizations \cup {0} \subseteq Nat
      BY ClusterAssumption
    <3>2. QED BY <1>3, <3>1
  <2>2. QED BY <1>1, <2>1, CountsAreIntegers
<1>5. QED BY <1>2, <1>3, <1>4 DEF rest

LEMMA TriggerFits == ASSUME ClusterInvariant, Trigger PROVE ClusterInvariant'
<1> DEFINE rest == Executed(HIGH)
<1>1. /\ events \in [Priorities -> Seq(Events)] /\ sinceScale \in 0..(HoldTime + 1)
      /\ HoldTime \in Nat
  BY ClusterAssumption DEF ClusterInvariant, ClusterTypeOK
<1>2. /\ Present(HIGH) /\ Head(events[HIGH]).kind = "trigger" /\ aborted' = aborted
  BY DEF Trigger, Due
<1>3. /\ rest \in [Priorities -> Seq(Events)]
      /\ UrgentEventsFit(rest[HIGH], state, instances)
      /\ NormalEventsFit(rest[NORMAL], state, handled)
      /\ \A k \in DOMAIN rest[LOW] : rest[LOW][k].kind = "kill"
  BY <1>2, ExecutedFits
<1>4. \/ \E count \in Int : ScaleTo(count, rest) /\ sinceScale' \in {sinceScale, 0}
      \/ events' = rest /\ UNCHANGED <<state, handled, instances, sinceScale>>
  BY TriggerScales
<1> HIDE DEF rest
<1>5. CASE \E count \in Int : ScaleTo(count, rest) /\ sinceScale' \in {sinceScale, 0}
  <2>1. sinceScale' \in 0..(HoldTime + 1)
    BY <1>1, <1>5
  <2>2. QED BY <1>2, <1>3, <1>5, <2>1, ScaleFits
<1>6. CASE events' = rest /\ UNCHANGED <<state, handled, instances, sinceScale>>
  <2>1. ClusterTypeOK'
    BY <1>2, <1>3, <1>6 DEF ClusterInvariant, ClusterTypeOK, ID
  <2>2. QED BY <1>2, <1>3, <1>6, <2>1 DEF ClusterInvariant, NeverContradicted
<1>7. QED BY <1>4, <1>5, <1>6

\* What is planned is not about single instances, and of the kinds that its
\* priority allows.
LEMMA PlannedFits ==
  ASSUME NEW p \in Priorities, NEW h \in Planned(p)
  PROVE  h \in Seq(Events) /\ \A k \in DOMAIN h : h[k].kind \in ActionsOf[p]
<1>1. PICK n \in 0..MaxActions : h \in [1..n -> [kind : ActionsOf[p], of : Amounts]]
  BY DEF Planned
<1>2. n \in Nat
  BY <1>1, ClusterAssumption
<1>3. ActionsOf[p] \subseteq {"summon", "kill", "scale"}
  BY DEF ActionsOf
<1>4. [kind : ActionsOf[p], of : Amounts] \subseteq Events
  BY <1>3, ClusterAssumption DEF Events
<1>5. \A k \in 1..n : h[k] \in Events /\ h[k].kind \in ActionsOf[p]
  BY <1>1, <1>4
<1>6. h \in [1..n -> Events] /\ DOMAIN h = 1..n
  BY <1>1, <1>5
<1>7. QED BY <1>2, <1>5, <1>6, FunctionIsSequence

LEMMA TickFits == ASSUME ClusterInvariant, Tick PROVE ClusterInvariant'
<1>1. /\ events \in [Priorities -> Seq(Events)] /\ events[HIGH] = <<>>
      /\ UrgentEventsFit(<<>>, state, instances)
      /\ sinceScale \in 0..(HoldTime + 1) /\ HoldTime \in Nat
      /\ sinceScale' = Lesser(sinceScale + 1, HoldTime + 1)
      /\ UNCHANGED <<state, handled, instances, aborted>>
  BY ClusterAssumption DEF ClusterInvariant, ClusterTypeOK, Tick
<1>2. sinceScale' \in 0..(HoldTime + 1)
  BY <1>1 DEF Lesser
<1>3. PICK high \in Planned(HIGH), normal \in Planned(NORMAL), low \in Planned(LOW) :
        \/ events' = <<Append(high, Event("trigger", 0)), normal, low>>
        \/ events' = <<(<<Event("trigger", 0)>> \o high), normal, low>>
  BY DEF Tick
<1>4. /\ high \in Seq(Events) /\ \A k \in DOMAIN high : high[k].kind = "summon"
      /\ normal \in Seq(Events) /\ \A k \in DOMAIN normal : normal[k].kind \in {"summon", "kill", "scale"}
      /\ low \in Seq(Events) /\ \A k \in DOMAIN low : low[k].kind = "kill"
  <2>1. /\ ActionsOf[HIGH] = {"summon"} /\ ActionsOf[NORMAL] = {"summon", "kill", "scale"}
        /\ ActionsOf[LOW] = {"kill"}
    BY DEF ActionsOf
  <2>2. \A p \in Priorities : \A h \in Planned(p) :
          h \in Seq(Events) /\ \A k \in DOMAIN h : h[k].kind \in ActionsOf[p]
    BY PlannedFits
  <2>3. QED BY <1>3, <2>1, <2>2
<1>5. Event("trigger", 0) \in Events /\ Event("trigger", 0).kind = "trigger"
  BY DEF Event, Events
<1>6. PICK urgent \in Seq(Events) :
        /\ \A k \in DOMAIN urgent : urgent[k].kind \in {"trigger", "summon"}
        /\ events' = <<urgent, normal, low>>
  <2>1. CASE events' = <<Append(high, Event("trigger", 0)), normal, low>>
    <3> DEFINE urgent == Append(high, Event("trigger", 0))
    <3>1. /\ urgent \in Seq(Events)
          /\ \A k \in DOMAIN urgent : \/ k \in DOMAIN high /\ urgent[k] = high[k]
                                      \/ urgent[k] = Event("trigger", 0)
      BY <1>4, <1>5
    <3>2. \A k \in DOMAIN urgent : urgent[k].kind \in {"trigger", "summon"}
      BY <3>1, <1>4, <1>5
    <3>3. QED BY <2>1, <3>1, <3>2
  <2>2. CASE events' = <<(<<Event("trigger", 0)>> \o high), normal, low>>
    <3> DEFINE urgent == <<Event("trigger", 0)>> \o high
    <3>1. /\ urgent \in Seq(Events)
          /\ \A k \in DOMAIN urgent : \/ k - 1 \in DOMAIN high /\ urgent[k] = high[k - 1]
                                      \/ urgent[k] = Event("trigger", 0)
      BY <1>4, <1>5
    <3>2. \A k \in DOMAIN urgent : urgent[k].kind \in {"trigger", "summon"}
      BY <3>1, <1>4, <1>5
    <3>3. QED BY <2>2, <3>1, <3>2
  <2>3. QED BY <1>3, <2>1, <2>2
<1>7. /\ events' \in [Priorities -> Seq(Events)]
      /\ events'[HIGH] = urgent /\ events'[NORMAL] = normal /\ events'[LOW] = low
  BY <1>4, <1>6
<1>8. ClusterTypeOK'
  BY <1>1, <1>2, <1>7 DEF ClusterInvariant, ClusterTypeOK, ID
<1>9. UrgentEventsFit(events'[HIGH], state', instances')
  BY <1>1, <1>6, <1>7, PlannedUrgent
<1>10. NormalEventsFit(events'[NORMAL], state', handled')
  BY <1>4, <1>7 DEF NormalEventsFit
<1>11. QED BY <1>1, <1>4, <1>7, <1>8, <1>9, <1>10 DEF ClusterInvariant, NeverContradicted

\* The starting instances are created and due to be started, after the trigger.
LEMMA InitFits == ClusterInit => ClusterInvariant
<1> SUFFICES ASSUME ClusterInit PROVE ClusterInvariant
  OBVIOUS
<1> DEFINE N == StartingInstances
           trigger == <<Event("trigger", 0)>>
           starts == [i \in 1..N |-> Event("start", i)]
<1>1. N \in Nat /\ MaxRequests \in Nat /\ HoldTime \in Nat
  BY ClusterAssumption
<1>2. /\ state = [i \in 1..N |-> "CREATED"] /\ handled = [i \in 1..N |-> 0]
      /\ instances = 1..N /\ sinceScale = 0 /\ aborted = FALSE
  BY DEF ClusterInit
<1>3. /\ DOMAIN state = 1..N /\ \A i \in 1..N : state[i] = "CREATED"
      /\ DOMAIN handled = 1..N
      /\ state \in Seq(States) /\ handled \in Seq(0..MaxRequests)
  BY <1>1, <1>2, FunctionIsSequence DEF States
<1>4. trigger \in Seq(Events) /\ starts \in Seq(Events)
  <2>1. \A i \in 0..N : Event("start", i) \in Events /\ Event("trigger", i) \in Events
    BY <1>1 DEF Event, Events
  <2>2. starts \in [1..N -> Events]
    BY <1>1, <2>1
  <2>3. starts \in Seq(Events)
    BY <1>1, <2>2, FunctionIsSequence, Zenon
  <2>4. QED BY <1>1, <2>1, <2>3
<1>5. /\ events \in [Priorities -> Seq(Events)]
      /\ events[HIGH] = trigger \o starts
      /\ events[NORMAL] = <<>> /\ events[LOW] = <<>>
  <2>1. events = [[p \in Priorities |-> IF p = HIGH THEN trigger ELSE <<>>]
                    EXCEPT ![HIGH] = @ \o starts]
    BY DEF ClusterInit, Scheduled, PriorityOfStart
  <2> DEFINE early == [p \in Priorities |-> IF p = HIGH THEN trigger ELSE <<>>]
  <2>2. early \in [Priorities -> Seq(Events)] /\ early[HIGH] = trigger
        /\ early[NORMAL] = <<>> /\ early[LOW] = <<>>
    BY <1>4
  <2>3. trigger \o starts \in Seq(Events)
    BY <1>4
  <2> HIDE DEF trigger, starts, early
  <2>4. events = [early EXCEPT ![HIGH] = trigger \o starts]
    BY <2>1, <2>2 DEF early
  <2>5. QED BY <2>2, <2>3, <2>4
<1>6. /\ DOMAIN starts = 1..N
      /\ \A i \in 1..N : starts[i] = Event("start", i) /\ starts[i].kind = "start" /\ starts[i].of = i
      /\ \A k \in DOMAIN trigger : trigger[k].kind = "trigger"
  BY DEF Event
<1> HIDE DEF N, trigger, starts
<1>7. UrgentInOrder(trigger, 1..N)
  BY <1>6 DEF UrgentInOrder
<1>8. UrgentInOrder(starts, 1..N)
  BY <1>6 DEF UrgentInOrder
<1>9. UrgentInOrder(trigger \o starts, 1..N)
  <2>1. \A k \in DOMAIN trigger, l \in DOMAIN starts :
          trigger[k] # starts[l] /\ trigger[k].kind # "stop"
    BY <1>6
  <2>2. QED BY <1>4, <1>7, <1>8, <2>1, OrderOfConcat
<1>10. ASSUME NEW i \in 1..N
       PROVE  /\ \E k \in DOMAIN (trigger \o starts) : (trigger \o starts)[k] = Event("start", i)
              /\ ~(\E k \in DOMAIN (trigger \o starts) : (trigger \o starts)[k] = Event("stop", i))
  <2>1. \A k \in DOMAIN trigger : trigger[k] # Event("stop", i)
    BY <1>6 DEF Event
  <2>2. \A k \in DOMAIN starts : starts[k] # Event("stop", i)
    BY <1>6 DEF Event
  <2>3. starts[i] = Event("start", i) /\ i \in DOMAIN starts
    BY <1>6
  <2>4. \A e : (\E k \in DOMAIN (trigger \o starts) : (trigger \o starts)[k] = e)
               <=> (\E k \in DOMAIN trigger : trigger[k] = e) \/ (\E k \in DOMAIN starts : starts[k] = e)
    BY <1>4, ConcatFinds
  <2>5. QED BY <2>1, <2>2, <2>3, <2>4
<1>11. UrgentEventsFit(events[HIGH], state, instances)
  BY <1>2, <1>3, <1>5, <1>9, <1>10 DEF UrgentEventsFit, N
<1>12. NormalEventsFit(events[NORMAL], state, handled)
  BY <1>5 DEF NormalEventsFit
<1>13. ClusterTypeOK
  <2>1. instances \subseteq ID /\ DOMAIN handled = ID
    BY <1>2, <1>3 DEF ID, N
  <2>2. sinceScale \in 0..(HoldTime + 1)
    BY <1>1, <1>2
  <2>3. aborted \in BOOLEAN
    BY <1>2
  <2>4. QED BY <1>3, <1>5, <2>1, <2>2, <2>3 DEF ClusterTypeOK
<1>14. QED BY <1>2, <1>3, <1>5, <1>11, <1>12, <1>13 DEF ClusterInvariant, NeverContradicted, N

-----------------------------------------------------------------------------
(* The theorems.                                                           *)

\* No step of the cluster disturbs the invariant.
LEMMA ClusterStepFits ==
  ASSUME ClusterInvariant, [ClusterNext]_clusterVars
  PROVE  ClusterInvariant'
<1>1. CASE Startup
  BY <1>1, StartupFits
<1>2. CASE ShutdownStart
  BY <1>2, ShutdownStartFits
<1>3. CASE ShutdownEnd
  BY <1>3, ShutdownEndFits
<1>4. CASE \E i \in ID : Accept(i) \/ Answer(i) \/ Fail(i)
  BY <1>4, RequestFits
<1>5. CASE \E p \in Priorities : ChaosMonkey(p)
  BY <1>5, ChaosMonkeyFits
<1>6. CASE \E p \in Priorities : SummonerMonkey(p)
  BY <1>6, SummonerMonkeyFits
<1>7. CASE \E p \in Priorities : MicroserviceScale(p)
  BY <1>7, MicroserviceScaleFits
<1>8. CASE Trigger
  BY <1>8, TriggerFits
<1>9. CASE Tick
  BY <1>9, TickFits
<1>10. CASE UNCHANGED clusterVars
  BY <1>10 DEF clusterVars, ClusterInvariant, ClusterTypeOK, ID, NeverContradicted
<1>11. QED BY <1>1, <1>2, <1>3, <1>4, <1>5, <1>6, <1>7, <1>8, <1>9, <1>10 DEF ClusterNext

\* An instance that has left its first state never returns to it, and never
\* comes to run.
StaysStarted(st, new) ==
  /\ DOMAIN st \subseteq DOMAIN new
  /\ \A i \in DOMAIN st :
       st[i] # "CREATED" => new[i] # "CREATED" /\ (new[i] = "RUNNING" => st[i] = "RUNNING")

LEMMA ScalingStarts ==
  ASSUME state \in Seq(States), NEW count \in Int, NEW rest, ScaleTo(count, rest),
         Cardinality(instances) \in Nat
  PROVE  StaysStarted(state, state')
<1>1. CASE ScaleUp(count, rest)
  <2> DEFINE n == count - Cardinality(instances)
  <2>1. n \in Nat /\ state' = state \o [k \in 1..n |-> "CREATED"]
    BY <1>1 DEF ScaleUp
  <2> HIDE DEF n
  <2>2. DOMAIN state \subseteq DOMAIN state' /\ \A i \in DOMAIN state : state'[i] = state[i]
    BY <2>1
  <2>3. QED BY <2>2 DEF StaysStarted
<1>2. CASE ScaleDown(count, rest)
  BY <1>2 DEF ScaleDown, StaysStarted
<1>3. QED BY <1>1, <1>2 DEF ScaleTo

LEMMA OnceStarted ==
  ASSUME ClusterInvariant, [ClusterNext]_clusterVars
  PROVE  StaysStarted(state, state')
<1>1. /\ state \in Seq(States) /\ events \in [Priorities -> Seq(Events)]
      /\ UrgentEventsFit(events[HIGH], state, instances) /\ Cardinality(instances) \in Nat
  BY CountIsNatural DEF ClusterInvariant, ClusterTypeOK
<1>2. \A p \in Priorities : events[p] # <<>> => Head(events[p]).of \in Int
  <2> SUFFICES ASSUME NEW p \in Priorities, events[p] # <<>> PROVE Head(events[p]).of \in Int
    OBVIOUS
  <2>1. events[p] \in Seq(Events)
    BY <1>1
  <2>2. Head(events[p]) \in Events
    BY <2>1
  <2>3. QED BY <2>2 DEF Events
<1>3. CASE Startup
  <2> DEFINE h == events[HIGH]
  <2>1. h \in Seq(Events) /\ h # <<>> /\ Head(h).kind = "start" /\ UrgentEventsFit(h, state, instances)
    BY <1>1, <1>3 DEF Startup, Due, Present, PriorityOfStart
  <2>2. Head(h).of \in DOMAIN state /\ state[Head(h).of] = "CREATED"
    BY <1>1, <2>1, StartTaken
  <2>3. state' = [state EXCEPT ![Head(h).of] = "RUNNING"]
    BY <1>3, <2>2 DEF Startup, PriorityOfStart
  <2>4. QED BY <2>2, <2>3 DEF StaysStarted
<1>4. CASE ShutdownStart
  BY <1>4 DEF ShutdownStart, Abort, StaysStarted
<1>5. CASE ShutdownEnd
  BY <1>5 DEF ShutdownEnd, Abort, StaysStarted
<1>6. CASE \E i \in ID : Accept(i) \/ Answer(i) \/ Fail(i)
  BY <1>6 DEF Accept, Answer, Fail, StaysStarted
<1>7. ASSUME NEW p \in Priorities, ChaosMonkey(p) PROVE StaysStarted(state, state')
  BY <1>7 DEF ChaosMonkey, KillInstances, StaysStarted, ID
<1>8. ASSUME NEW p \in Priorities, SummonerMonkey(p) PROVE StaysStarted(state, state')
  <2>1. events[p] # <<>> /\ ScaleTo(Cardinality(instances) + Head(events[p]).of, Executed(p))
    BY <1>8 DEF SummonerMonkey, Due, Present
  <2>2. Cardinality(instances) + Head(events[p]).of \in Int
    BY <1>1, <1>2, <2>1
  <2>3. QED BY <1>1, <2>1, <2>2, ScalingStarts
<1>9. ASSUME NEW p \in Priorities, MicroserviceScale(p) PROVE StaysStarted(state, state')
  <2>1. events[p] # <<>> /\ ScaleTo(Head(events[p]).of, Executed(p))
    BY <1>9 DEF MicroserviceScale, Due, Present
  <2>2. QED BY <1>1, <1>2, <2>1, ScalingStarts
<1>10. CASE Trigger
  <2>1. (\E count \in Int : ScaleTo(count, Executed(HIGH))) \/ state' = state
    BY <1>10, TriggerScales
  <2>2. QED BY <1>1, <2>1, ScalingStarts DEF StaysStarted
<1>11. CASE Tick
  BY <1>11 DEF Tick, StaysStarted
<1>12. CASE UNCHANGED clusterVars
  BY <1>12 DEF clusterVars, StaysStarted
<1>13. QED BY <1>3, <1>4, <1>5, <1>6, <1>7, <1>8, <1>9, <1>10, <1>11, <1>12 DEF ClusterNext

\* scaleToInstancesCount reaches its target.
LEMMA ScaledCount ==
  ASSUME ClusterInvariant, NEW count \in Int, NEW rest, ScaleTo(count, rest)
  PROVE  Cardinality(instances') = count
<1>1. /\ state \in Seq(States) /\ instances \subseteq 1..Len(state) /\ Len(state) \in Nat
      /\ IsFiniteSet(instances) /\ Cardinality(instances) \in Nat
  <2>1. state \in Seq(States) /\ instances \subseteq DOMAIN state
    BY DEF ClusterInvariant, ClusterTypeOK, ID
  <2>2. instances \subseteq 1..Len(state) /\ Len(state) \in Nat
    BY <2>1
  <2>3. IsFiniteSet(1..Len(state))
    BY <2>2, FS_Interval
  <2>4. QED BY <2>1, <2>2, <2>3, FS_Subset, FS_CardinalityType
<1>2. CASE ScaleUp(count, rest)
  <2> DEFINE n == count - Cardinality(instances)
             len == Len(state)
             new == [k \in 1..n |-> len + k]
             more == {new[k] : k \in 1..n}
  <2>1. n \in Nat /\ instances' = instances \cup more
    BY <1>1, <1>2 DEF ScaleUp
  <2>2. more = (len + 1)..(len + n)
    <3>1. \A i \in more : i \in (len + 1)..(len + n)
      BY <1>1, <2>1
    <3>2. ASSUME NEW i \in (len + 1)..(len + n) PROVE i \in more
      <4>1. i - len \in 1..n /\ new[i - len] = i
        BY <1>1, <2>1
      <4>2. QED BY <4>1
    <3>3. QED BY <3>1, <3>2
  <2> HIDE DEF more, n, len
  <2>3. IsFiniteSet(more) /\ Cardinality(more) = n
    <3>1. len + 1 \in Int /\ len + n \in Int
      BY <1>1, <2>1 DEF len
    <3>2. IsFiniteSet(more)
          /\ Cardinality(more) = IF len + 1 > len + n THEN 0 ELSE (len + n) - (len + 1) + 1
      BY <2>2, <3>1, FS_Interval
    <3>3. len \in Int
      BY <1>1 DEF len
    <3>4. QED BY <2>1, <3>2, <3>3
  <2>4. instances \cap more = {}
    BY <1>1, <2>2 DEF len
  <2>5. Cardinality(instances \cap more) = 0
    BY <2>4, FS_EmptySet
  <2>6. Cardinality(instances') = Cardinality(instances) + n
    <3>1. Cardinality(instances \cup more)
            = Cardinality(instances) + Cardinality(more) - Cardinality(instances \cap more)
      BY <1>1, <2>3, FS_Union
    <3>2. QED BY <1>1, <2>1, <2>3, <2>5, <3>1
  <2>7. QED BY <1>1, <2>6 DEF n
<1>3. CASE ScaleDown(count, rest)
  <2> DEFINE n == Cardinality(instances) - count
  <2>1. PICK victims \in Injection(1..n, instances) : n > 0 /\ instances' = Removed(victims)
    BY <1>3 DEF ScaleDown
  <2>2. n \in Nat
    BY <1>1, <2>1
  <2> HIDE DEF n
  <2>3. victims \in Injection(1..n, Range(victims)) /\ victims \in Surjection(1..n, Range(victims))
    BY DEF Injection, Surjection, IsInjective, Range
  <2>4. IsFiniteSet(1..n) /\ Cardinality(1..n) = n
    BY <2>2, FS_Interval
  <2>5. Cardinality(Range(victims)) = n
    BY <2>3, <2>4, FS_Surjection
  <2>6. instances \cap Range(victims) = Range(victims)
    BY DEF Range, Injection
  <2>7. Cardinality(instances') = Cardinality(instances) - n
    BY <1>1, <2>1, <2>5, <2>6, FS_Difference, ZenonT(40) DEF Removed
  <2>8. QED BY <1>1, <2>7 DEF n
<1>4. QED BY <1>2, <1>3 DEF ScaleTo

\* A quotient that is rounded up
LEMMA CeilingBounds ==
  ASSUME NEW m \in Nat, NEW n \in Nat \ {0}
  PROVE  Ceiling(m, n) \in Int /\ n * Ceiling(m, n) >= m /\ n * Ceiling(m, n) < m + n
<1> DEFINE c == (m + n - 1) \div n
           r == (m + n - 1) % n
<1>1. m + n - 1 = n * c + r /\ r \in 0..(n - 1) /\ c \in Int
  OBVIOUS
<1>2. QED BY <1>1 DEF Ceiling

\* Scaling up adds an instance, scaling down none.
LEMMA CountUpAdds ==
  ASSUME NEW n \in Nat \ {0}, NEW avg \in Nat, avg >= UpperBound, n < MaxInstances
  PROVE  CountUp(n, avg) \in (n + 1)..MaxInstances
<1>1. UpperBound - 1 \in Nat \ {0} /\ MaxInstances \in Nat /\ avg >= UpperBound - 1 + 1
  BY ClusterAssumption
<1> DEFINE u == UpperBound - 1
           c == Ceiling(n * avg, u)
<1>2. u \in Nat \ {0} /\ avg >= u + 1 /\ n * avg \in Nat
  BY <1>1
<1>3. c \in Int /\ u * c >= n * avg
  BY <1>2, CeilingBounds
<1>4. n * avg > n * u
  <2> HIDE DEF u
  <2>1. n * avg = n * u + n * (avg - u)
    BY <1>2
  <2>2. n * (avg - u) > 0
    BY <1>2
  <2>3. n * avg \in Int /\ n * u \in Int /\ n * (avg - u) \in Int
    BY <1>2
  <2>4. QED BY <2>1, <2>2, <2>3
<1> HIDE DEF u, c
<1>5. c > n
  <2>1. u * c > u * n
    BY <1>2, <1>3, <1>4
  <2>2. QED BY <1>2, <1>3, <2>1
<1>6. CountUp(n, avg) = Lesser(MaxInstances, Greater(1, c))
  BY DEF CountUp, c, u
<1>7. QED BY <1>1, <1>3, <1>5, <1>6 DEF Lesser, Greater

LEMMA CountDownKeeps ==
  ASSUME NEW n \in Nat \ {0}, NEW avg \in Nat, avg <= LowerBound, MinInstances <= n
  PROVE  CountDown(n, avg) \in MinInstances..n
<1> DEFINE a == Greater(1, avg)
           c == Ceiling(n * a, LowerBound)
<1>1. LowerBound \in Nat \ {0} /\ MinInstances \in Nat \ {0}
  BY ClusterAssumption
<1>2. a \in Nat /\ a <= LowerBound /\ n * a \in Nat
  BY <1>1 DEF Greater
<1>3. c \in Int /\ LowerBound * c < n * a + LowerBound
  BY <1>1, <1>2, CeilingBounds
<1> HIDE DEF a, c
<1>4. n * a <= n * LowerBound
  BY <1>1, <1>2
<1>5. LowerBound * c < LowerBound * (n + 1)
  BY <1>1, <1>2, <1>3, <1>4
<1>6. c < n + 1
  BY <1>1, <1>3, <1>5
<1>7. CountDown(n, avg) = Greater(MinInstances, Greater(1, c))
  BY DEF CountDown, c, a
<1>8. QED BY <1>1, <1>3, <1>6, <1>7 DEF Greater

LEMMA TriggerKeepsBounds ==
  ASSUME ClusterInvariant, Trigger
  PROVE  /\ Cardinality(instances') \in MinInstances..MaxInstances
         /\ sinceScale' = 0 /\ sinceScale > 0 /\ sinceScale <= HoldTime
              => Cardinality(instances') > Cardinality(instances)
<1> DEFINE n == Cardinality(instances)
           rest == Executed(HIGH)
           held == sinceScale <= HoldTime
<1>1. n \in Nat
  BY CountIsNatural DEF ClusterInvariant
<1>2. /\ MinInstances \in Nat \ {0} /\ MaxInstances \in Nat /\ MinInstances <= MaxInstances
      /\ Utilizations \cup {0} \subseteq Nat
  BY ClusterAssumption
<1>3. PICK avg \in Utilizations \cup {0} :
        \/ n < MinInstances /\ ScaleTo(MinInstances, rest) /\ UNCHANGED sinceScale
        \/ n > MaxInstances /\ ScaleTo(MaxInstances, rest) /\ UNCHANGED sinceScale
        \/ /\ n \in MinInstances..(MaxInstances - 1) /\ avg >= UpperBound
           /\ ScaleTo(CountUp(n, avg), rest)
        \/ /\ n \in (MinInstances + 1)..MaxInstances /\ avg <= LowerBound /\ ~held
           /\ ScaleTo(CountDown(n, avg), rest)
        \/ n \in MinInstances..MaxInstances /\ UNCHANGED <<instances, sinceScale>>
  BY DEF Trigger
<1>4. avg \in Nat
  BY <1>2, <1>3
<1> HIDE DEF n, rest
<1>5. CASE n < MinInstances /\ ScaleTo(MinInstances, rest) /\ UNCHANGED sinceScale
  <2>1. Cardinality(instances') = MinInstances
    BY <1>2, <1>5, ScaledCount
  <2>2. QED BY <1>1, <1>2, <1>5, <2>1 DEF n
<1>6. CASE n > MaxInstances /\ ScaleTo(MaxInstances, rest) /\ UNCHANGED sinceScale
  <2>1. Cardinality(instances') = MaxInstances
    BY <1>2, <1>6, ScaledCount
  <2>2. QED BY <1>1, <1>2, <1>6, <2>1
<1>7. CASE /\ n \in MinInstances..(MaxInstances - 1) /\ avg >= UpperBound
           /\ ScaleTo(CountUp(n, avg), rest)
  <2>1. CountUp(n, avg) \in (n + 1)..MaxInstances
    BY <1>1, <1>2, <1>4, <1>7, CountUpAdds
  <2>2. Cardinality(instances') = CountUp(n, avg)
    BY <1>1, <1>2, <1>7, <2>1, ScaledCount
  <2>3. QED BY <1>1, <1>2, <1>7, <2>1, <2>2 DEF n
<1>8. CASE /\ n \in (MinInstances + 1)..MaxInstances /\ avg <= LowerBound /\ ~held
           /\ ScaleTo(CountDown(n, avg), rest)
  <2>1. CountDown(n, avg) \in MinInstances..n
    BY <1>1, <1>2, <1>4, <1>8, CountDownKeeps
  <2>2. Cardinality(instances') = CountDown(n, avg)
    BY <1>1, <1>2, <1>8, <2>1, ScaledCount
  <2>3. QED BY <1>1, <1>2, <1>8, <2>1, <2>2
<1>9. CASE n \in MinInstances..MaxInstances /\ UNCHANGED <<instances, sinceScale>>
  BY <1>9 DEF n
<1>10. QED BY <1>3, <1>5, <1>6, <1>7, <1>8, <1>9

\* Agreement of the events with the instances also means that, when nothing
\* urgent is due, the service has the running instances.
LEMMA RunningIfNothingUrgent == ClusterInvariant => InstancesAreRunning
<1> SUFFICES ASSUME ClusterInvariant, NothingUrgent
             PROVE  instances = {i \in ID : state[i] = "RUNNING"}
  BY DEF InstancesAreRunning
<1>1. /\ UrgentEventsFit(<<>>, state, instances) /\ instances \subseteq ID
      /\ \A i \in instances : state[i] \in {"CREATED", "RUNNING"}
  BY DEF ClusterInvariant, ClusterTypeOK, NothingUrgent
<1>2. \A i \in ID : state[i] # "CREATED" /\ (state[i] = "RUNNING" => i \in instances)
  BY <1>1 DEF UrgentEventsFit, ID
<1>3. QED BY <1>1, <1>2

\* Init => Inv and Inv /\ [Next]_vars => Inv': whatever monkeys, scaling
\* events and the autoscaler (ReactiveAutoscalingPolicy.apply) order at one
\* instant, the events of an instance agree with its state and its service.
THEOREM InvariantOfTheCluster == ClusterSpec => []ClusterInvariant
BY InitFits, ClusterStepFits, PTL DEF ClusterSpec

\* No start, shutdown or kill finds its instance in a state in which
\* MicroserviceInstance throws: nothing aborts an event.
THEOREM OrdersAreNeverContradicted == ClusterSpec => []NeverContradicted
<1>1. ClusterInvariant => NeverContradicted
  BY DEF ClusterInvariant
<1>2. QED BY <1>1, InvariantOfTheCluster, PTL

\* The reactive autoscaler (ReactiveAutoscalingPolicy.apply) leaves the number
\* of instances within its bounds, and what it scales for the sake of the
\* utilization before the hold time has passed adds instances: so it rounds,
\* whatever the bounds and the utilization it sees.
THEOREM AutoscalerBounds == ClusterSpec => AutoscalerKeepsBounds
<1>1. ClusterInvariant /\ [ClusterNext]_clusterVars
        => [Trigger =>
              /\ Cardinality(instances') \in MinInstances..MaxInstances
              /\ sinceScale' = 0 /\ sinceScale > 0 /\ sinceScale <= HoldTime
                   => Cardinality(instances') > Cardinality(instances)]_clusterVars
  BY TriggerKeepsBounds
<1>2. QED BY <1>1, InvariantOfTheCluster, PTL DEF ClusterSpec, AutoscalerKeepsBounds

\* When nothing urgent is due, the instances the service offers to its load
\* balancer and counts are the running ones, and all of them.
THEOREM ServiceHasTheRunningInstances == ClusterSpec => []InstancesAreRunning
BY RunningIfNothingUrgent, InvariantOfTheCluster, PTL

-----------------------------------------------------------------------------
(* LOAD BALANCING                                                          *)
-----------------------------------------------------------------------------
(* Sequences without repetition.                                           *)

\* What is in a queue
Queued(q) == {q[k] : k \in DOMAIN q}

\* A sequence without repetition is as long as it has elements.
LEMMA LenOfDistinct ==
  ASSUME NEW S, NEW q \in Seq(S), IsInjective(q)
  PROVE  IsFiniteSet(Queued(q)) /\ Len(q) = Cardinality(Queued(q))
<1>1. q \in Bijection(1..Len(q), Queued(q))
  BY DEF Queued, Bijection, Injection, Surjection, IsInjective
<1>2. ExistsBijection(1..Len(q), Queued(q))
  BY <1>1 DEF ExistsBijection
<1>3. IsFiniteSet(1..Len(q)) /\ Cardinality(1..Len(q)) = Len(q)
  <2>1. Len(q) \in Nat
    OBVIOUS
  <2>2. QED BY <2>1, FS_Interval, SMTT(20)
<1>4. QED BY <1>2, <1>3, FS_Bijection

\* And one that is as long as it has elements has none twice.
LEMMA DistinctByLen ==
  ASSUME NEW S, NEW q \in Seq(S), Len(q) = Cardinality(Queued(q))
  PROVE  IsInjective(q)
<1>1. q \in Surjection(1..Len(q), Queued(q))
  <2>1. DOMAIN q = 1..Len(q) /\ q \in [DOMAIN q -> S]
    OBVIOUS
  <2>2. \A t \in Queued(q) : \E k \in 1..Len(q) : q[k] = t
    BY <2>1, Zenon DEF Queued
  <2>3. \A k \in 1..Len(q) : q[k] \in Queued(q)
    BY <2>1 DEF Queued
  <2>4. q \in [1..Len(q) -> Queued(q)]
    BY <2>1, <2>3
  <2>5. QED BY <2>2, <2>4 DEF Surjection
<1>2. IsFiniteSet(1..Len(q)) /\ Cardinality(1..Len(q)) = Len(q)
  <2>1. Len(q) \in Nat
    OBVIOUS
  <2>2. QED BY <2>1, FS_Interval
<1>3. q \in Injection(1..Len(q), Queued(q))
  BY <1>1, <1>2, FS_Surjection
<1>4. QED BY <1>3 DEF Injection, IsInjective

LEMMA SeqOfMore ==
  ASSUME NEW S, NEW T, S \subseteq T, NEW q \in Seq(S) PROVE q \in Seq(T)
<1>1. \A k \in 1..Len(q) : q[k] \in T
  OBVIOUS
<1>2. q = [k \in 1..Len(q) |-> q[k]] /\ Len(q) \in Nat
  OBVIOUS
<1>3. QED BY <1>1, <1>2

\* How many elements of S are less than i
Rank(S, i) == Cardinality({j \in S : j < i})

\* In the order of a finite set every place is taken by one element.
LEMMA RankIsPlace ==
  ASSUME NEW S, S \subseteq Nat, IsFiniteSet(S)
  PROVE  /\ Cardinality(S) \in Nat
         /\ \A i \in S : Rank(S, i) \in 0..(Cardinality(S) - 1)
         /\ \A i, j \in S : Rank(S, i) = Rank(S, j) => i = j
         /\ \A k \in 0..(Cardinality(S) - 1) : \E i \in S : Rank(S, i) = k
<1> DEFINE below(i) == {j \in S : j < i}
           rank == [i \in S |-> Rank(S, i)]
           n == Cardinality(S)
<1>1. n \in Nat
  BY FS_CardinalityType
<1>2. \A i : IsFiniteSet(below(i)) /\ Cardinality(below(i)) \in Nat
  BY FS_Subset, FS_CardinalityType
<1>3. ASSUME NEW i \in S PROVE Rank(S, i) \in 0..(n - 1)
  <2>1. below(i) \in SUBSET S /\ i \notin below(i)
    OBVIOUS
  <2>2. Cardinality(below(i)) <= n /\ (n = Cardinality(below(i)) => S = below(i))
    BY <2>1, FS_Subset
  <2>3. QED BY <2>1, <2>2, <1>1, <1>2 DEF Rank
<1>4. ASSUME NEW i \in S, NEW j \in S, i < j PROVE Rank(S, i) < Rank(S, j)
  <2>1. below(i) \in SUBSET below(j) /\ i \in below(j) /\ i \notin below(i)
    <3>1. i \in Nat /\ j \in Nat
      OBVIOUS
    <3>2. \A k \in S : k \in Nat /\ (k < i => k < j)
      BY <3>1, <1>4
    <3>3. \A k \in below(i) : k \in below(j)
      BY <3>2
    <3>4. below(i) \subseteq below(j)
      BY <3>3, Zenon
    <3>5. i \in below(j) /\ i \notin below(i)
      BY <3>1, <1>4
    <3>6. QED BY <3>4, <3>5
  <2>2. /\ Cardinality(below(i)) <= Cardinality(below(j))
        /\ Cardinality(below(j)) = Cardinality(below(i)) => below(j) = below(i)
    BY <2>1, <1>2, FS_Subset
  <2>3. QED BY <2>1, <2>2, <1>2 DEF Rank
<1>5. ASSUME NEW i \in S, NEW j \in S, Rank(S, i) = Rank(S, j) PROVE i = j
  <2>1. i \in Nat /\ j \in Nat /\ Rank(S, i) \in Nat
    BY <1>1, <1>3
  <2>2. ~(i < j) /\ ~(j < i)
    BY <1>4, <1>5, <2>1
  <2>3. QED BY <2>1, <2>2
<1>6. rank \in Injection(S, 0..(n - 1))
  BY <1>3, <1>5 DEF Injection, IsInjective
<1>7. IsFiniteSet(0..(n - 1)) /\ Cardinality(0..(n - 1)) = n
  <2> HIDE DEF n
  <2>1. 0 \in Int /\ n - 1 \in Int /\ n >= 0
    BY <1>1
  <2>2. IsFiniteSet(0..(n - 1)) /\ Cardinality(0..(n - 1)) = IF 0 > n - 1 THEN 0 ELSE (n - 1) - 0 + 1
    BY <2>1, FS_Interval
  <2>3. QED BY <2>1, <2>2, <1>1
<1>8. rank \in Surjection(S, 0..(n - 1))
  BY <1>6, <1>7, FS_Injection
<1>9. \A k \in 0..(n - 1) : \E i \in S : Rank(S, i) = k
  BY <1>8 DEF Surjection
<1>10. QED BY <1>1, <1>3, <1>5, <1>9

\* The order of a finite set holds each of its elements once.
LEMMA OrderOfSet ==
  ASSUME NEW S, S \subseteq Nat, IsFiniteSet(S)
  PROVE  /\ InOrder(S) \in Seq(S) /\ Len(InOrder(S)) = Cardinality(S)
         /\ IsInjective(InOrder(S)) /\ Queued(InOrder(S)) = S
<1> DEFINE n == Cardinality(S)
           o == InOrder(S)
<1>1. n \in Nat
  BY RankIsPlace
<1>2. ASSUME NEW k \in 1..n PROVE o[k] \in S /\ Rank(S, o[k]) = k - 1
  <2>1. o[k] = CHOOSE i \in S : Rank(S, i) = k - 1
    BY <1>1 DEF InOrder, Rank
  <2>2. k - 1 \in 0..(n - 1)
    BY <1>1
  <2>3. \E i \in S : Rank(S, i) = k - 1
    BY <2>2, RankIsPlace
  <2> HIDE DEF o
  <2>4. QED BY <2>1, <2>3
<1>3. DOMAIN o = 1..n
  BY DEF InOrder
<1>4. o \in Seq(S) /\ Len(o) = n
  <2>1. o \in [1..n -> S]
    <3>1. o = [k \in 1..n |-> CHOOSE i \in S : Rank(S, i) = k - 1]
      BY DEF InOrder, Rank
    <3>2. \A k \in 1..n : (CHOOSE i \in S : Rank(S, i) = k - 1) \in S
      <4>1. \A k \in 1..n : o[k] = CHOOSE i \in S : Rank(S, i) = k - 1
        BY DEF InOrder, Rank
      <4> HIDE DEF o
      <4>2. QED BY <4>1, <1>2
    <3> HIDE DEF o
    <3>3. QED BY <3>1, <3>2
  <2> HIDE DEF o, n
  <2>2. QED BY <2>1, <1>1
<1> HIDE DEF o
<1>5. IsInjective(o)
  <2> SUFFICES ASSUME NEW k \in 1..n, NEW l \in 1..n, o[k] = o[l] PROVE k = l
    BY <1>3 DEF IsInjective
  <2>1. k - 1 = l - 1
    BY <1>2
  <2>2. QED BY <2>1, <1>1
<1>6. Queued(o) = S
  <2>1. Queued(o) \subseteq S
    BY <1>2, <1>3 DEF Queued
  <2>2. ASSUME NEW i \in S PROVE i \in Queued(o)
    <3>1. Rank(S, i) \in 0..(n - 1)
      BY RankIsPlace
    <3>2. Rank(S, i) + 1 \in 1..n
      BY <3>1, <1>1
    <3>3. Rank(S, o[Rank(S, i) + 1]) = Rank(S, i) /\ o[Rank(S, i) + 1] \in S
      BY <3>1, <3>2, <1>2
    <3>4. o[Rank(S, i) + 1] = i
      BY <3>3, RankIsPlace
    <3>5. QED BY <3>2, <3>4, <1>3 DEF Queued
  <2>3. QED BY <2>1, <2>2
<1>7. QED BY <1>4, <1>5, <1>6 DEF o

\* What NewAtTheFront makes of a queue: the new ones, then the others in their
\* order
IsQueueWith(r, q, new) ==
  LET n == Cardinality(new)
  IN  /\ n \in Nat /\ r \in Seq(Nat) /\ Len(r) = n + Len(q)
      /\ IsInjective(r) /\ Queued(r) = new \cup Queued(q)
      /\ \A k \in 1..n : r[k] \in new
      /\ \A k \in DOMAIN q : r[n + k] = q[k]

\* RoundRobinLoadbalancer adds no instance twice when it adds those that are
\* not queued.
LEMMA FrontOfQueue ==
  ASSUME NEW q \in Seq(Nat), IsInjective(q),
         NEW new, new \subseteq Nat, IsFiniteSet(new), new \cap Queued(q) = {}
  PROVE  IsQueueWith(NewAtTheFront(q, new), q, new)
<1> DEFINE n == Cardinality(new)
           o == InOrder(new)
           t == Reverse(o)
           r == NewAtTheFront(q, new)
<1>1. n \in Nat
  BY FS_CardinalityType
<1>2. o \in Seq(new) /\ Len(o) = n /\ IsInjective(o) /\ Queued(o) = new
  BY OrderOfSet
<1>3. r = t \o q
  BY DEF NewAtTheFront
<1> HIDE DEF r, o, n
<1>4. /\ t \in Seq(Nat) /\ Len(t) = n /\ DOMAIN t = 1..n
      /\ \A k \in 1..n : t[k] = o[n - k + 1] /\ n - k + 1 \in 1..n
  <2>1. t = [k \in 1..n |-> o[n - k + 1]]
    BY <1>2 DEF Reverse
  <2>2. \A k \in 1..n : n - k + 1 \in 1..n
    BY <1>1
  <2>3. \A k \in 1..n : o[k] \in Nat
    <3>1. DOMAIN o = 1..n /\ \A k \in DOMAIN o : o[k] \in new
      BY <1>2
    <3>2. QED BY <3>1
  <2>4. t \in [1..n -> Nat]
    BY <2>1, <2>2, <2>3
  <2> HIDE DEF t
  <2>5. QED BY <2>1, <2>2, <2>4, <1>1
<1> HIDE DEF t
<1>5. \A k \in 1..n : t[k] \in new
  BY <1>2, <1>4
<1>6. \A i \in new : \E k \in 1..n : t[k] = i
  <2> SUFFICES ASSUME NEW i \in new PROVE \E k \in 1..n : t[k] = i
    OBVIOUS
  <2>1. PICK k \in 1..n : o[k] = i
    BY <1>2 DEF Queued
  <2>2. n - k + 1 \in 1..n /\ n - (n - k + 1) + 1 = k
    BY <1>1
  <2>3. t[n - k + 1] = i
    BY <1>4, <2>1, <2>2
  <2>4. QED BY <2>2, <2>3
<1>7. \A k, l \in 1..n : t[k] = t[l] => k = l
  <2> SUFFICES ASSUME NEW k \in 1..n, NEW l \in 1..n, t[k] = t[l] PROVE k = l
    OBVIOUS
  <2>1. n - k + 1 = n - l + 1
    BY <1>2, <1>4 DEF IsInjective
  <2>2. QED BY <2>1, <1>1
<1>8. /\ r \in Seq(Nat) /\ Len(r) = n + Len(q) /\ DOMAIN r = 1..(n + Len(q))
      /\ \A k \in 1..n : r[k] = t[k]
      /\ \A k \in DOMAIN q : r[n + k] = q[k] /\ n + k \in DOMAIN r
      /\ \A k \in DOMAIN r : k \in 1..n \/ (k - n \in DOMAIN q /\ r[k] = q[k - n])
  <2>1. r \in Seq(Nat) /\ Len(r) = n + Len(q) /\ Len(q) \in Nat
    BY <1>3, <1>4
  <2>2. DOMAIN r = 1..(n + Len(q)) /\ DOMAIN q = 1..Len(q)
    BY <2>1, <1>1
  <2>3. \A k \in 1..n : r[k] = t[k]
    BY <1>3, <1>4
  <2>4. \A k \in 1..Len(q) : r[n + k] = q[k] /\ n + k \in 1..(n + Len(q))
    <3> SUFFICES ASSUME NEW k \in 1..Len(q)
                 PROVE  r[n + k] = q[k] /\ n + k \in 1..(n + Len(q))
      OBVIOUS
    <3>1. n + k \in 1..(n + Len(q)) /\ ~(n + k <= n) /\ (n + k) - n = k
      BY <1>1, <2>1
    <3>2. \A j \in 1..(Len(t) + Len(q)) :
            (t \o q)[j] = IF j <= Len(t) THEN t[j] ELSE q[j - Len(t)]
      BY <1>4, SMTT(20)
    <3>3. r[n + k] = q[(n + k) - n]
      BY <1>3, <1>4, <3>1, <3>2
    <3>4. QED BY <3>1, <3>3
  <2>5. \A k \in 1..(n + Len(q)) : k \in 1..n \/ (k - n \in 1..Len(q) /\ n + (k - n) = k)
    BY <1>1, <2>1
  <2>6. \A k \in 1..(n + Len(q)) : k \in 1..n \/ (k - n \in 1..Len(q) /\ r[k] = q[k - n])
    BY <2>4, <2>5
  <2>7. QED BY <2>1, <2>2, <2>3, <2>4, <2>6
<1>9. IsInjective(r)
  <2> SUFFICES ASSUME NEW k \in DOMAIN r, NEW l \in DOMAIN r, r[k] = r[l] PROVE k = l
    BY DEF IsInjective
  <2>1. \A m \in DOMAIN q : q[m] \notin new
    BY DEF Queued
  <2>2. CASE k \in 1..n /\ l \in 1..n
    BY <2>2, <1>7, <1>8
  <2>3. CASE k \notin 1..n /\ l \notin 1..n
    <3> DEFINE a == k - n
               b == l - n
    <3>1. k - n \in DOMAIN q /\ l - n \in DOMAIN q /\ q[k - n] = q[l - n]
      BY <2>3, <1>8
    <3>2. a = b
      <4>1. a \in DOMAIN q /\ b \in DOMAIN q /\ q[a] = q[b]
        BY <3>1
      <4> HIDE DEF a, b
      <4>2. QED BY <4>1 DEF IsInjective
    <3>3. k \in Int /\ l \in Int
      BY <1>1, <1>8
    <3>4. QED BY <3>2, <3>3, <1>1
  <2>4. CASE k \in 1..n /\ l \notin 1..n
    BY <2>1, <2>4, <1>5, <1>8, SMTT(20)
  <2>5. CASE k \notin 1..n /\ l \in 1..n
    <3>1. r[l] \in new
      BY <2>5, <1>5, <1>8
    <3>2. k - n \in DOMAIN q /\ r[k] = q[k - n]
      BY <2>5, <1>8
    <3>3. r[k] \notin new
      BY <3>2, <2>1
    <3>4. QED BY <3>1, <3>3
  <2>6. QED BY <2>2, <2>3, <2>4, <2>5
<1>10. Queued(r) = new \cup Queued(q)
  <2>1. ASSUME NEW k \in DOMAIN r PROVE r[k] \in new \cup Queued(q)
    BY <1>5, <1>8 DEF Queued
  <2>2. ASSUME NEW i \in new PROVE \E k \in DOMAIN r : r[k] = i
    <3>1. PICK k \in 1..n : t[k] = i
      BY <1>6
    <3>2. k \in DOMAIN r /\ r[k] = i
      BY <3>1, <1>1, <1>8
    <3>3. QED BY <3>2
  <2>3. ASSUME NEW m \in DOMAIN q PROVE \E k \in DOMAIN r : r[k] = q[m]
    BY <1>8
  <2>4. Queued(r) \subseteq new \cup Queued(q)
    BY <2>1 DEF Queued
  <2>5. new \subseteq Queued(r)
    BY <2>2 DEF Queued
  <2>6. Queued(q) \subseteq Queued(r)
    BY <2>3 DEF Queued
  <2>7. QED BY <2>4, <2>5, <2>6
<1>11. QED BY <1>1, <1>5, <1>8, <1>9, <1>10 DEF IsQueueWith, n, r

\* What is left of a queue q whose first running instance is at f, which
\* returns to the end
IsRotation(r, q, f) ==
  /\ Len(r) = Len(q) - f + 1 /\ r[Len(r)] = q[f]
  /\ \A k \in 1..(Len(q) - f) : r[k] = q[f + k]

IsFirstRunning(q, f) ==
  /\ f \in DOMAIN q /\ IsRunning(q[f])
  /\ \A k \in DOMAIN q : k < f => ~IsRunning(q[k])

Less == {p \in Nat \X Nat : p[1] < p[2]}

\* A set of natural numbers has a smallest.
LEMMA SmallestInSet ==
  ASSUME NEW T, T \subseteq Nat, T # {} PROVE \E s \in T : \A r \in T : s <= r
<1>1. IsWellFoundedOn(Less, Nat)
  BY NatLessThanWellFounded DEF Less, OpToRel
<1>2. PICK s \in T : \A r \in T : ~(<<r, s>> \in Less)
  BY <1>1, WFMin
<1>3. ASSUME NEW r \in T PROVE s <= r
  <2>1. r \in Nat /\ s \in Nat /\ <<r, s>> \notin Less
    BY <1>2
  <2>2. <<r, s>>[1] = r /\ <<r, s>>[2] = s /\ <<r, s>> \in Nat \X Nat
    BY <2>1
  <2>3. ~(r < s)
    BY <2>1, <2>2 DEF Less
  <2>4. QED BY <2>1, <2>3
<1>4. QED BY <1>3

\* getNext of the round robin takes the first running instance and moves it to
\* the end.
LEMMA TurnOfQueue ==
  ASSUME NEW S, NEW q \in Seq(S), \E k \in DOMAIN q : IsRunning(q[k])
  PROVE  \E f \in DOMAIN q :
           /\ IsFirstRunning(q, f) /\ Head(FromRunning(q)) = q[f]
           /\ FromRunning(q) \in Seq(S) /\ Tail(FromRunning(q)) \in Seq(S)
           /\ Rotated(FromRunning(q)) \in Seq(S)
           /\ IsRotation(Rotated(FromRunning(q)), q, f)
<1> DEFINE I == {i \in 1..Len(q) : IsRunning(q[i])}
           f == SelectInSeq(q, IsRunning)
           next == FromRunning(q)
<1>1. I \subseteq Nat /\ I # {}
  OBVIOUS
<1>2. f \in I /\ \A k \in I : f <= k
  <2>1. f = CHOOSE s \in I : \A r \in I : s =< r
    BY <1>1 DEF SelectInSeq, Min
  <2>2. \E s \in I : \A r \in I : s =< r
    <3> HIDE DEF I
    <3>1. QED BY <1>1, SmallestInSet
  <2> HIDE DEF f, I
  <2>3. QED BY <2>1, <2>2
<1>3. next = SubSeq(q, f, Len(q))
  BY DEF FromRunning
<1> HIDE DEF f, next
<1>4. f \in 1..Len(q) /\ IsFirstRunning(q, f)
  BY <1>2 DEF IsFirstRunning
<1>5. /\ next \in Seq(S) /\ Len(next) = Len(q) - f + 1
      /\ \A k \in 1..(Len(q) - f + 1) : next[k] = q[f + k - 1]
  <2>1. f \in Int /\ Len(q) \in Int /\ \A k \in f..Len(q) : q[k] \in S
    BY <1>4
  <2>2. QED BY <1>3, <1>4, <2>1, SubSeqProperties
<1>6. next # <<>> /\ Head(next) = q[f] /\ next[1] = q[f]
  <2>1. 1 \in 1..(Len(q) - f + 1) /\ Len(next) # 0 /\ f + 1 - 1 = f
    BY <1>4, <1>5
  <2>2. QED BY <1>5, <2>1
<1>7. /\ Tail(next) \in Seq(S) /\ Len(Tail(next)) = Len(q) - f
      /\ \A k \in 1..(Len(q) - f) : Tail(next)[k] = q[f + k]
  <2>1. /\ Tail(next) \in Seq(S) /\ Len(Tail(next)) = Len(q) - f
        /\ \A k \in 1..(Len(q) - f) : Tail(next)[k] = next[k + 1]
    BY <1>4, <1>5, <1>6
  <2>2. \A k \in 1..(Len(q) - f) : k + 1 \in 1..(Len(q) - f + 1) /\ f + (k + 1) - 1 = f + k
    BY <1>4
  <2>3. QED BY <1>5, <2>1, <2>2
<1>8. Rotated(next) \in Seq(S) /\ IsRotation(Rotated(next), q, f)
  <2>1. q[f] \in S /\ f \in Nat /\ f <= Len(q)
    BY <1>4
  <2>2. Rotated(next) = Append(Tail(next), q[f])
    BY <1>6 DEF Rotated
  <2>3. ASSUME NEW t \in Seq(S), NEW e \in S
        PROVE  /\ Append(t, e) \in Seq(S) /\ Len(Append(t, e)) = Len(t) + 1
               /\ Append(t, e)[Len(t) + 1] = e
               /\ \A k \in 1..Len(t) : Append(t, e)[k] = t[k]
    OBVIOUS
  <2> DEFINE t == Tail(next)
  <2>4. t \in Seq(S) /\ Len(t) = Len(q) - f /\ Rotated(next) = Append(t, q[f])
    BY <1>7, <2>2
  <2> HIDE DEF t
  <2>5. /\ Append(t, q[f]) \in Seq(S) /\ Len(Append(t, q[f])) = Len(t) + 1
        /\ Append(t, q[f])[Len(t) + 1] = q[f]
        /\ \A k \in 1..Len(t) : Append(t, q[f])[k] = t[k]
    BY <2>1, <2>3, <2>4
  <2>6. /\ Rotated(next) \in Seq(S) /\ Len(Rotated(next)) = Len(q) - f + 1
        /\ Rotated(next)[Len(q) - f + 1] = q[f]
        /\ \A k \in 1..(Len(q) - f) : Rotated(next)[k] = t[k]
    BY <2>4, <2>5
  <2>7. QED BY <1>7, <2>6 DEF IsRotation, t
<1>9. f \in DOMAIN q
  BY <1>4
<1>10. QED BY <1>4, <1>5, <1>6, <1>7, <1>8, <1>9 DEF next

\* i is in q behind all of w.
Behind(q, i, w) ==
  \A k, l \in DOMAIN q : q[k] = i /\ q[l] \in w => l < k

LEMMA BehindWithNew ==
  ASSUME NEW q \in Seq(Nat), NEW new, NEW r, IsQueueWith(r, q, new),
         NEW i, NEW w, Behind(q, i, w), i \notin new
  PROVE  Behind(r, i, w)
<1> DEFINE n == Cardinality(new)
<1>1. /\ n \in Nat /\ DOMAIN r = 1..(n + Len(q)) /\ DOMAIN q = 1..Len(q) /\ Len(q) \in Nat
      /\ \A k \in 1..n : r[k] \in new
      /\ \A k \in 1..Len(q) : r[n + k] = q[k]
  BY DEF IsQueueWith
<1> HIDE DEF n
<1>2. \A k \in DOMAIN r : k \in Int /\ (k \in 1..n \/ (k > n /\ k - n \in 1..Len(q) /\ n + (k - n) = k))
  BY <1>1
<1> SUFFICES ASSUME NEW k \in DOMAIN r, NEW l \in DOMAIN r, r[k] = i, r[l] \in w
             PROVE  l < k
  BY DEF Behind
<1> DEFINE a == k - n
           b == l - n
<1>3. k \in Int /\ l \in Int /\ k > n /\ a \in 1..Len(q) /\ r[k] = q[a]
  BY <1>1, <1>2
<1>4. CASE l \in 1..n
  BY <1>1, <1>3, <1>4
<1>5. CASE l \notin 1..n
  <2>1. b \in 1..Len(q) /\ r[l] = q[b]
    BY <1>1, <1>2, <1>5
  <2>2. b < a
    <3> HIDE DEF a, b
    <3>1. QED BY <1>1, <1>3, <2>1 DEF Behind
  <2>3. QED BY <1>1, <1>3, <2>2
<1>6. QED BY <1>4, <1>5

\* A rotation holds what was queued from the first running instance on, once,
\* and keeps the order but for that instance.
LEMMA RotationKeeps ==
  ASSUME NEW q \in Seq(Nat), IsInjective(q), NEW f \in DOMAIN q,
         NEW r \in Seq(Nat), IsRotation(r, q, f)
  PROVE  /\ IsInjective(r) /\ Queued(r) = {q[k] : k \in f..Len(q)}
         /\ \A w : q[f] \notin w => Behind(r, q[f], w)
         /\ \A i, w : i # q[f] /\ q[f] \notin w /\ Behind(q, i, w) => Behind(r, i, w)
<1> DEFINE m == Len(r)
           place(k) == IF k = m THEN f ELSE f + k
<1>1. /\ f \in Nat /\ f >= 1 /\ Len(q) \in Nat /\ f <= Len(q) /\ DOMAIN q = 1..Len(q)
      /\ m = Len(q) - f + 1 /\ m \in Nat /\ DOMAIN r = 1..m /\ m >= 1
  BY DEF IsRotation
<1>2. r[m] = q[f] /\ \A k \in 1..(m - 1) : r[k] = q[f + k] /\ f + k \in DOMAIN q /\ f + k # f
  <2>1. m - 1 = Len(q) - f
    BY <1>1
  <2>2. \A k \in 1..(m - 1) : f + k \in 1..Len(q) /\ f + k # f
    BY <1>1, SMTT(20)
  <2>3. QED BY <1>1, <2>1, <2>2 DEF IsRotation
<1>3. \A k \in DOMAIN r : k = m \/ k \in 1..(m - 1)
  BY <1>1
<1> HIDE DEF m
<1>4. \A k \in 1..(m - 1) : r[k] # q[f]
  BY <1>2 DEF IsInjective
<1>5. ASSUME NEW k \in 1..(m - 1), NEW l \in 1..(m - 1), r[k] = r[l] PROVE k = l
  <2>1. f + k \in DOMAIN q /\ f + l \in DOMAIN q /\ q[f + k] = q[f + l]
    BY <1>2, <1>5
  <2>2. \A a, b \in DOMAIN q : q[a] = q[b] => a = b
    BY DEF IsInjective
  <2>3. f + k = f + l
    BY <2>1, <2>2
  <2>4. QED BY <2>3, <1>1
<1>6. IsInjective(r)
  BY <1>2, <1>3, <1>4, <1>5 DEF IsInjective
<1>7. Queued(r) = {q[k] : k \in f..Len(q)}
  <2>1. ASSUME NEW k \in DOMAIN r PROVE \E l \in f..Len(q) : r[k] = q[l]
    <3>1. CASE k = m
      BY <3>1, <1>1, <1>2
    <3>2. CASE k \in 1..(m - 1)
      <4>1. f + k \in f..Len(q)
        BY <3>2, <1>1, SMTT(20)
      <4>2. QED BY <3>2, <4>1, <1>2
    <3>3. QED BY <3>1, <3>2, <1>3
  <2>2. ASSUME NEW l \in f..Len(q) PROVE \E k \in DOMAIN r : r[k] = q[l]
    <3>1. CASE l = f
      BY <3>1, <1>1, <1>2
    <3>2. CASE l # f
      <4>1. l - f \in 1..(m - 1) /\ f + (l - f) = l /\ l - f \in DOMAIN r
        BY <3>2, <1>1, SMTT(20)
      <4>2. QED BY <4>1, <1>2
    <3>3. QED BY <3>1, <3>2
  <2>3. \A i \in Queued(r) : i \in {q[k] : k \in f..Len(q)}
    BY <2>1 DEF Queued
  <2>4. \A i \in {q[k] : k \in f..Len(q)} : i \in Queued(r)
    BY <2>2 DEF Queued
  <2>5. QED BY <2>3, <2>4
<1>8. ASSUME NEW w, q[f] \notin w PROVE Behind(r, q[f], w)
  <2> SUFFICES ASSUME NEW k \in DOMAIN r, NEW l \in DOMAIN r, r[k] = q[f], r[l] \in w
               PROVE  l < k
    BY DEF Behind
  <2>1. k = m
    BY <1>3, <1>4
  <2>2. l \in 1..(m - 1)
    BY <1>2, <1>3, <1>8
  <2>3. QED BY <2>1, <2>2, <1>1
<1>9. ASSUME NEW i, NEW w, i # q[f], q[f] \notin w, Behind(q, i, w) PROVE Behind(r, i, w)
  <2> SUFFICES ASSUME NEW k \in DOMAIN r, NEW l \in DOMAIN r, r[k] = i, r[l] \in w
               PROVE  l < k
    BY DEF Behind
  <2>1. k \in 1..(m - 1) /\ l \in 1..(m - 1)
    BY <1>2, <1>3, <1>9
  <2>2. f + l < f + k
    BY <2>1, <1>2, <1>9 DEF Behind
  <2>3. QED BY <2>1, <2>2, <1>1
<1>10. QED BY <1>6, <1>7, <1>8, <1>9

-----------------------------------------------------------------------------
(* The strategies.                                                         *)

\* What a request finds
Asked == ClusterInvariant /\ BalancerInvariant /\ NothingUrgent

LEMMA AskedFacts ==
  ASSUME Asked
  PROVE  /\ ID \subseteq Nat /\ NoInstance \notin ID /\ NoChoice \notin ID
         /\ RunningInstances \subseteq ID /\ IsFiniteSet(RunningInstances)
         /\ \A i \in ID : IsRunning(i) <=> i \in RunningInstances
<1>1. state \in Seq(States) /\ instances \subseteq ID
  BY DEF Asked, ClusterInvariant, ClusterTypeOK
<1>2. ID = 1..Len(state) /\ Len(state) \in Nat
  BY <1>1 DEF ID
<1>3. ID \subseteq Nat /\ NoInstance \notin ID /\ NoChoice \notin ID /\ IsFiniteSet(ID)
  <2>1. IsFiniteSet(1..Len(state))
    BY <1>2, FS_Interval
  <2>2. QED BY <1>2, <2>1 DEF NoInstance, NoChoice
<1>4. RunningInstances \subseteq ID
  BY <1>1 DEF RunningInstances
<1>5. instances = {i \in ID : state[i] = "RUNNING"}
  BY RunningIfNothingUrgent DEF Asked, InstancesAreRunning
<1>6. \A i \in ID : IsRunning(i) <=> i \in RunningInstances
  BY <1>5 DEF IsRunning, RunningInstances
<1>7. QED BY <1>3, <1>4, <1>6, FS_Subset

\* What is discarded of a queue is what a rotation leaves out, or all of it.
LEMMA DiscardedIsBefore ==
  ASSUME NEW q \in Seq(Nat), IsInjective(q)
  PROVE  /\ (\A k \in DOMAIN q : ~IsRunning(q[k])) => Queued(q) \ Discarded(q) = {}
         /\ \A f \in DOMAIN q : IsFirstRunning(q, f) =>
              Queued(q) \ Discarded(q) = {q[k] : k \in f..Len(q)}
<1> DEFINE D == {l \in DOMAIN q : \A j \in 1..l : ~IsRunning(q[j])}
<1>1. DOMAIN q = 1..Len(q) /\ Len(q) \in Nat
  OBVIOUS
<1>2. ASSUME NEW k \in DOMAIN q PROVE q[k] \in Discarded(q) <=> k \in D
  BY DEF Discarded, IsInjective
<1>3. ASSUME \A k \in DOMAIN q : ~IsRunning(q[k]) PROVE \A k \in DOMAIN q : k \in D
  BY <1>1, <1>3
<1>4. ASSUME NEW f \in DOMAIN q, IsFirstRunning(q, f)
      PROVE  \A k \in DOMAIN q : k \in D <=> k < f
  BY <1>1, <1>4 DEF IsFirstRunning
<1> HIDE DEF D
<1>5. ASSUME \A k \in DOMAIN q : ~IsRunning(q[k]) PROVE Queued(q) \ Discarded(q) = {}
  BY <1>2, <1>3, <1>5 DEF Queued
<1>6. ASSUME NEW f \in DOMAIN q, IsFirstRunning(q, f)
      PROVE  Queued(q) \ Discarded(q) = {q[k] : k \in f..Len(q)}
  <2>1. ASSUME NEW i \in Queued(q), i \notin Discarded(q) PROVE i \in {q[k] : k \in f..Len(q)}
    <3>1. PICK k \in DOMAIN q : q[k] = i
      BY <2>1 DEF Queued
    <3>2. k \in f..Len(q)
      BY <1>1, <1>2, <1>4, <1>6, <2>1, <3>1
    <3>3. QED BY <3>1, <3>2
  <2>2. ASSUME NEW k \in f..Len(q) PROVE q[k] \in Queued(q) /\ q[k] \notin Discarded(q)
    <3>1. k \in DOMAIN q /\ ~(k < f)
      BY <1>1
    <3>2. QED BY <1>2, <1>4, <1>6, <3>1 DEF Queued
  <2>3. QED BY <2>1, <2>2
<1>7. QED BY <1>5, <1>6

\* The first running instance of q is chosen and moved to the end.
TakesTurn(q, f) ==
  /\ f \in DOMAIN q /\ IsFirstRunning(q, f) /\ IsRotation(queue', q, f)
  /\ queue' \in Seq(Nat) /\ queued' = Queued(queue')
  /\ Choice(q[f])

NoTurn(q) ==
  /\ \A k \in DOMAIN q : ~IsRunning(q[k])
  /\ queue' = <<>> /\ queued' = {} /\ chosen' = NoInstance /\ waits' = waits

LEMMA RoundRobinTurn ==
  ASSUME Asked, RoundRobin
  PROVE  LET new == RunningInstances \ queued
             q == NewAtTheFront(queue, new)
         IN  /\ queue \in Seq(Nat) /\ Queued(queue) = queued
             /\ IsQueueWith(q, queue, new)
             /\ NoTurn(q) \/ \E f \in DOMAIN q : TakesTurn(q, f)
<1> DEFINE new == RunningInstances \ queued
           q == NewAtTheFront(queue, new)
<1>1. strategy = "round_robin" /\ queue \in Seq(ID)
  BY DEF Asked, BalancerInvariant, TypeOK, RoundRobin
<1>2. queue \in Seq(Nat)
  <2>1. ID \subseteq Nat
    BY AskedFacts
  <2>2. QED BY <1>1, <2>1, SeqOfMore
<1>3. queued = Queued(queue) /\ Len(queue) = Cardinality(queued)
  BY <1>1 DEF Asked, BalancerInvariant, QueueIsQueued, Queued
<1>4. IsInjective(queue)
  BY <1>2, <1>3, DistinctByLen
<1>5. new \subseteq Nat /\ IsFiniteSet(new) /\ new \cap Queued(queue) = {}
  BY <1>3, AskedFacts, FS_Subset
<1>6. IsQueueWith(q, queue, new)
  BY <1>2, <1>4, <1>5, FrontOfQueue
<1>7. q \in Seq(Nat)
  BY <1>6 DEF IsQueueWith
<1>8. IF \E k \in DOMAIN q : IsRunning(q[k])
      THEN Choice(Head(FromRunning(q))) /\ queue' = Rotated(FromRunning(q))
      ELSE queue' = <<>> /\ chosen' = NoInstance /\ waits' = waits
  BY DEF RoundRobin
<1>11. queued' = Queued(q) \ Discarded(q) /\ IsInjective(q)
  <2>1. queued' = (queued \cup RunningInstances) \ Discarded(q)
    BY DEF RoundRobin
  <2>2. Queued(q) = new \cup queued /\ IsInjective(q)
    BY <1>3, <1>6 DEF IsQueueWith
  <2> HIDE DEF q
  <2>3. QED BY <2>1, <2>2
<1> HIDE DEF q, new
<1>9. CASE \E k \in DOMAIN q : IsRunning(q[k])
  <2>1. PICK f \in DOMAIN q :
          /\ IsFirstRunning(q, f) /\ Head(FromRunning(q)) = q[f]
          /\ Rotated(FromRunning(q)) \in Seq(Nat)
          /\ IsRotation(Rotated(FromRunning(q)), q, f)
    BY <1>7, <1>9, TurnOfQueue
  <2>2. queued' = Queued(queue')
    <3>1. queued' = {q[k] : k \in f..Len(q)}
      BY <1>7, <1>11, <2>1, DiscardedIsBefore
    <3>2. QED BY <1>7, <1>8, <1>9, <1>11, <2>1, <3>1, RotationKeeps
  <2>3. TakesTurn(q, f)
    BY <1>8, <1>9, <2>1, <2>2 DEF TakesTurn
  <2>4. QED BY <1>2, <1>3, <1>6, <2>3 DEF q, new
<1>10. CASE ~(\E k \in DOMAIN q : IsRunning(q[k]))
  <2>1. NoTurn(q)
    BY <1>7, <1>8, <1>10, <1>11, DiscardedIsBefore DEF NoTurn
  <2>2. QED BY <1>2, <1>3, <1>6, <2>1 DEF q, new
<1>12. QED BY <1>9, <1>10

\* What is queued when instances are added: all that run, and behind them
\* those that had their turn
LEMMA QueueWithNew ==
  ASSUME Asked, strategy = "round_robin",
         NEW q, queue \in Seq(Nat), Queued(queue) = queued,
         IsQueueWith(q, queue, RunningInstances \ queued)
  PROVE  /\ q \in Seq(Nat) /\ IsInjective(q)
         /\ RunningInstances \subseteq Queued(q) /\ Queued(q) \subseteq ID
         /\ \A i \in DOMAIN waits : i \in ID /\ Behind(q, i, waits[i])
<1> DEFINE new == RunningInstances \ queued
<1>1. q \in Seq(Nat) /\ IsInjective(q) /\ Queued(q) = new \cup Queued(queue)
  BY DEF IsQueueWith
<1>2. queued \subseteq ID /\ DOMAIN waits \subseteq ID /\ TurnsInOrder
  BY DEF Asked, BalancerInvariant, TypeOK
<1>3. RunningInstances \subseteq Queued(q) /\ Queued(q) \subseteq ID
  BY <1>1, <1>2, AskedFacts
<1>4. ASSUME NEW i \in DOMAIN waits PROVE Behind(q, i, waits[i])
  <2>1. Behind(queue, i, waits[i])
    BY <1>2 DEF TurnsInOrder, Behind
  <2>2. i \in RunningInstances => i \in queued
    BY <1>2 DEF TurnsInOrder, RunningInstances
  <2>3. QED BY <2>1, <2>2, BehindWithNew
<1>5. QED BY <1>1, <1>2, <1>3, <1>4

\* Choice records whose turn it was.
LEMMA ChoiceOfTurn ==
  ASSUME strategy = "round_robin", NEW c, Choice(c)
  PROVE  /\ chosen' = c /\ DOMAIN waits' = DOMAIN waits \cup {c}
         /\ waits'[c] = RunningInstances \ {c}
         /\ \A i \in DOMAIN waits : i # c => waits'[i] = waits[i] \ {c}
BY DEF Choice

\* What a request leaves alone
LEMMA AskedStays ==
  ASSUME Asked, GetNextInstance
  PROVE  /\ ClusterInvariant' /\ UNCHANGED <<state, strategy>> /\ ID' = ID
         /\ RunningInstances' = RunningInstances
<1>1. UNCHANGED clusterVars /\ UNCHANGED strategy
  BY DEF GetNextInstance
<1>2. QED BY <1>1 DEF Asked, clusterVars, ClusterInvariant, ClusterTypeOK, ID, NeverContradicted,
                      RunningInstances

LEMMA RoundRobinFits ==
  ASSUME Asked, GetNextInstance, RoundRobin
  PROVE  BalancerInvariant' /\ ChoosesRunningIfFresh'
<1> DEFINE new == RunningInstances \ queued
           q == NewAtTheFront(queue, new)
<1>1. /\ queue \in Seq(Nat) /\ Queued(queue) = queued /\ IsQueueWith(q, queue, new)
      /\ NoTurn(q) \/ \E f \in DOMAIN q : TakesTurn(q, f)
  BY RoundRobinTurn
<1>2. strategy = "round_robin" /\ distribution' = distribution
  BY DEF RoundRobin
<1> HIDE DEF q
<1>3. /\ q \in Seq(Nat) /\ IsInjective(q)
      /\ RunningInstances \subseteq Queued(q) /\ Queued(q) \subseteq ID
      /\ \A i \in DOMAIN waits : i \in ID /\ Behind(q, i, waits[i])
  BY <1>1, <1>2, QueueWithNew
<1>4. /\ ClusterTypeOK' /\ state' = state /\ strategy' = strategy /\ ID' = ID
      /\ RunningInstances' = RunningInstances
  BY AskedStays DEF ClusterInvariant
<1>5. /\ TypeOK /\ TurnsInOrder
      /\ \A i \in ID : IsRunning(i) <=> i \in RunningInstances
      /\ ID \subseteq Nat /\ RunningInstances \subseteq ID /\ NoInstance \notin ID
  BY AskedFacts DEF Asked, BalancerInvariant
<1>6. CASE NoTurn(q)
  <2>1. queue' = <<>> /\ queued' = {} /\ chosen' = NoInstance /\ waits' = waits
    BY <1>6 DEF NoTurn
  <2>2. RunningInstances = {}
    BY <1>3, <1>5, <1>6 DEF NoTurn, Queued
  <2>3. TypeOK'
    BY <1>2, <1>4, <1>5, <2>1 DEF TypeOK
  <2>4. QueueIsQueued'
    <3>1. {queue'[k] : k \in DOMAIN queue'} = {} /\ Len(queue') = 0
      BY <2>1
    <3>2. QED BY <2>1, <3>1, FS_EmptySet DEF QueueIsQueued
  <2>5. TurnsInOrder'
    <3>1. \A i \in ID : state[i] # "RUNNING"
      BY <1>5, <2>2 DEF IsRunning
    <3>2. QED BY <1>2, <1>3, <1>4, <1>5, <2>1, <3>1 DEF TurnsInOrder
  <2>6. ChoosesRunningIfFresh'
    BY <1>4, <1>5, <2>1, <2>2 DEF ChoosesRunningIfFresh
  <2>7. QED BY <2>3, <2>4, <2>5, <2>6 DEF BalancerInvariant
<1>7. ASSUME NEW f \in DOMAIN q, TakesTurn(q, f)
      PROVE  BalancerInvariant' /\ ChoosesRunningIfFresh'
  <2> DEFINE c == q[f]
             r == queue'
  <2>1. /\ IsFirstRunning(q, f) /\ IsRotation(r, q, f) /\ r \in Seq(Nat)
        /\ queued' = Queued(r) /\ Choice(c)
    BY <1>7 DEF TakesTurn
  <2>2. /\ IsInjective(r) /\ Queued(r) = {q[k] : k \in f..Len(q)}
        /\ \A w : c \notin w => Behind(r, c, w)
        /\ \A i, w : i # c /\ c \notin w /\ Behind(q, i, w) => Behind(r, i, w)
    BY <1>3, <1>7, <2>1, RotationKeeps
  <2>3. c \in ID /\ c \in RunningInstances
    <3>1. c \in Queued(q) /\ IsRunning(c)
      BY <1>7, <2>1 DEF IsFirstRunning, Queued
    <3>2. QED BY <1>3, <1>5, <3>1
  <2> HIDE DEF c
  <2>4. /\ chosen' = c /\ DOMAIN waits' = DOMAIN waits \cup {c}
        /\ waits'[c] = RunningInstances \ {c}
        /\ \A i \in DOMAIN waits : i # c => waits'[i] = waits[i] \ {c}
    BY <1>2, <2>1, ChoiceOfTurn
  <2>5. r \in Seq(ID) /\ Queued(r) \subseteq ID
    <3>1. \A k \in f..Len(q) : q[k] \in Queued(q)
      BY <1>3, <1>7 DEF Queued
    <3>2. Queued(r) \subseteq ID
      BY <1>3, <2>2, <3>1
    <3>3. \A k \in 1..Len(r) : r[k] \in ID
      BY <2>1, <3>2 DEF Queued
    <3>4. r = [k \in 1..Len(r) |-> r[k]] /\ Len(r) \in Nat
      BY <2>1
    <3>5. QED BY <3>2, <3>3, <3>4
  <2>6. TypeOK'
    <3>1. queue' \in Seq(ID') /\ queued' \subseteq ID'
      BY <1>4, <2>1, <2>5
    <3>2. DOMAIN waits' \subseteq ID' /\ \A i \in DOMAIN waits' : waits'[i] \subseteq ID'
      BY <1>4, <1>5, <2>3, <2>4 DEF TypeOK
    <3>3. strategy' \in Used /\ DOMAIN distribution' \subseteq ID'
          /\ (\A i \in DOMAIN distribution' : distribution'[i] \in Nat) /\ chosen' \in ID'
      BY <1>2, <1>4, <1>5, <2>3, <2>4 DEF TypeOK
    <3>4. QED BY <1>4, <3>1, <3>2, <3>3 DEF TypeOK
  <2>7. QueueIsQueued'
    <3>1. Len(r) = Cardinality(Queued(r))
      BY <2>1, <2>2, LenOfDistinct
    <3>2. QED BY <2>1, <3>1 DEF QueueIsQueued, Queued
  <2>8. TurnsInOrder'
    <3> SUFFICES ASSUME NEW i \in DOMAIN waits'
                 PROVE  /\ state[i] # "CREATED" /\ (state[i] = "RUNNING" => i \in queued')
                        /\ Behind(r, i, waits'[i])
      BY <1>4 DEF TurnsInOrder, Behind
    <3>1. i \in ID /\ state[i] # "CREATED"
      BY <1>2, <1>3, <1>5, <2>3, <2>4 DEF TurnsInOrder, RunningInstances
    <3>2. ASSUME state[i] = "RUNNING" PROVE i \in queued'
      <4>1. i \in Queued(q) /\ IsRunning(i)
        BY <1>3, <1>5, <3>1, <3>2 DEF IsRunning
      <4>2. PICK k \in DOMAIN q : q[k] = i
        BY <4>1 DEF Queued
      <4>3. ~(k < f) /\ k \in 1..Len(q) /\ f \in 1..Len(q)
        BY <1>3, <1>7, <2>1, <4>1, <4>2 DEF IsFirstRunning
      <4>4. k \in f..Len(q)
        BY <4>3
      <4>5. QED BY <2>1, <2>2, <4>2, <4>4
    <3>3. Behind(r, i, waits'[i])
      <4>1. CASE i = c
        BY <2>2, <2>4, <4>1
      <4>2. CASE i # c
        <5>1. Behind(q, i, waits[i]) /\ waits'[i] = waits[i] \ {c}
          BY <1>3, <2>4, <4>2
        <5>2. Behind(q, i, waits'[i])
          BY <5>1 DEF Behind
        <5>3. QED BY <2>2, <4>2, <5>1, <5>2
      <4>3. QED BY <4>1, <4>2
    <3>4. QED BY <3>1, <3>2, <3>3
  <2>9. ChoosesRunningIfFresh'
    <3>1. chosen' \in RunningInstances' /\ chosen' # NoInstance
      BY <1>4, <1>5, <2>3, <2>4
    <3>2. QED BY <3>1 DEF ChoosesRunningIfFresh, RunningInstances
  <2>10. QED BY <2>6, <2>7, <2>8, <2>9 DEF BalancerInvariant
<1>8. QED BY <1>1, <1>6, <1>7

\* The other strategies leave the round robin alone.
LEMMA OthersKeepTurns ==
  ASSUME Asked, GetNextInstance, strategy # "round_robin"
  PROVE  QueueIsQueued' /\ TurnsInOrder'
BY AskedStays DEF QueueIsQueued, TurnsInOrder

LEMMA ChoiceFits ==
  ASSUME Asked, GetNextInstance, strategy # "round_robin",
         NEW c \in {NoInstance} \cup ID, Choice(c),
         queue' \in Seq(ID), queued' = queued,
         DOMAIN distribution' \subseteq ID,
         \A i \in DOMAIN distribution' : distribution'[i] \in Nat
  PROVE  BalancerInvariant'
<1>1. /\ ClusterTypeOK' /\ UNCHANGED <<state, strategy>> /\ ID' = ID
  BY AskedStays DEF ClusterInvariant
<1>2. chosen' = c /\ waits' = waits
  BY DEF Choice
<1>3. TypeOK'
  BY <1>1, <1>2 DEF Asked, BalancerInvariant, TypeOK
<1>4. QED BY <1>3, OthersKeepTurns DEF BalancerInvariant

\* A choice among the running instances keeps to the interface.
LEMMA GoodChoice ==
  ASSUME Asked, GetNextInstance, NEW c, Choice(c),
         c \in RunningInstances \/ (RunningInstances = {} /\ c = NoInstance)
  PROVE  ChoosesRunningIfFresh'
<1>1. /\ RunningInstances' = RunningInstances /\ chosen' = c
  BY AskedStays DEF Choice
<1>2. NoInstance \notin ID /\ RunningInstances \subseteq ID /\ ID' = ID
  BY AskedFacts, AskedStays
<1>3. c = NoInstance => RunningInstances' = {}
  BY <1>1, <1>2
<1>4. c \in ID' /\ state'[c] # "RUNNING" => FALSE
  BY <1>1, <1>2 DEF RunningInstances
<1>5. QED BY <1>1, <1>3, <1>4 DEF ChoosesRunningIfFresh

LEMMA RandomFits ==
  ASSUME Asked, GetNextInstance, Random \/ Utilization
  PROVE  BalancerInvariant' /\ ChoosesRunningIfFresh'
<1>1. /\ strategy # "round_robin" /\ UNCHANGED <<queue, queued, distribution>>
      /\ \E c : /\ Choice(c)
                /\ c \in RunningInstances \/ (RunningInstances = {} /\ c = NoInstance)
  BY DEF Random, Utilization
<1>2. PICK c : /\ Choice(c)
               /\ c \in RunningInstances \/ (RunningInstances = {} /\ c = NoInstance)
  BY <1>1
<1>3. TypeOK
  BY DEF Asked, BalancerInvariant
<1>4. c \in {NoInstance} \cup ID
  BY <1>2, AskedFacts
<1>5. QED BY <1>1, <1>2, <1>3, <1>4, ChoiceFits, GoodChoice DEF TypeOK

\* EvenLoadBalanceStrategy never counts below zero.
LEMMA EvenFits ==
  ASSUME Asked, GetNextInstance, Even
  PROVE  BalancerInvariant' /\ ChoosesRunningIfFresh'
<1> DEFINE running == RunningInstances
           known == IF Cardinality(DOMAIN distribution) = Cardinality(running)
                    THEN distribution ELSE [i \in running |-> 0]
           next(i) == [known EXCEPT ![i] = @ + 1]
<1>1. /\ strategy = "even" /\ UNCHANGED <<queue, queued>>
      /\ IF known = <<>>
         THEN distribution' = known /\ Choice(NoInstance)
         ELSE \E i \in DOMAIN known :
                /\ distribution' =
                     IF \A j \in DOMAIN next(i) : next(i)[j] > 0
                     THEN [j \in DOMAIN next(i) |-> next(i)[j] - 1] ELSE next(i)
                /\ Choice(i)
  BY DEF Even
<1>2. TypeOK /\ running \subseteq ID /\ IsFiniteSet(running) /\ NoInstance \notin ID
  BY AskedFacts DEF Asked, BalancerInvariant
<1>3. /\ DOMAIN known \subseteq ID /\ \A j \in DOMAIN known : known[j] \in Nat
      /\ Cardinality(DOMAIN known) = Cardinality(running)
  <2>1. CASE Cardinality(DOMAIN distribution) = Cardinality(running)
    BY <1>2, <2>1 DEF TypeOK
  <2>2. CASE Cardinality(DOMAIN distribution) # Cardinality(running)
    <3>1. known = [i \in running |-> 0]
      BY <2>2
    <3> HIDE DEF known
    <3>2. QED BY <1>2, <3>1
  <2>3. QED BY <2>1, <2>2
<1> HIDE DEF known, running
<1>4. CASE known = <<>>
  <2>1. distribution' = known /\ Choice(NoInstance)
    BY <1>1, <1>4
  <2>2. DOMAIN known = {}
    BY <1>4
  <2>3. running = {}
    BY <1>2, <1>3, <2>2, FS_EmptySet
  <2>4. ChoosesRunningIfFresh'
    BY <2>1, <2>3, GoodChoice DEF running
  <2>5. BalancerInvariant'
    BY <1>1, <1>2, <1>3, <2>1, ChoiceFits DEF TypeOK
  <2>6. QED BY <2>4, <2>5
<1>5. ASSUME NEW i \in DOMAIN known,
             distribution' =
               IF \A j \in DOMAIN next(i) : next(i)[j] > 0
               THEN [j \in DOMAIN next(i) |-> next(i)[j] - 1] ELSE next(i),
             Choice(i)
      PROVE  BalancerInvariant' /\ ChoosesRunningIfFresh'
  <2>1. DOMAIN next(i) = DOMAIN known /\ \A j \in DOMAIN known : next(i)[j] \in Nat
    BY <1>3
  <2> DEFINE after == next(i)
  <2>2. /\ DOMAIN after = DOMAIN known /\ \A j \in DOMAIN known : after[j] \in Nat
        /\ distribution' = IF \A j \in DOMAIN after : after[j] > 0
                           THEN [j \in DOMAIN after |-> after[j] - 1] ELSE after
    BY <1>5, <2>1
  <2> HIDE DEF next, after
  <2>3. DOMAIN distribution' = DOMAIN known /\ \A j \in DOMAIN known : distribution'[j] \in Nat
    <3>1. CASE \A j \in DOMAIN after : after[j] > 0
      <4>1. distribution' = [j \in DOMAIN after |-> after[j] - 1]
        BY <2>2, <3>1
      <4>2. \A j \in DOMAIN known : after[j] - 1 \in Nat
        BY <2>2, <3>1
      <4>3. QED BY <2>2, <4>1, <4>2
    <3>2. CASE ~(\A j \in DOMAIN after : after[j] > 0)
      BY <2>2, <3>2
    <3>3. QED BY <3>1, <3>2
  <2>4. BalancerInvariant'
    BY <1>1, <1>2, <1>3, <1>5, <2>3, ChoiceFits DEF TypeOK
  <2>5. strategy' = "even" /\ RunningInstances' = running /\ chosen' = i /\ chosen' # NoInstance
    BY <1>1, <1>2, <1>3, <1>5, AskedStays DEF Choice, running
  <2>6. Cardinality(DOMAIN distribution') = Cardinality(RunningInstances')
    BY <1>3, <2>3, <2>5
  <2>7. ChoosesRunningIfFresh'
    BY <2>5, <2>6 DEF ChoosesRunningIfFresh
  <2>8. QED BY <2>4, <2>7
<1>6. QED BY <1>1, <1>4, <1>5

LEMMA QuickRoundRobinFits ==
  ASSUME Asked, GetNextInstance, QuickRoundRobin
  PROVE  BalancerInvariant' /\ ChoosesRunningIfFresh'
<1> DEFINE q == IF queue = <<>> THEN InOrder(RunningInstances) ELSE queue
<1>1. /\ strategy = "round_robin_fast" /\ UNCHANGED <<queued, distribution>>
      /\ IF \E k \in DOMAIN q : IsRunning(q[k])
         THEN Choice(Head(FromRunning(q))) /\ queue' = Tail(FromRunning(q))
         ELSE queue' = <<>> /\ Choice(NoInstance)
  BY DEF QuickRoundRobin
<1>2. /\ TypeOK /\ RunningInstances \subseteq ID /\ IsFiniteSet(RunningInstances)
      /\ ID \subseteq Nat /\ NoInstance \notin ID
      /\ \A i \in ID : IsRunning(i) <=> i \in RunningInstances
  BY AskedFacts DEF Asked, BalancerInvariant
<1>3. q \in Seq(ID)
  <2>1. InOrder(RunningInstances) \in Seq(ID)
    <3>1. InOrder(RunningInstances) \in Seq(RunningInstances)
      BY <1>2, OrderOfSet
    <3>2. QED BY <1>2, <3>1, SeqOfMore
  <2>2. queue \in Seq(ID)
    BY <1>2 DEF TypeOK
  <2>3. QED BY <2>1, <2>2
<1> HIDE DEF q
<1>4. CASE \E k \in DOMAIN q : IsRunning(q[k])
  <2>1. PICK f \in DOMAIN q :
          /\ IsFirstRunning(q, f) /\ Head(FromRunning(q)) = q[f]
          /\ Tail(FromRunning(q)) \in Seq(ID)
    BY <1>3, <1>4, TurnOfQueue
  <2>2. Choice(q[f]) /\ queue' \in Seq(ID)
    BY <1>1, <1>4, <2>1
  <2>3. q[f] \in ID /\ q[f] \in RunningInstances
    <3>1. q[f] \in ID
      BY <1>3, <2>1
    <3>2. QED BY <1>2, <2>1, <3>1 DEF IsFirstRunning
  <2>4. BalancerInvariant'
    BY <1>1, <1>2, <2>2, <2>3, ChoiceFits DEF TypeOK
  <2>5. QED BY <2>2, <2>3, <2>4, GoodChoice
<1>5. CASE ~(\E k \in DOMAIN q : IsRunning(q[k]))
  <2>1. queue' = <<>> /\ Choice(NoInstance)
    BY <1>1, <1>5
  <2>2. BalancerInvariant'
    BY <1>1, <1>2, <2>1, ChoiceFits DEF TypeOK
  <2>3. strategy' = "round_robin_fast" /\ chosen' = NoInstance /\ ID' = ID
    BY <1>1, <2>1, AskedStays DEF Choice
  <2>4. ChoosesRunningIfFresh'
    BY <1>2, <2>3 DEF ChoosesRunningIfFresh
  <2>5. QED BY <2>2, <2>4
<1>6. QED BY <1>4, <1>5

-----------------------------------------------------------------------------
(* The steps, and the theorems.                                            *)

LEMMA RequestIsBalanced ==
  ASSUME ClusterInvariant, BalancerInvariant, GetNextInstance
  PROVE  ClusterInvariant' /\ BalancerInvariant' /\ ChoosesRunningIfFresh'
<1>1. Asked
  BY DEF Asked, GetNextInstance
<1>2. ClusterInvariant'
  BY <1>1, AskedStays
<1>3. Random \/ Utilization \/ Even \/ RoundRobin \/ QuickRoundRobin
  BY DEF GetNextInstance
<1>4. QED BY <1>1, <1>2, <1>3, RandomFits, EvenFits, RoundRobinFits, QuickRoundRobinFits

LEMMA ClusterGoesOn ==
  ASSUME ClusterInvariant, BalancerInvariant,
         [ClusterNext]_clusterVars, UNCHANGED <<strategy, balancer>>,
         chosen' = NoChoice
  PROVE  ClusterInvariant' /\ BalancerInvariant' /\ ChoosesRunningIfFresh'
<1>1. ClusterInvariant' /\ StaysStarted(state, state')
  BY ClusterStepFits, OnceStarted
<1>2. UNCHANGED <<strategy, queue, queued, distribution, waits>> /\ chosen' = NoChoice
  BY DEF balancer
<1>3. /\ ID \subseteq ID'
      /\ \A i \in ID : state[i] # "CREATED" =>
           state'[i] # "CREATED" /\ (state'[i] = "RUNNING" => state[i] = "RUNNING")
  BY <1>1 DEF StaysStarted, ID
<1>4. TypeOK'
  <2>1. TypeOK /\ ClusterTypeOK'
    BY <1>1 DEF BalancerInvariant, ClusterInvariant
  <2>2. queue' \in Seq(ID')
    BY <1>2, <1>3, <2>1, SeqOfMore DEF TypeOK
  <2>3. QED BY <1>2, <1>3, <2>1, <2>2 DEF TypeOK
<1>5. QueueIsQueued'
  BY <1>2 DEF BalancerInvariant, QueueIsQueued
<1>6. TurnsInOrder'
  <2>1. DOMAIN waits \subseteq ID /\ TurnsInOrder
    BY DEF BalancerInvariant, TypeOK
  <2>2. QED BY <1>2, <1>3, <2>1 DEF TurnsInOrder
<1>7. ChoosesRunningIfFresh'
  <2>1. state' \in Seq(States)
    BY <1>1 DEF ClusterInvariant, ClusterTypeOK
  <2>2. chosen' \notin ID' /\ chosen' # NoInstance
    BY <1>2, <2>1 DEF ID, NoChoice, NoInstance
  <2>3. QED BY <2>2 DEF ChoosesRunningIfFresh
<1>8. QED BY <1>1, <1>4, <1>5, <1>6, <1>7 DEF BalancerInvariant

\* What every reachable state satisfies
LoadBalancingInvariant == ClusterInvariant /\ BalancerInvariant /\ ChoosesRunningIfFresh

LEMMA BalancingStepFits ==
  LoadBalancingInvariant /\ [Next]_vars => LoadBalancingInvariant'
<1> SUFFICES ASSUME LoadBalancingInvariant, [Next]_vars PROVE LoadBalancingInvariant'
  OBVIOUS
<1>1. CASE GetNextInstance
  BY <1>1, RequestIsBalanced DEF LoadBalancingInvariant
<1>2. CASE ClusterNext /\ chosen' = NoChoice /\ UNCHANGED <<strategy, balancer>>
  BY <1>2, ClusterGoesOn DEF LoadBalancingInvariant
<1>3. CASE UNCHANGED vars
  <2>1. UNCHANGED clusterVars /\ UNCHANGED <<strategy, balancer>> /\ chosen' = chosen
    BY <1>3 DEF vars
  <2>2. UNCHANGED <<state, handled, instances, events, sinceScale, aborted>>
    BY <2>1 DEF clusterVars
  <2>3. UNCHANGED <<queue, queued, distribution, waits>>
    BY <2>1 DEF balancer
  <2>4. ClusterInvariant'
    BY <2>1, ClusterStepFits DEF LoadBalancingInvariant
  <2>5. BalancerInvariant'
    BY <2>1, <2>2, <2>3, <2>4
       DEF LoadBalancingInvariant, BalancerInvariant, TypeOK, QueueIsQueued, TurnsInOrder,
           ClusterInvariant, ID
  <2>6. ChoosesRunningIfFresh'
    BY <2>1, <2>2, <2>3 DEF LoadBalancingInvariant, ChoosesRunningIfFresh, RunningInstances, ID
  <2>7. QED BY <2>4, <2>5, <2>6 DEF LoadBalancingInvariant
<1>4. QED BY <1>1, <1>2, <1>3 DEF Next

LEMMA BalancingInitFits == Init => LoadBalancingInvariant
<1> SUFFICES ASSUME Init PROVE LoadBalancingInvariant
  OBVIOUS
<1>1. ClusterInvariant
  BY InitFits DEF Init
<1>2. /\ strategy \in Used /\ queue = <<>> /\ queued = {} /\ distribution = <<>>
      /\ chosen = NoChoice /\ waits = <<>>
  BY DEF Init
<1>3. DOMAIN waits = {} /\ DOMAIN distribution = {} /\ DOMAIN queue = {} /\ Len(queue) = 0
  BY <1>2
<1>4. TypeOK
  BY <1>1, <1>2, <1>3 DEF TypeOK, ClusterInvariant
<1>5. QueueIsQueued
  BY <1>2, <1>3, FS_EmptySet DEF QueueIsQueued
<1>6. TurnsInOrder
  BY <1>3 DEF TurnsInOrder
<1>7. ChoosesRunningIfFresh
  <2>1. state \in Seq(States)
    BY <1>1 DEF ClusterInvariant, ClusterTypeOK
  <2>2. chosen \notin ID /\ chosen # NoInstance
    BY <1>2, <2>1 DEF ID, NoChoice, NoInstance
  <2>3. QED BY <2>2 DEF ChoosesRunningIfFresh
<1>8. QED BY <1>1, <1>4, <1>5, <1>6, <1>7 DEF LoadBalancingInvariant, BalancerInvariant

LEMMA LoadBalancingInvariantHolds == Spec => []LoadBalancingInvariant
BY BalancingInitFits, BalancingStepFits, PTL DEF Spec

\* A request that is balanced leaves the service and its events alone
\* (getNextAvailableInstance): what is proved of the cluster holds however the
\* requests come.
THEOREM BalancerImplementsCluster == Spec => ClusterSpec
<1>1. [Next]_vars => [ClusterNext]_clusterVars
  BY DEF Next, GetNextInstance, vars
<1>2. QED BY <1>1, PTL DEF Spec, Init, ClusterSpec

\* RoundRobinLoadbalancer: its set is what is in its queue, without
\* repetition, and an instance that had its turn is behind those that wait for
\* theirs, whatever instances were added, stopped and killed in between.
THEOREM BalancerInvariantHolds == Spec => []BalancerInvariant
<1>1. LoadBalancingInvariant => BalancerInvariant
  BY DEF LoadBalancingInvariant
<1>2. QED BY <1>1, LoadBalancingInvariantHolds, PTL

\* A strategy that keeps to its interface finds a running instance if there is
\* one and chooses no other; the two that do not do so only for their stale
\* knowledge of the instances.
THEOREM ChoicesAreRunning == Spec => []ChoosesRunningIfFresh
<1>1. LoadBalancingInvariant => ChoosesRunningIfFresh
  BY DEF LoadBalancingInvariant
<1>2. QED BY <1>1, LoadBalancingInvariantHolds, PTL

LEMMA TurnIsFair ==
  ASSUME LoadBalancingInvariant, [Next]_vars
  PROVE  [\A i \in DOMAIN waits :
            strategy = "round_robin" /\ chosen' = i =>
              \A j \in waits[i] : state[j] # "RUNNING"]_vars
<1> SUFFICES ASSUME Next, NEW i \in DOMAIN waits, strategy = "round_robin", chosen' = i,
                    NEW j \in waits[i], state[j] = "RUNNING"
             PROVE  FALSE
  BY Zenon
<1>1. BalancerInvariant /\ ClusterInvariant
  BY DEF LoadBalancingInvariant
<1>2. i \in ID /\ j \in ID /\ NoInstance \notin ID /\ NoChoice \notin ID
  <2>1. i \in ID /\ j \in ID /\ state \in Seq(States)
    BY <1>1 DEF BalancerInvariant, TypeOK, ClusterTypeOK
  <2>2. QED BY <2>1 DEF ID, NoInstance, NoChoice
<1>3. GetNextInstance
  BY <1>2 DEF Next
<1>4. Asked /\ RoundRobin
  BY <1>1, <1>3 DEF Asked, GetNextInstance, Random, Utilization, Even, QuickRoundRobin
<1> DEFINE q == NewAtTheFront(queue, RunningInstances \ queued)
<1>5. /\ queue \in Seq(Nat) /\ Queued(queue) = queued
      /\ IsQueueWith(q, queue, RunningInstances \ queued)
      /\ NoTurn(q) \/ \E f \in DOMAIN q : TakesTurn(q, f)
  BY <1>4, RoundRobinTurn
<1> HIDE DEF q
<1>6. q \in Seq(Nat) /\ RunningInstances \subseteq Queued(q) /\ Behind(q, i, waits[i])
  BY <1>4, <1>5, QueueWithNew
<1>7. PICK f \in DOMAIN q : TakesTurn(q, f)
  BY <1>2, <1>5 DEF NoTurn
<1>8. i = q[f] /\ IsFirstRunning(q, f)
  BY <1>7 DEF TakesTurn, Choice
<1>9. IsRunning(j) /\ j \in RunningInstances
  BY <1>2, <1>4, AskedFacts DEF IsRunning
<1>10. PICK l \in DOMAIN q : q[l] = j
  BY <1>6, <1>9 DEF Queued
<1>11. l < f
  BY <1>6, <1>8, <1>10 DEF Behind
<1>12. QED BY <1>8, <1>9, <1>10, <1>11 DEF IsFirstRunning

\* Round robin is fair although instances come and go
\* (RoundRobinLoadbalancer.getNextServiceInstance): no instance is chosen again
\* before those that were running at its last turn and still are.
THEOREM RoundRobinKeepsTurns == Spec => RoundRobinIsFair
BY LoadBalancingInvariantHolds, TurnIsFair, PTL DEF Spec, RoundRobinIsFair
=============================================================================
