--------------------- MODULE RequestHandlingInvariant ---------------------
(***************************************************************************)
(* An inductive invariant of RequestHandling.  It says which events may be *)
(* scheduled for a request and an instance, and it is what makes           *)
(* ComputingIsHandled, ShutdownIsIdle and NeverAborts inductive: a request *)
(* arrives at most once, so that it is computed at most once; a request    *)
(* with an open dependency is not being computed; and an instance whose    *)
(* shutdown is about to end handles nothing and accepts nothing.           *)
(*                                                                         *)
(* The parts about events are stated for any queue q and any set f of      *)
(* delayed events, so that they can be used for what remains of due and    *)
(* flight when an event has been taken.                                    *)
(***************************************************************************)
EXTENDS RequestHandling

\* The event of a request that has not arrived yet
OnTheWay(e) == e.type \in {"send", "receive"} /\ ~e.m.ans

\* Nothing is scheduled that would make request r arrive.
Absent(r, q, f) == \A e \in Range(q) \cup f : OnTheWay(e) => e.m.r # r

\* A request arrives at most once.
ArriveOnce(q, f) ==
  /\ \A k, l \in DOMAIN q :
       OnTheWay(q[k]) /\ OnTheWay(q[l]) /\ q[k].m.r = q[l].m.r => k = l
  /\ \A d, e \in f : OnTheWay(d) /\ OnTheWay(e) /\ d.m.r = e.m.r => d = e
  /\ \A d \in Range(q), e \in f : OnTheWay(d) /\ OnTheWay(e) => d.m.r # e.m.r

\* Until then it has no handler, none of its dependencies is completed, and
\* neither is its computation.
Untouched(s, r) ==
  s[r].handler = None /\ s[r].done = {} /\ ~s[r].computed

NotArrived(q, f) ==
  \A e \in Range(q) \cup f : OnTheWay(e) => Untouched(reqs, e.m.r)

\* A computation is completed by the event of the instance that handles it.
ComputedAtHandler(q) ==
  \A e \in Range(q) : e.type = "computed" =>
    ~e.m.ans /\ reqs[e.m.r].handler = e.i

FinishingIsDue(q) ==
  \A r \in finishing : \E e \in Range(q) : e.type = "computed" /\ e.m.r = r

\* A shutdown ends once, when nothing is left to handle.
EndOnce(q) ==
  \A k, l \in DOMAIN q :
    q[k].type = "end" /\ q[l].type = "end" /\ q[k].i = q[l].i => k = l

EndIdle(q) ==
  \A e \in Range(q) : e.type = "end" =>
    state[e.i] = "SHUTTING_DOWN" /\ handling[e.i] = {}

Events(q, f) ==
  /\ ArriveOnce(q, f)
  /\ NotArrived(q, f)
  /\ ComputedAtHandler(q)
  /\ FinishingIsDue(q)
  /\ EndOnce(q)
  /\ EndIdle(q)

\* A request is handled by its handler, until it is computed.
HandlerKnown ==
  \A i \in Instance : \A p \in handling[i] :
    reqs[p].handler = i /\ ~reqs[p].computed

\* A request with an open dependency is handled, but not computed yet.
OpenIsWaiting ==
  \A i \in Instance : \A p \in Id, n \in DepName :
    <<p, n>> \in openDeps[i] =>
      /\ p \in handling[i] /\ p \notin cpu[i] /\ p \notin finishing
      /\ n \in Deps(p) \ reqs[p].done

ComputedOnce == \A i \in Instance : cpu[i] \cap finishing = {}

Instances ==
  /\ HandlerKnown
  /\ OpenIsWaiting
  /\ ComputedOnce
  /\ ComputingIsHandled
  /\ ShutdownIsIdle

\* Checked with TLC and proved to be inductive in RequestHandlingProofs: the
\* code's handling sets, CPUs and event list never contradict each other.
HandlingInvariant ==
  /\ TypeOK
  /\ Events(due, flight)
  /\ Instances
  /\ NeverAborts
=============================================================================
