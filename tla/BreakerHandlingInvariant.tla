--------------------- MODULE BreakerHandlingInvariant ---------------------
(***************************************************************************)
(* An inductive invariant of BreakerHandling.  It says what a circuit      *)
(* breaker knows of the requests of its instance: a connection is one of   *)
(* a request that was sent, an open dependency whose request was sent has  *)
(* a connection and its service a breaker, and of the requests still to be *)
(* sent each is needed, or was given up together with a sibling.           *)
(***************************************************************************)
EXTENDS BreakerHandling, RequestLifeInvariant

ConnectionTypeOK ==
  /\ active \in [BreakerInstance -> SUBSET (Id \X DepName)]
  /\ connections \in [BreakerInstance -> [Service -> Int]]
  /\ DOMAIN breakers = BreakerInstance

\* A request calls what its dependency calls.
CallsTarget == \A r \in Id : ~IsUser(r) => reqs[r].op = TargetOf[reqs[r].dep]

\* A connection belongs to a request that was received, and whose child
\* request was sent.
ConnectionsSent ==
  \A i \in BreakerInstance : \A d \in active[i] :
    /\ d[1] \in Id /\ d[2] \in Deps(d[1])
    /\ reqs[d[1]].handler # None
    /\ Req(reqs[d[1]].child[d[2]]) \notin ToSend

\* An open dependency waits for its request to be sent, or has a connection.
OpenIsConnected ==
  \A i \in BreakerInstance : state[i] = "RUNNING" =>
    \A p \in handling[i], n \in DepName : <<p, n>> \in openDeps[i] =>
      \/ Req(reqs[p].child[n]) \in ToSend
      \/ <<p, n>> \in active[i] /\ OwnerOf[TargetOf[n]] \in DOMAIN breakers[i]

\* A connection of a request that is still handled waits for an answer.
ConnectedIsOpen ==
  \A i \in BreakerInstance : state[i] = "RUNNING" =>
    \A s \in Service \ {ServiceOf[i]} : \A d \in ActiveTo(i, s) :
      d[1] \in handling[i] => d \in openDeps[i]

\* A request to be sent is not answered yet; its parent was given up only if
\* there is a sibling that may have failed.
AboutToSend(r) == Req(r) \in ToSend /\ ~IsUser(r)

SentIsNeeded ==
  \A r \in Id : AboutToSend(r) =>
    /\ reqs[r].dep \notin reqs[Parent(r)].done
    /\ \/ Parent(r) \in handling[reqs[r].requester]
       \/ Deps(Parent(r)) # {reqs[r].dep}

\* Only the cancellation of a request that met an open breaker holds a
\* connection beyond the limit, and it is executed before anything else.
CanceledAtOpenBreaker(c) ==
  /\ c.reason = "CIRCUIT_IS_OPEN"
  /\ urgent = <<c>>
  /\ Guarded(c.m) /\ ~IsUser(c.m.r)
  /\ DepOf(c.m.r) \in active[reqs[c.m.r].requester]
  /\ reqs[c.m.r].dep \notin reqs[Parent(c.m.r)].done
  /\ \/ Parent(c.m.r) \in handling[reqs[c.m.r].requester]
     \/ Deps(Parent(c.m.r)) # {reqs[c.m.r].dep}

OpenIsCanceled ==
  \A c \in Range(urgent) :
    c.reason = "CIRCUIT_IS_OPEN" => CanceledAtOpenBreaker(c)

WithinLimit ==
  \A i \in BreakerInstance, s \in Service :
    \/ connections[i][s] <= VolumeLimit
    \/ /\ connections[i][s] <= VolumeLimit + 1
       /\ \E c \in Range(urgent) : /\ CanceledAtOpenBreaker(c)
                                   /\ reqs[c.m.r].requester = i
                                   /\ Target(c.m.r) = s

OneByOne ==
  \A i \in BreakerInstance, s \in Service :
    connections[i][s] = Cardinality(ActiveTo(i, s))

Breakers ==
  /\ ConnectionTypeOK
  /\ CallsTarget
  /\ ConnectionsSent
  /\ OpenIsConnected
  /\ ConnectedIsOpen
  /\ SentIsNeeded
  /\ OpenIsCanceled
  /\ WithinLimit
  /\ OneByOne

\* Checked with TLC and proved to be inductive in BreakerHandlingProofs: as
\* long as the experiment goes on, breakers and requests agree, and what was
\* true of requests without breakers still is.
BreakerInvariant ==
  /\ ~aborted => LifeInvariant /\ NeededIsOpen /\ Breakers
  /\ ConnectionsCounted
  /\ ResultsFindTheirBreaker
  /\ ConnectionsUnderWay
  /\ AbortsOnlyAtOpenBreaker
=============================================================================
