-------------------------- MODULE BreakerHandling --------------------------
(***************************************************************************)
(* CircuitBreaker: the pattern of a microservice instance that listens to  *)
(* its internal requests.  It counts the connections to each called        *)
(* service, keeps a breaker for each, and stops a request that is about to *)
(* be sent to a service whose breaker is open or that has too many         *)
(* connections.                                                            *)
(*                                                                         *)
(* Requests and instances are those of RequestHandling, breakers those of  *)
(* BreakerState: what the listeners of a request do, the breaker does too. *)
(* Time is abstract, so any number of samples may have left the window     *)
(* when a breaker is notified, and a half-open event may come at any time. *)
(* No instance owns a Retry here.                                          *)
(***************************************************************************)
EXTENDS RequestHandling, BreakerState

CONSTANTS
  BreakerInstance, \* instances that own a CircuitBreaker
  VolumeLimit,     \* requestVolumeThreshold
  MaxStops         \* bound: number of instances killed or shut down

ASSUME BreakerAssumption ==
  /\ BreakerInstance \subseteq Instance /\ RetryInstance = {}
  /\ VolumeLimit \in Nat /\ MaxStops \in Nat

VARIABLES
  active,      \* activeConnections
  connections, \* activeConnectionCount, 0 where absent
  breakers     \* breakerStates, a breaker for each service that was called

breakerVars == <<active, connections, breakers>>
handlingVars == vars

BreakerInit ==
  /\ Init
  /\ active = [i \in BreakerInstance |-> {}]
  /\ connections = [i \in BreakerInstance |-> [s \in Service |-> 0]]
  /\ breakers = [i \in BreakerInstance |-> [s \in {} |-> NewBreaker]]

\* The internal requests that a CircuitBreaker listens to
Guarded(m) == ~m.ans /\ reqs[m.r].requester \in BreakerInstance

Target(r) == OwnerOf[reqs[r].op]

\* breakerStates.computeIfAbsent
BreakerOf(i, s) ==
  IF s \in DOMAIN breakers[i] THEN breakers[i][s] ELSE NewBreaker

\* The breaker b is the one of service s from now on.
SetBreaker(i, s, b) ==
  breakers' = [breakers EXCEPT ![i] =
                 [t \in DOMAIN @ \cup {s} |-> IF t = s THEN b ELSE @[t]]]

\* The number of samples that have left the window meanwhile
Leaving(b) == 0..Len(b.window)

-----------------------------------------------------------------------------
(* Sending.                                                                *)

\* Mutant: the connection is counted but not noted.
ConnectUnnoted(r) ==
  /\ active' = active
  /\ connections' = [connections EXCEPT ![reqs[r].requester][Target(r)] = @ + 1]

\* Every request is counted before the breaker looks at it.
Connect(r) ==
  LET i == reqs[r].requester
  IN  /\ active' = [active EXCEPT ![i] = @ \cup {DepOf(r)}]
      /\ connections' = [connections EXCEPT ![i][Target(r)] = @ + 1]

IsOpen(r) == BreakerOf(reqs[r].requester, Target(r)).state = "OPEN"

OverLimit(r) ==
  connections[reqs[r].requester][Target(r)] + 1 > VolumeLimit

\* The breaker is closed or half-open: the request is sent.
SendWithin(m, queue, air) ==
  LET i == reqs[m.r].requester
  IN  /\ ~IsOpen(m.r) /\ ~OverLimit(m.r)
      /\ Send(m, queue, air)
      /\ Connect(m.r)
      /\ SetBreaker(i, Target(m.r), BreakerOf(i, Target(m.r)))

\* The breaker is open: the request is not sent but canceled.
SendOpen(m, queue, air) ==
  /\ IsOpen(m.r)
  /\ urgent' = Append(urgent, Cancel(m, "CIRCUIT_IS_OPEN"))
  /\ due' = queue /\ flight' = air
  /\ Connect(m.r)
  /\ UNCHANGED <<reqs, instVars, outgoing, cpu, finishing, armed, older,
                 aborted, breakers>>

\* A request that has been failed at the limit travels nevertheless: nothing
\* has canceled its send event.
Travel(m, air) ==
  \/ /\ Available(reqs[m.r].op) = {}
     /\ flight' = air \cup {Event("cancel", m, None)}
     /\ UNCHANGED <<armed, older>>
  \/ /\ \E i \in Available(reqs[m.r].op) :
          flight' = air \cup {Event("receive", m, i)}
     /\ armed' = armed \cup {m}
     /\ older' = older \cup (armed \X {m})

\* letRequestFail of a request its instance waits for
FailAtLimit(m, air) ==
  LET r == m.r
      i == reqs[r].requester
      p == Parent(r)
  IN  /\ Awaited(i, r)
      /\ urgent' = Append(urgent, Cancel(Req(p), "DEPENDENCY_NOT_AVAILABLE"))
      /\ finishing' = finishing \ Children(p)
      /\ openDeps' = [openDeps EXCEPT ![i] = @ \ Abandoned(r)]
      /\ handling' = [handling EXCEPT ![i] = @ \ {p}]
      /\ waiting' = [waiting EXCEPT ![i] = @ - 1]
      /\ notComputed' = [notComputed EXCEPT ![i] = @ - 1]
      /\ Travel(m, air)
      /\ UNCHANGED state

\* letRequestFail throws, and onRequestFailed catches the exception.
IgnoreAtLimit(m, air) ==
  /\ ~Awaited(reqs[m.r].requester, m.r)
  /\ Travel(m, air)
  /\ UNCHANGED <<urgent, instVars, finishing>>

\* Too many connections: the breaker is told of a failure and the listeners
\* of the instance too, the breaker among them.  It hears of the failure a
\* second time and takes the connection back.
SendOverLimit(m, queue, air) ==
  LET i == reqs[m.r].requester
      s == Target(m.r)
      b == BreakerOf(i, s)
  IN  /\ ~IsOpen(m.r) /\ OverLimit(m.r)
      /\ FailAtLimit(m, air) \/ IgnoreAtLimit(m, air)
      /\ \E k \in Leaving(b) : SetBreaker(i, s, FailedCall(FailedCall(b, k), 0))
      /\ active' = [active EXCEPT ![i] = @ \ {DepOf(m.r)}]
      /\ due' = queue
      /\ UNCHANGED <<reqs, outgoing, cpu, aborted, connections>>

\* NetworkRequestSendEvent.onRoutineExecution with CircuitBreaker.onRequestSend
SendGuarded(m, queue, air) ==
  IF Guarded(m)
  THEN \/ SendWithin(m, queue, air)
       \/ SendOpen(m, queue, air)
       \/ SendOverLimit(m, queue, air)
  ELSE Send(m, queue, air) /\ UNCHANGED breakerVars

-----------------------------------------------------------------------------
(* Results and failures.                                                   *)

\* Does the arrival of this message tell the breaker of i that r succeeded?
\* Requests to the own service are counted, but their results are ignored.
TellsSuccess(m, i) ==
  /\ m.ans /\ i \in BreakerInstance
  /\ CanHandle(i, m) /\ Awaited(i, m.r)
  /\ Target(m.r) # ServiceOf[i]

\* Mutant: the connection stays among the active ones.
ResultKept(i, r) ==
  LET s == Target(r)
      b == breakers[i][s]
  IN  /\ active' = active
      /\ connections' = [connections EXCEPT ![i][s] = @ - 1]
      /\ \E k \in Leaving(b) : SetBreaker(i, s, Succeeded(b, k))

\* onRequestResultArrivedAtRequester.  Without a breaker for s it would throw
\* a NullPointerException: ResultsFindTheirBreaker.
ResultArrived(i, r) ==
  LET s == Target(r)
      b == breakers[i][s]
  IN  /\ active' = [active EXCEPT ![i] = @ \ {DepOf(r)}]
      /\ connections' = [connections EXCEPT ![i][s] = @ - 1]
      /\ \E k \in Leaving(b) : SetBreaker(i, s, Succeeded(b, k))

ReceiveGuarded(m, i, queue, air) ==
  /\ Receive(m, i, queue, air)
  /\ IF TellsSuccess(m, i) THEN ResultArrived(i, m.r) ELSE UNCHANGED breakerVars

\* Mutant: every failure of a request takes a connection back.
ReleasedAgain(i, r) ==
  LET s == Target(r)
      b == BreakerOf(i, s)
  IN  /\ active' = [active EXCEPT ![i] = @ \ {DepOf(r)}]
      /\ connections' = [connections EXCEPT ![i][s] = @ - 1]
      /\ \E k \in Leaving(b) : SetBreaker(i, s, FailedCall(b, k))

\* onRequestFailed: only the failure of an active connection counts.
Released(i, r) ==
  LET s == Target(r)
      b == breakers[i][s]
  IN  IF DepOf(r) \in active[i]
      THEN /\ active' = [active EXCEPT ![i] = @ \ {DepOf(r)}]
           /\ connections' = [connections EXCEPT ![i][s] = @ - 1]
           /\ \E k \in Leaving(b) : SetBreaker(i, s, FailedCall(b, k))
      ELSE UNCHANGED breakerVars

\* Mutant: whatever the reason, a failure that comes too late is fatal.
ThrowsAlways(c) ==
  Guarded(c.m) /\ ~Awaited(reqs[c.m.r].requester, c.m.r)

\* A request whose circuit is open fails outside of the try block of
\* MicroserviceInstance.onRequestFailed: nobody catches the exception of
\* letRequestFail if its parent has failed already.
Throws(c) ==
  /\ c.reason = "CIRCUIT_IS_OPEN"
  /\ Guarded(c.m)
  /\ ~Awaited(reqs[c.m.r].requester, c.m.r)

\* NetworkRequestCanceledEvent with CircuitBreaker.onRequestFailed
CancelGuarded ==
  /\ urgent # <<>>
  /\ LET c == Head(urgent)
     IN  \/ /\ Throws(c)
            /\ aborted' = TRUE
            /\ UNCHANGED <<reqs, instVars, outgoing, cpu, finishing, eventVars,
                           breakerVars>>
         \/ /\ ~Throws(c)
            /\ CancelRequest
            /\ IF Guarded(c.m) THEN Released(reqs[c.m.r].requester, c.m.r)
                               ELSE UNCHANGED breakerVars

\* HalfOpenBreakerEvent, before everything else of its instant.  The event
\* of a breaker that shutdown has cleared changes nothing any more.
HalfOpen(i, s) ==
  /\ Quiescent
  /\ breakers[i][s].scheduled
  /\ SetBreaker(i, s, HalfOpened(breakers[i][s]))
  /\ UNCHANGED <<handlingVars, active, connections>>

\* CircuitBreaker.shutdown, when instance i has stopped or is killed
BreakersCleared(i) ==
  IF i \in BreakerInstance
  THEN /\ active' = [active EXCEPT ![i] = {}]
       /\ connections' = [connections EXCEPT ![i] = [s \in Service |-> 0]]
       /\ breakers' = [breakers EXCEPT ![i] = [s \in {} |-> NewBreaker]]
  ELSE UNCHANGED breakerVars

EndGuarded(i, queue) ==
  /\ EndShutdown(i, queue)
  /\ BreakersCleared(i)

-----------------------------------------------------------------------------
\* The event list as in RequestHandling, with the breakers as listeners.  Only
\* a Retry would delay the sending of a request.
ExecuteDueGuarded ==
  /\ urgent = <<>> /\ due # <<>>
  /\ LET e == Head(due)
     IN  \/ e.type = "send"     /\ SendGuarded(e.m, Tail(due), flight)
         \/ e.type = "receive"  /\ ReceiveGuarded(e.m, e.i, Tail(due), flight)
         \/ e.type = "computed" /\ CompleteComputation(e.m, e.i, Tail(due))
                                /\ UNCHANGED breakerVars
         \/ e.type = "end"      /\ EndGuarded(e.i, Tail(due))

ExecuteDelayedGuarded ==
  /\ urgent = <<>> /\ (due = <<>> \/ Coincide)
  /\ \E e \in flight :
       \/ e.type = "receive" /\ ReceiveGuarded(e.m, e.i, due, flight \ {e})
       \/ e.type = "cancel"  /\ CancelLater(e.m, flight \ {e})
                             /\ UNCHANGED breakerVars

BreakerSystem ==
  /\ ~aborted
  /\ \/ CancelGuarded
     \/ ExecuteDueGuarded
     \/ ExecuteDelayedGuarded
     \/ Timeout /\ UNCHANGED breakerVars
     \/ \E i \in Instance : \E r \in cpu[i] :
          CompleteBurst(i, r) /\ UNCHANGED breakerVars
     \/ \E i \in BreakerInstance : \E s \in DOMAIN breakers[i] : HalfOpen(i, s)

MayStop == Cardinality({i \in Instance : state[i] # "RUNNING"}) < MaxStops

\* Bound: only instances with a breaker are shut down; to their callers the
\* others are as good as killed.
BreakerEnvironment ==
  /\ ~aborted
  /\ \/ \E op \in UserOp : SendNewUserRequest(op) /\ UNCHANGED breakerVars
     \/ /\ MayStop
        /\ \/ \E i \in Instance : Kill(i) /\ BreakersCleared(i)
           \/ \E i \in BreakerInstance :
                StartShutdown(i) /\ UNCHANGED breakerVars

BreakerNext == BreakerSystem \/ BreakerEnvironment

BreakerSpec ==
  BreakerInit /\ [][BreakerNext]_<<handlingVars, breakerVars>>

-----------------------------------------------------------------------------
(* Properties.                                                             *)

\* The connections of instance i to service s
ActiveTo(i, s) ==
  {d \in active[i] : OwnerOf[TargetOf[d[2]]] = s}

\* The connections to a service are counted one by one, however they end, and
\* their number is within the limit, but for the request that is about to be
\* canceled because its circuit is open (CircuitBreaker.activeConnectionCount).
ConnectionsCounted ==
  \A i \in BreakerInstance, s \in Service :
    /\ connections[i][s] = Cardinality(ActiveTo(i, s))
    /\ urgent = <<>> => connections[i][s] <= VolumeLimit

\* A result that is accepted finds the breaker of its service and closes a
\* connection that is still open: the NullPointerException that a cleared map
\* would cause and a negative count cannot occur
\* (CircuitBreaker.onRequestResultArrivedAtRequester).
ResultsFindTheirBreaker ==
  \A e \in Scheduled :
    e.type = "receive" /\ TellsSuccess(e.m, e.i) =>
      /\ Target(e.m.r) \in DOMAIN breakers[e.i]
      /\ DepOf(e.m.r) \in active[e.i]

\* A connection whose request has not been given up is one over which something
\* is under way: only a sibling of a failed dependency can leave a connection
\* behind that nothing will release, and a call to the own service
\* (CircuitBreaker.activeConnections).
ConnectionsUnderWay ==
  \A i \in BreakerInstance : state[i] = "RUNNING" =>
    \A s \in Service \ {ServiceOf[i]} : \A d \in ActiveTo(i, s) :
      d[1] \in handling[i] => d \in openDeps[i] /\ UnderWay(reqs[d[1]].child[d[2]])

\* The only exception nobody catches is that of a request that meets an open
\* breaker after a sibling has made their parent fail.
AbortsOnlyAtOpenBreaker ==
  aborted =>
    /\ urgent # <<>>
    /\ LET r == Head(urgent).m.r
       IN  /\ Head(urgent).reason = "CIRCUIT_IS_OPEN"
           /\ Deps(Parent(r)) # {reqs[r].dep}
           /\ Parent(r) \notin handling[reqs[r].requester]
=============================================================================
