------------------------- MODULE RequestHandling -------------------------
(***************************************************************************)
(* The life of a request in MiSim: a load generator sends user requests to *)
(* a microservice; the instance that receives one opens its dependencies,  *)
(* sends an internal request for each, waits for the answers, computes the *)
(* request on its CPU and answers it.  Requests fail because no instance   *)
(* is available, because they time out, because the instance handling them *)
(* was killed or is shutting down, or because a dependency failed; an      *)
(* instance that owns a Retry pattern sends a failed internal request      *)
(* again.                                                                  *)
(*                                                                         *)
(* One action is one event routine of the simulation, with every listener  *)
(* it calls.  Time is abstract.  Events due at the present instant wait in *)
(* two queues, "urgent" (cancellations, priority VERY_HIGH) and "due"      *)
(* (priority NORMAL), each first-in first-out; events with a delay wait in *)
(* "flight" and in the CPUs and happen in any order; timeouts all last 8   *)
(* seconds, so they happen in the order in which they were started.        *)
(***************************************************************************)
EXTENDS Integers, Sequences, FiniteSets, Functions

CONSTANTS
  Instance,      \* microservice instances
  ServiceOf,     \* the microservice of an instance
  Op,            \* operations
  OwnerOf,       \* the microservice that offers an operation
  DepName,       \* dependencies in the architecture description
  DepsOf,        \* the dependencies of an operation
  TargetOf,      \* the operation a dependency calls
  UserOp,        \* operations the load generators call
  RetryInstance, \* instances that own a Retry pattern
  MaxTries,      \* Retry.maxTries
  Coincide,      \* may delayed events fall on the present instant?
  MaxUsers,      \* bound: number of user requests
  MaxKills,      \* bound: number of instances killed
  MaxShutdowns,  \* bound: number of instances shut down
  Generator,     \* the load generator, requester of every user request
  None           \* no instance, no dependency

Service == {ServiceOf[i] : i \in Instance}

ASSUME ArchitectureAssumption ==
  /\ IsFiniteSet(Instance) /\ IsFiniteSet(DepName)
  /\ OwnerOf \in [Op -> Service]
  /\ DepsOf \in [Op -> SUBSET DepName]
  /\ TargetOf \in [DepName -> Op]
  /\ UserOp \subseteq Op
  /\ RetryInstance \subseteq Instance
  /\ Generator \notin Instance
  /\ None \notin Instance \cup DepName \cup {Generator}

ASSUME BoundAssumption ==
  /\ MaxTries \in Nat \ {0}
  /\ Coincide \in BOOLEAN
  /\ MaxUsers \in Nat /\ MaxKills \in Nat /\ MaxShutdowns \in Nat

VARIABLES
  reqs,        \* every Request object created so far, in order of creation
  state,       \* MicroserviceInstance.state
  handling,    \* MicroserviceInstance.currentRequestsToHandle
  openDeps,    \* MicroserviceInstance.currentlyOpenDependencies
  outgoing,    \* MicroserviceInstance.currentAnswers and currentInternalSends
  notComputed, \* MicroserviceInstance.notComputed
  waiting,     \* MicroserviceInstance.waiting
  cpu,         \* requests with a process on the CPU of an instance
  finishing,   \* requests with a scheduled ComputationCompletedEvent
  urgent,      \* cancellations at the present instant, in order
  due,         \* other events at the present instant, in order
  flight,      \* events with a delay
  armed,       \* messages with a NetworkRequestTimeoutEvent that is not canceled
  older,       \* pairs of armed messages, the one sent earlier first
  aborted      \* an uncaught exception ended the experiment

instVars  == <<state, handling, openDeps, notComputed, waiting>>
eventVars == <<urgent, due, flight, armed, older>>
vars == <<reqs, instVars, outgoing, cpu, finishing, eventVars, aborted>>

-----------------------------------------------------------------------------
(* Requests, messages and events.  A request is known by its position in   *)
(* reqs, a ServiceDependencyInstance by its parent request and its name; a *)
(* message is a request or the answer to it.                               *)

Id  == 1..Len(reqs)
Req(r) == [r |-> r, ans |-> FALSE]
Ans(r) == [r |-> r, ans |-> TRUE]

States  == {"RUNNING", "SHUTTING_DOWN", "SHUTDOWN", "KILLED"}

\* The reasons the code gives, the last one when there are circuit breakers
Reasons == {"NO_INSTANCE_AVAILABLE", "HANDLING_INSTANCE_DIED",
            "DEPENDENCY_NOT_AVAILABLE", "TIMEOUT", "CIRCUIT_IS_OPEN"}

Message == [r : Id, ans : BOOLEAN]
Request ==
  [op : Op, parent : Nat, dep : DepName \cup {None},
   requester : Instance \cup {Generator}, handler : Instance \cup {None},
   computed : BOOLEAN,                \* computationCompleted
   done : SUBSET DepName,             \* dependencies that are completed
   child : [DepName -> Nat],          \* childRequest of each dependency
   tries : [DepName -> Nat],          \* Retry.requestIndex, 0 where absent
   succeeded : Nat, failed : Nat]     \* what the generator counted for it

NewRequest(op, parent, dep, requester) ==
  [op |-> op, parent |-> parent, dep |-> dep, requester |-> requester,
   handler |-> None, computed |-> FALSE, done |-> {},
   child |-> [n \in DepName |-> 0], tries |-> [n \in DepName |-> 0],
   succeeded |-> 0, failed |-> 0]

Deps(r)     == DepsOf[reqs[r].op]
IsUser(r)   == reqs[r].requester = Generator
Parent(r)   == reqs[r].parent
DepOf(r)    == <<reqs[r].parent, reqs[r].dep>>
AllDeps(p)  == {<<p, n>> : n \in Deps(p)}
Children(p) == {reqs[p].child[n] : n \in Deps(p)}

\* Request.getRelatedDependency: is r still the child of its dependency?
IsCurrent(r) == reqs[Parent(r)].child[reqs[r].dep] = r

\* Request.areDependenciesCompleted
DepsCompleted(r) == Deps(r) \subseteq reqs[r].done

Event(type, m, i) == [type |-> type, m |-> m, i |-> i]
EndOf(i)          == Event("end", None, i)
Cancel(m, reason) == [m |-> m, reason |-> reason]

\* The orders in which a HashSet of dependencies may be iterated.
Orders(S) == Bijection(1..Cardinality(S), S)

-----------------------------------------------------------------------------
Init ==
  /\ reqs = <<>>
  /\ state = [i \in Instance |-> "RUNNING"]
  /\ handling = [i \in Instance |-> {}]
  /\ openDeps = [i \in Instance |-> {}]
  /\ outgoing = [i \in Instance |-> {}]
  /\ notComputed = [i \in Instance |-> 0]
  /\ waiting = [i \in Instance |-> 0]
  /\ cpu = [i \in Instance |-> {}]
  /\ finishing = {}
  /\ urgent = <<>> /\ due = <<>> /\ flight = {}
  /\ armed = {} /\ older = {}
  /\ aborted = FALSE

\* The timeouts of the messages in S fire or are canceled.
Disarm(S) ==
  /\ armed' = armed \ S
  /\ older' = {pair \in older : pair[1] \notin S /\ pair[2] \notin S}

\* The simulation is between two instants: nothing is left to do now.
Quiescent == urgent = <<>> /\ due = <<>>

-----------------------------------------------------------------------------
(* Sending.                                                                *)

\* LoadGeneratorDescriptionExecutor.sendNewUserRequest
SendNewUserRequest(op) ==
  /\ Quiescent
  /\ Cardinality({r \in Id : IsUser(r)}) < MaxUsers
  /\ reqs' = Append(reqs, NewRequest(op, 0, None, Generator))
  /\ due' = Append(due, Event("send", Req(Len(reqs) + 1), None))
  /\ UNCHANGED <<instVars, outgoing, cpu, finishing, urgent, flight, armed,
                 older, aborted>>

\* The RequestSenders whose listeners follow a message: its requester, and
\* for an answer the sender of the answer too.
Senders(m) ==
  ({reqs[m.r].requester} \cup IF m.ans THEN {reqs[m.r].handler} ELSE {})
  \ {Generator}

\* LoadBalancer.getNextInstance: the strategy picks a running instance
Available(op) ==
  {i \in Instance : ServiceOf[i] = OwnerOf[op] /\ state[i] = "RUNNING"}

\* MicroserviceInstance.onRequestSend and Retry.onRequestSend
OnRequestSend(m) ==
  /\ outgoing' = [i \in Instance |->
                    outgoing[i] \cup IF i \in Senders(m) THEN {m} ELSE {}]
  /\ reqs' = IF m.ans \/ reqs[m.r].requester \notin RetryInstance
             THEN reqs
             ELSE [reqs EXCEPT ![Parent(m.r)].tries[reqs[m.r].dep] = @ + 1]

\* The answer to a user request is done as soon as it is sent.
SendUserAnswer(m, queue, air) ==
  /\ m.ans /\ IsUser(m.r)
  /\ reqs' = [reqs EXCEPT ![m.r].succeeded = @ + 1]
  /\ outgoing' = [outgoing EXCEPT ![reqs[m.r].handler] = @ \ {m}]
  /\ due' = queue /\ flight' = air
  /\ UNCHANGED <<urgent, armed, older>>

\* No instance of the target service is running; a user request learns it at
\* once, an internal one after the network delay.
SendNowhere(m, queue, air) ==
  /\ ~m.ans /\ Available(reqs[m.r].op) = {}
  /\ OnRequestSend(m)
  /\ urgent' = IF IsUser(m.r)
               THEN Append(urgent, Cancel(m, "NO_INSTANCE_AVAILABLE"))
               ELSE urgent
  /\ flight' = IF IsUser(m.r) THEN air ELSE air \cup {Event("cancel", m, None)}
  /\ due' = queue
  /\ UNCHANGED <<armed, older>>

\* A user request reaches its handler without delay and has no timeout.
SendUserRequest(m, queue, air) ==
  /\ ~m.ans /\ IsUser(m.r)
  /\ \E i \in Available(reqs[m.r].op) :
       due' = Append(queue, Event("receive", m, i))
  /\ OnRequestSend(m)
  /\ flight' = air
  /\ UNCHANGED <<urgent, armed, older>>

\* Every other message travels for some time and may time out.
SendInternal(m, queue, air) ==
  /\ ~IsUser(m.r)
  /\ \E i \in IF m.ans THEN {reqs[m.r].requester}
                       ELSE Available(reqs[m.r].op) :
       flight' = air \cup {Event("receive", m, i)}
  /\ OnRequestSend(m)
  /\ armed' = armed \cup {m}
  /\ older' = older \cup (armed \X {m})
  /\ due' = queue
  /\ UNCHANGED urgent

\* NetworkRequestSendEvent.onRoutineExecution; queue and air are what is left
\* of due and flight once the event is taken.
Send(m, queue, air) ==
  /\ \/ SendUserAnswer(m, queue, air)
     \/ SendNowhere(m, queue, air)
     \/ SendUserRequest(m, queue, air)
     \/ SendInternal(m, queue, air)
  /\ UNCHANGED <<instVars, cpu, finishing, aborted>>

-----------------------------------------------------------------------------
(* Handling.                                                               *)

\* Mutant: an instance that is shutting down accepts everything.
CanHandleIfLive(i, m) == state[i] \in {"RUNNING", "SHUTTING_DOWN"}

\* MicroserviceInstance.checkIfCanHandle.  The parent of an answer is the
\* request it answers.
CanHandle(i, m) ==
  \/ state[i] = "RUNNING"
  \/ /\ state[i] = "SHUTTING_DOWN"
     /\ IF m.ans THEN m.r \in handling[i]
                 ELSE m.r \in handling[i] \/ Parent(m.r) \in handling[i]

\* The message has arrived: MicroserviceInstance.onRequestArrivalAtTarget.
Arrived(m) ==
  [i \in Instance |-> outgoing[i] \ IF i \in Senders(m) THEN {m} ELSE {}]

\* handleIncomingRequest of a request without dependencies
ReceiveLeafRequest(r, i, queue) ==
  /\ Deps(r) = {}
  /\ reqs' = [reqs EXCEPT ![r].handler = i]
  /\ cpu' = [cpu EXCEPT ![i] = @ \cup {r}]
  /\ due' = queue
  /\ UNCHANGED <<waiting, openDeps>>

\* handleIncomingRequest of a request with dependencies: each is opened and
\* a child request is sent for it.
ReceiveCompositeRequest(r, i, queue) ==
  /\ Deps(r) # {}
  /\ \E order \in Orders(Deps(r)) :
       LET new(n) == Len(reqs) + CHOOSE k \in DOMAIN order : order[k] = n
       IN  /\ reqs' = [reqs EXCEPT ![r].handler = i,
                                   ![r].child = [n \in DepName |->
                                       IF n \in Deps(r) THEN new(n) ELSE 0]]
                      \o [k \in DOMAIN order |->
                            NewRequest(TargetOf[order[k]], r, order[k], i)]
           /\ due' = queue \o [k \in DOMAIN order |->
                                 Event("send", Req(Len(reqs) + k), None)]
  /\ openDeps' = [openDeps EXCEPT ![i] = @ \cup AllDeps(r)]
  /\ waiting' = [waiting EXCEPT ![i] = @ + 1]
  /\ UNCHANGED cpu

ReceiveRequest(m, i, queue) ==
  /\ ~m.ans /\ CanHandle(i, m)
  /\ handling' = [handling EXCEPT ![i] = @ \cup {m.r}]
  /\ notComputed' = [notComputed EXCEPT ![i] = @ + 1]
  /\ outgoing' = Arrived(m)
  /\ \/ ReceiveLeafRequest(m.r, i, queue)
     \/ ReceiveCompositeRequest(m.r, i, queue)
  /\ UNCHANGED <<urgent, armed, older>>

\* Mutant: the answer to a request that was replaced counts too.
AwaitedLate(i, r) == DepOf(r) \in openDeps[i] /\ Parent(r) \in handling[i]

\* Does instance i still wait for the answer to r?
Awaited(i, r) ==
  /\ DepOf(r) \in openDeps[i]
  /\ Parent(r) \in handling[i]
  /\ IsCurrent(r)

\* Mutant: the test comes before the dependency is marked complete.
CompletesLate(p, n) == Deps(p) \subseteq reqs[p].done

\* Is n the last dependency of p to be completed?
Completes(p, n) == Deps(p) \subseteq reqs[p].done \cup {n}

\* handleRequestAnswer, Request.notifyDependencyHasFinished and the listeners
\* of the answer: the last dependency submits the parent to the CPU.
ReceiveAnswer(m, i, queue) ==
  LET p == Parent(m.r)
      n == reqs[m.r].dep
  IN  /\ m.ans /\ CanHandle(i, m) /\ Awaited(i, m.r)
      /\ openDeps' = [openDeps EXCEPT ![i] = @ \ {DepOf(m.r)}]
      /\ reqs' = [reqs EXCEPT ![p].done = @ \cup {n}, ![p].tries[n] = 0]
      /\ waiting' = [waiting EXCEPT ![i] = IF Completes(p, n) THEN @ - 1 ELSE @]
      /\ cpu' = [cpu EXCEPT ![i] = IF Completes(p, n) THEN @ \cup {p} ELSE @]
      /\ outgoing' = [Arrived(m) EXCEPT ![i] = @ \ {Req(m.r)}]
      /\ Disarm({m, Req(m.r)})
      /\ due' = queue
      /\ UNCHANGED <<handling, notComputed, urgent>>

\* handle throws an IllegalStateException: the message is canceled.  An
\* answer has closed its dependency by then, unless the state refused it.
Refuse(m, i, queue) ==
  /\ ~CanHandle(i, m) \/ (m.ans /\ ~Awaited(i, m.r))
  /\ openDeps' = IF CanHandle(i, m)
                 THEN [openDeps EXCEPT ![i] = @ \ {DepOf(m.r)}]
                 ELSE openDeps
  /\ urgent' = Append(urgent, Cancel(m, "HANDLING_INSTANCE_DIED"))
  /\ due' = queue
  /\ UNCHANGED <<reqs, handling, notComputed, waiting, outgoing, cpu, armed,
                 older>>

\* NetworkRequestReceiveEvent.onRoutineExecution
Receive(m, i, queue, air) ==
  /\ \/ ReceiveRequest(m, i, queue)
     \/ ReceiveAnswer(m, i, queue)
     \/ Refuse(m, i, queue)
  /\ flight' = air
  /\ UNCHANGED <<state, finishing, aborted>>

\* The last burst of a process ends: its ComputationCompletedEvent is due.
CompleteBurst(i, r) ==
  /\ urgent = <<>> /\ (due = <<>> \/ Coincide)
  /\ r \in cpu[i]
  /\ cpu' = [cpu EXCEPT ![i] = @ \ {r}]
  /\ finishing' = finishing \cup {r}
  /\ due' = Append(due, Event("computed", Req(r), i))
  /\ UNCHANGED <<reqs, instVars, outgoing, urgent, flight, armed, older,
                 aborted>>

\* Mutant: an answered request is not forgotten.
StillHandling(i, r) == handling

\* What is left to handle once the answer to r is on its way
Answered(i, r) == [handling EXCEPT ![i] = @ \ {r}]

\* Neither Request.setComputationCompleted nor handle throws an exception,
\* which nobody would catch.
MayComplete(i, m) == ~reqs[m.r].computed /\ CanHandle(i, m)

\* ComputationCompletedEvent.eventRoutine: the computed request is answered
\* and forgotten; the last one ends a shutdown.  An entity whose event was
\* canceled has none to run.
CompleteComputation(m, i, queue) ==
  LET r == m.r
      last == handling[i] \subseteq {r} /\ state[i] = "SHUTTING_DOWN"
      sent == Append(queue, Event("send", Ans(r), None))
  IN  /\ finishing' = finishing \ {r}
      /\ IF r \in finishing /\ MayComplete(i, m)
         THEN /\ reqs' = [reqs EXCEPT ![r].computed = TRUE]
              /\ notComputed' = [notComputed EXCEPT ![i] =
                                   IF r \in handling[i] THEN @ - 1 ELSE @]
              /\ waiting' = [waiting EXCEPT ![i] =
                               IF r \in handling[i] THEN @ ELSE @ + 1]
              /\ handling' = Answered(i, r)
              /\ due' = IF last THEN Append(sent, EndOf(i)) ELSE sent
         ELSE /\ due' = queue
              /\ UNCHANGED <<reqs, notComputed, waiting, handling>>
      /\ aborted' = (r \in finishing /\ ~MayComplete(i, m))
      /\ UNCHANGED <<state, openDeps, outgoing, cpu, urgent, flight, armed,
                     older>>

-----------------------------------------------------------------------------
(* Failing.  Each action takes the first cancellation c of urgent; the     *)
(* listeners of its message are the requester, for an answer also its      *)
(* sender, and the timeouts, which the failure cancels.                    *)

\* MicroserviceInstance.onRequestFailed and the timeouts
Failed(m) ==
  /\ outgoing' = Arrived(m)
  /\ Disarm({m, Req(m.r)})

\* Nobody cares about a lost answer, but the timeout of its request is off.
FailAnswer(m) ==
  /\ m.ans
  /\ Failed(m)
  /\ urgent' = Tail(urgent)
  /\ UNCHANGED <<reqs, handling, openDeps, notComputed, waiting, finishing,
                 flight>>

\* LoadGeneratorDescriptionExecutor.onRequestFailed
FailUserRequest(m) ==
  /\ ~m.ans /\ IsUser(m.r)
  /\ Failed(m)
  /\ reqs' = [reqs EXCEPT ![m.r].failed = @ + 1]
  /\ urgent' = Tail(urgent)
  /\ UNCHANGED <<handling, openDeps, notComputed, waiting, finishing, flight>>

\* Does the Retry of the requester know the dependency of r, with tries left?
Tries(r)     == reqs[Parent(r)].tries[reqs[r].dep]
Known(r)     == reqs[r].requester \in RetryInstance /\ IsCurrent(r) /\ Tries(r) > 0
RetriesOneMore(r) == Known(r) /\ Tries(r) <= MaxTries \* mutant
Retries(r)   == Known(r) /\ Tries(r) < MaxTries
Exhausted(r) == Known(r) /\ Tries(r) >= MaxTries

\* Mutant: the dependency is not told of its new child.
Unlinked(r, new) == reqs

\* ServiceDependencyInstance.updateChildRequest
Relinked(r, new) == [reqs EXCEPT ![Parent(r)].child[reqs[r].dep] = new]

\* Retry.onRequestFailed with tries left: the dependency gets a new child,
\* sent after the backoff delay of the retry strategy.
RetryRequest(m) ==
  /\ ~m.ans /\ ~IsUser(m.r) /\ Retries(m.r)
  /\ Failed(m)
  /\ LET r == m.r
         new == Len(reqs) + 1
     IN  /\ reqs' = Append(Relinked(r, new),
                           NewRequest(reqs[r].op, Parent(r), reqs[r].dep,
                                      reqs[r].requester))
         /\ flight' = flight \cup {Event("send", Req(new), None)}
  /\ urgent' = Tail(urgent)
  /\ UNCHANGED <<handling, openDeps, notComputed, waiting, finishing>>

\* Retry.onRequestFailed without tries left: the index forgets the dependency
Forget(r) ==
  IF Exhausted(r) THEN [reqs EXCEPT ![Parent(r)].tries[reqs[r].dep] = 0]
                  ELSE reqs

AbandonedOnly(r) == {DepOf(r)} \* mutant: the other dependencies stay open
Abandoned(r) == AllDeps(Parent(r))

\* MicroserviceInstance.letRequestFail: the parent fails as a whole.
LetRequestFail(m) ==
  LET r == m.r
      i == reqs[r].requester
      p == Parent(r)
  IN  /\ ~m.ans /\ ~IsUser(r)
      /\ i \notin RetryInstance \/ Exhausted(r)
      /\ Awaited(i, r)
      /\ Failed(m)
      /\ urgent' = Append(Tail(urgent),
                          Cancel(Req(p), "DEPENDENCY_NOT_AVAILABLE"))
      /\ finishing' = finishing \ Children(p)
      /\ openDeps' = [openDeps EXCEPT ![i] = @ \ Abandoned(r)]
      /\ handling' = [handling EXCEPT ![i] = @ \ {p}]
      /\ waiting' = [waiting EXCEPT ![i] = @ - 1]
      /\ notComputed' = [notComputed EXCEPT ![i] = @ - 1]
      /\ reqs' = Forget(r)
      /\ UNCHANGED flight

\* The failure of a request nobody waits for: letRequestFail throws and the
\* exception is caught, or Retry does not know the request.
IgnoreFailure(m) ==
  LET r == m.r
  IN  /\ ~m.ans /\ ~IsUser(r)
      /\ IF reqs[r].requester \notin RetryInstance \/ Exhausted(r)
         THEN ~Awaited(reqs[r].requester, r)
         ELSE ~Known(r)
      /\ Failed(m)
      /\ urgent' = Tail(urgent)
      /\ reqs' = Forget(r)
      /\ UNCHANGED <<handling, openDeps, notComputed, waiting, finishing,
                     flight>>

\* NetworkRequestCanceledEvent.onRoutineExecution
CancelRequest ==
  /\ urgent # <<>>
  /\ LET m == Head(urgent).m
     IN  \/ FailAnswer(m)
         \/ FailUserRequest(m)
         \/ RetryRequest(m)
         \/ LetRequestFail(m)
         \/ IgnoreFailure(m)
  /\ UNCHANGED <<state, cpu, due, aborted>>

\* NetworkRequestTimeoutEvent.onRoutineExecution, priority LOW: the oldest
\* timeout that is not canceled.
Timeout ==
  /\ Quiescent
  /\ \E m \in armed :
       /\ \A x \in armed : <<x, m>> \notin older
       /\ urgent' = Append(urgent, Cancel(m, "TIMEOUT"))
       /\ Disarm({m})
  /\ UNCHANGED <<reqs, instVars, outgoing, cpu, finishing, due, flight, aborted>>

-----------------------------------------------------------------------------
(* Instances.                                                              *)

\* Retry.shutdown of instance i
ClearRetry(i) ==
  [r \in Id |-> IF reqs[r].handler = i
                THEN [reqs[r] EXCEPT !.tries = [n \in DepName |-> 0]]
                ELSE reqs[r]]

\* The requests of S by their ident numbers
Ascending(S) ==
  {s \in Orders(S) : \A a, b \in DOMAIN s : a < b => s[a] < s[b]}

NobodyInformed(ids) == <<>> \* mutant: the requests die with their handler

\* The requesters of the requests ids learn that their handler died.
Informed(ids) ==
  [k \in DOMAIN ids |-> Cancel(Req(ids[k]), "HANDLING_INSTANCE_DIED")]

CpuRunning(i) == cpu \* mutant: the CPU of a killed instance goes on
CpuCleared(i) == [cpu EXCEPT ![i] = {}]

\* MicroserviceInstance.die, by a chaos monkey: the CPU is cleared and every
\* request that is being handled is canceled.  cancelSending has no effect:
\* the messages in outgoing have been sent (OutgoingIsSent).
Kill(i) ==
  /\ Quiescent
  /\ state[i] = "RUNNING"
  /\ Cardinality({j \in Instance : state[j] = "KILLED"}) < MaxKills
  /\ state' = [state EXCEPT ![i] = "KILLED"]
  /\ reqs' = ClearRetry(i)
  /\ cpu' = CpuCleared(i)
  /\ \E ids \in Ascending(handling[i]) : urgent' = Informed(ids)
  /\ UNCHANGED <<handling, openDeps, notComputed, waiting, outgoing, finishing,
                 due, flight, armed, older, aborted>>

\* Mutant: the shutdown does not wait for the open requests.
EndAtOnce(i) == <<EndOf(i)>>

\* Nothing to do: the shutdown ends immediately.
EndIfIdle(i) == IF handling[i] = {} THEN <<EndOf(i)>> ELSE <<>>

\* MicroserviceInstance.startShutdown, by a downscaling of the service
StartShutdown(i) ==
  /\ Quiescent
  /\ state[i] = "RUNNING"
  /\ Cardinality({j \in Instance : state[j] \in {"SHUTTING_DOWN", "SHUTDOWN"}})
       < MaxShutdowns
  /\ state' = [state EXCEPT ![i] = "SHUTTING_DOWN"]
  /\ due' = EndIfIdle(i)
  /\ UNCHANGED <<reqs, handling, openDeps, notComputed, waiting, outgoing, cpu,
                 finishing, urgent, flight, armed, older, aborted>>

\* MicroserviceInstance.endShutdown
EndShutdown(i, queue) ==
  /\ state' = IF state[i] = "SHUTTING_DOWN"
              THEN [state EXCEPT ![i] = "SHUTDOWN"] ELSE state
  /\ reqs' = IF state[i] = "SHUTTING_DOWN" THEN ClearRetry(i) ELSE reqs
  /\ aborted' = (state[i] # "SHUTTING_DOWN")
  /\ due' = queue
  /\ UNCHANGED <<handling, openDeps, notComputed, waiting, outgoing, cpu,
                 finishing, urgent, flight, armed, older>>

-----------------------------------------------------------------------------
\* The first event of due, once urgent is empty
ExecuteDue ==
  /\ urgent = <<>> /\ due # <<>>
  /\ LET e == Head(due)
     IN  \/ e.type = "send"     /\ Send(e.m, Tail(due), flight)
         \/ e.type = "receive"  /\ Receive(e.m, e.i, Tail(due), flight)
         \/ e.type = "computed" /\ CompleteComputation(e.m, e.i, Tail(due))
         \/ e.type = "end"      /\ EndShutdown(e.i, Tail(due))

\* A cancellation with a delay
CancelLater(m, air) ==
  /\ urgent' = Append(urgent, Cancel(m, "NO_INSTANCE_AVAILABLE"))
  /\ flight' = air
  /\ UNCHANGED <<reqs, instVars, outgoing, cpu, finishing, due, armed, older,
                 aborted>>

\* A delayed event comes to the present instant.
ExecuteDelayed ==
  /\ urgent = <<>> /\ (due = <<>> \/ Coincide)
  /\ \E e \in flight :
       \/ e.type = "send"    /\ Send(e.m, due, flight \ {e})
       \/ e.type = "receive" /\ Receive(e.m, e.i, due, flight \ {e})
       \/ e.type = "cancel"  /\ CancelLater(e.m, flight \ {e})

\* What the code does by itself, and what the experiment does to it
System ==
  /\ ~aborted
  /\ \/ CancelRequest
     \/ ExecuteDue
     \/ ExecuteDelayed
     \/ Timeout
     \/ \E i \in Instance : \E r \in cpu[i] : CompleteBurst(i, r)

Environment ==
  /\ ~aborted
  /\ \/ \E op \in UserOp : SendNewUserRequest(op)
     \/ \E i \in Instance : Kill(i) \/ StartShutdown(i)

Next == System \/ Environment

Spec == Init /\ [][Next]_vars

\* The event loop runs as long as an event is left.
FairSpec == Spec /\ WF_vars(System)

-----------------------------------------------------------------------------
(* Properties.                                                             *)

Cancellation == [m : Message, reason : Reasons]
Due ==
  [type : {"send"}, m : Message, i : {None}]
    \cup [type : {"receive", "computed"}, m : Message, i : Instance]
    \cup [type : {"end"}, m : {None}, i : Instance]
Flight ==
  [type : {"send", "cancel"}, m : Message, i : {None}]
    \cup [type : {"receive"}, m : Message, i : Instance]

\* Every message and every set refers to requests that exist.
TypeOK ==
  /\ reqs \in Seq(Request)
  /\ state \in [Instance -> States]
  /\ handling \in [Instance -> SUBSET Id]
  /\ openDeps \in [Instance -> SUBSET (Id \X DepName)]
  /\ outgoing \in [Instance -> SUBSET Message]
  /\ notComputed \in [Instance -> Int] /\ waiting \in [Instance -> Int]
  /\ cpu \in [Instance -> SUBSET Id]
  /\ finishing \subseteq Id
  /\ urgent \in Seq(Cancellation)
  /\ due \in Seq(Due)
  /\ flight \subseteq Flight
  /\ armed \subseteq Message /\ older \subseteq armed \X armed
  /\ aborted \in BOOLEAN

Live(i) == state[i] \in {"RUNNING", "SHUTTING_DOWN"}

\* The events that wait to be executed, whatever the queue
Scheduled == flight \cup Range(due)

\* Is something under way that will settle the request or bring its answer?
UnderWay(r) ==
  \/ Req(r) \in armed
  \/ \E e \in Scheduled : e.type # "computed" /\ e.m \in {Req(r), Ans(r)}
  \/ \E c \in Range(urgent) : c.m = Req(r)

\* No dependency is forgotten: whatever has failed or been retried, at a
\* running instance an open dependency has a current child request that is
\* still travelling, about to be sent, answered, canceled or timed out
\* (MicroserviceInstance.currentlyOpenDependencies).
OpenIsUnderWay ==
  \A i \in Instance : state[i] = "RUNNING" =>
    \A p \in handling[i], n \in DepName :
      <<p, n>> \in openDeps[i] => UnderWay(reqs[p].child[n])

\* The open dependencies are exactly the ones an unanswered request still
\* needs: completing, failing and refusing keep the set and the completed
\* flags of the dependencies in step.
IncompleteIsOpen ==
  \A i \in Instance :
    openDeps[i] = UNION {{<<p, n>> : n \in Deps(p) \ reqs[p].done}
                          : p \in handling[i]}

\* A request is on the CPU only when its dependencies are complete, and one
\* whose dependencies are complete is on the CPU, unless its parent has given
\* up on it: submission to the CPU is neither early nor lost.
SubmittedIsComputing ==
  \A i \in Instance : Live(i) =>
    \A p \in handling[i] :
      /\ p \in cpu[i] \cup finishing => DepsCompleted(p)
      /\ DepsCompleted(p) => \/ p \in cpu[i] \cup finishing
                             \/ /\ ~IsUser(p)
                                /\ Parent(p) \notin handling[reqs[p].requester]

\* An instance computes only what it handles, and a killed or stopped one
\* computes nothing: ComputationCompletedEvent always finds a handler that
\* accepts its request.
ComputingIsHandled ==
  /\ \A i \in Instance : cpu[i] \subseteq (IF Live(i) THEN handling[i] ELSE {})
  /\ \A r \in finishing : /\ Live(reqs[r].handler)
                          /\ r \in handling[reqs[r].handler]

\* No event routine lets an exception escape, which would end the experiment.
NeverAborts == ~aborted

\* The statistics an instance reports are the cardinalities they stand for
\* (MicroserviceInstance.collectQueueStatistics).
StatisticsMatch ==
  \A i \in Instance :
    /\ notComputed[i] = Cardinality(handling[i])
    /\ waiting[i] = Cardinality({p \in handling[i] : ~DepsCompleted(p)})

\* The load generator counts a user request at most once, as a success or as
\* a failure; only one whose handler was killed may be counted as failed
\* twice.
CountedOnceUnlessKilled ==
  \A r \in Id :
    /\ IsUser(r) => \/ reqs[r].succeeded + reqs[r].failed <= 1
                    \/ /\ state[reqs[r].handler] = "KILLED"
                       /\ reqs[r].succeeded = 0
                       /\ reqs[r].failed = 2
    /\ ~IsUser(r) => reqs[r].succeeded + reqs[r].failed = 0

\* An instance that has shut down has nothing left to do.
ShutdownIsIdle ==
  \A i \in Instance : state[i] = "SHUTDOWN" =>
    handling[i] = {} /\ openDeps[i] = {} /\ cpu[i] = {}

\* The messages die tries to cancel have all been sent, and a request that is
\* about to be sent is the current child of its dependency (so that Retry
\* and CircuitBreaker find the dependency).
OutgoingIsSent ==
  \A e \in Scheduled : e.type = "send" =>
    /\ \A i \in Instance : e.m \notin outgoing[i]
    /\ e.m.ans \/ IsUser(e.m.r) \/ IsCurrent(e.m.r)

\* Retry.maxTries bounds the requests sent for one dependency; an instance
\* that dies or stops forgets its count once and may start over.
AttemptsBounded ==
  \A p \in Id, n \in DepName :
    Cardinality({r \in Id : Parent(r) = p /\ reqs[r].dep = n}) <=
      IF reqs[p].handler \notin RetryInstance THEN 1
      ELSE IF Live(reqs[p].handler) THEN MaxTries ELSE 2 * MaxTries - 1

\* The instance that handles r refuses the answers it waits for.
AtShutdown(r) ==
  reqs[r].handler # None /\ state[reqs[r].handler] = "SHUTTING_DOWN"

\* Whatever dies, every user request is counted by its load generator sooner
\* or later; only one at an instance that is shutting down may be stuck
\* (AnswersAccepted says why).
UserRequestsResolved ==
  []<>(\A r \in Id : IsUser(r) => \/ reqs[r].succeeded + reqs[r].failed > 0
                                  \/ AtShutdown(r))

-----------------------------------------------------------------------------
\* What the comments of the code promise, and the code does not do.

\* "if the instance is shutting down but already received the request it can
\* continue to finish it" (MicroserviceInstance.java:157): the answer to a
\* request it still waits for is accepted.
AnswersAccepted ==
  \A e \in Scheduled :
    e.type = "receive" /\ e.m.ans /\ Live(e.i) /\ Awaited(e.i, e.m.r)
      => CanHandle(e.i, e.m)

\* "schedule immediate shutdown if currently there is nothing to do"
\* (MicroserviceInstance.java:281, also 211): an instance that is shutting
\* down and handles nothing is about to stop.
EmptyShutdownEnds ==
  \A i \in Instance : state[i] = "SHUTTING_DOWN" /\ handling[i] = {} =>
    EndOf(i) \in Range(due)
=============================================================================
