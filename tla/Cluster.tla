------------------------------ MODULE Cluster ------------------------------
(***************************************************************************)
(* A microservice and its instances: how monkeys, scaling events and the   *)
(* reactive autoscaler create, stop and kill instances, through events     *)
(* that are executed by priority, and in the order of their scheduling     *)
(* among those of one priority.  What an instance does with its requests   *)
(* is the subject of RequestHandling; here they are only counted.          *)
(***************************************************************************)
EXTENDS Integers, Sequences, FiniteSets, Functions

CONSTANTS
  StartingInstances, \* startingInstanceCount
  MinInstances, MaxInstances, \* bounds of the autoscaler
  LowerBound, UpperBound, \* in percent
  HoldTime, \* in periods of the autoscaler
  Utilizations, \* average relative utilizations the autoscaler may see, in percent
  Amounts,  \* numbers in the experiment's actions
  MaxActions, \* bound on the experiment's actions at one instant
  MaxRequests, \* bound on the requests of an instance
  MaxSpawned \* time stops when so many instances were created

ASSUME ClusterAssumption ==
  /\ StartingInstances \in Nat /\ MaxSpawned \in Nat /\ MaxRequests \in Nat
  /\ MaxActions \in Nat /\ HoldTime \in Nat
  /\ MinInstances \in Nat \ {0} /\ MaxInstances \in Nat /\ MinInstances <= MaxInstances
  /\ LowerBound \in Nat \ {0} /\ UpperBound \in Nat /\ LowerBound < UpperBound /\ 1 < UpperBound
  /\ Utilizations \subseteq Nat /\ Amounts \subseteq Nat

VARIABLES
  state,     \* the states of the instances, by ID; their number is instanceSpawnCounter
  handled,   \* how many requests they handle (currentRequestsToHandle)
  instances, \* instancesSet
  events,    \* the events of the present instant, by priority
  sinceScale, \* the time since lastScaleUp
  aborted    \* did an event routine throw an exception that nobody catches?

clusterVars == <<state, handled, instances, events, sinceScale, aborted>>

HIGH == 1
NORMAL == 2
LOW == 3
Priorities == {HIGH, NORMAL, LOW}

ID == DOMAIN state

\* InstanceState; STARTING is left in the routine that enters it.
States == {"CREATED", "RUNNING", "SHUTTING_DOWN", "SHUTDOWN", "KILLED"}

\* Events of an instance (of): start, stop, end.  Events that were scheduled
\* before the instant: the autoscaler's trigger, and the experiment's actions
\* of an amount (of).
Event(kind, n) == [kind |-> kind, of |-> n]
Events == [kind : {"start", "stop", "end", "trigger", "kill", "summon", "scale"}, of : Nat]

-----------------------------------------------------------------------------
(* The event list.                                                         *)

\* Mutant: starting an instance is not urgent.
PriorityOfLateStart == NORMAL

\* InstanceStartupEvent
PriorityOfStart == HIGH

\* InstanceShutdownStartEvent
PriorityOfStop == HIGH

\* InstanceShutdownEndEvent
PriorityOfEnd == NORMAL

\* es, with some more events of priority p
Scheduled(es, p, more) == [es EXCEPT ![p] = @ \o more]

\* The event that is executed next has priority p.
Present(p) == events[p] # <<>> /\ \A q \in Priorities : q < p => events[q] = <<>>

\* The next event is the one of this kind, which has priority p.
Due(kind, p) == ~aborted /\ Present(p) /\ Head(events[p]).kind = kind

Executed(p) == [events EXCEPT ![p] = Tail(@)]

Abort ==
  /\ aborted' = TRUE
  /\ UNCHANGED <<state, handled, instances, sinceScale>>

-----------------------------------------------------------------------------
(* Scaling.                                                                *)

\* scaleToInstancesCount with too few instances; rest are the events that
\* are left at the present.
ScaleUp(count, rest) ==
  LET n == count - Cardinality(instances)
      new == [k \in 1..n |-> Len(state) + k]
  IN  /\ n >= 0
      /\ state' = state \o [k \in 1..n |-> "CREATED"]
      /\ handled' = handled \o [k \in 1..n |-> 0]
      /\ instances' = instances \cup {new[k] : k \in 1..n}
      /\ events' = Scheduled(rest, PriorityOfStart, [k \in 1..n |-> Event("start", new[k])])

\* Is victims the instances in the order of their usage?
LeastUsed(victims, usage) ==
  \A k \in DOMAIN victims :
    \A i \in instances \ {victims[j] : j \in 1..(k - 1)} :
      \/ i = victims[k]
      \/ usage[victims[k]] < usage[i]
      \/ usage[victims[k]] = usage[i] /\ victims[k] < i

\* Mutant: a stopped instance stays in the set.
Remaining(victims) == instances

\* The instances that are left when victims are stopped
Removed(victims) == instances \ Range(victims)

\* scaleToInstancesCount with too many instances.  An instance computes at
\* most the requests it handles (getUsage).
ScaleDown(count, rest) ==
  LET n == Cardinality(instances) - count
  IN  /\ n > 0
      /\ \E usage \in [instances -> 0..MaxRequests], victims \in Injection(1..n, instances) :
           /\ \A i \in instances : usage[i] <= handled[i]
           /\ LeastUsed(victims, usage)
           /\ instances' = Removed(victims)
           /\ events' = Scheduled(rest, PriorityOfStop,
                                  [k \in 1..n |-> Event("stop", victims[k])])
      /\ UNCHANGED <<state, handled>>

\* scaleToInstancesCount
ScaleTo(count, rest) == ScaleUp(count, rest) \/ ScaleDown(count, rest)

\* The n instances with the lowest IDs, or all
First(n) == {i \in instances : Cardinality({j \in instances : j < i}) < n}

\* killInstances.  What a dead instance handles is of no account.
KillInstances(n) ==
  IF \E i \in First(n) : state[i] = "KILLED"
  THEN aborted' = TRUE /\ UNCHANGED <<state, handled, instances>>
  ELSE /\ state' = [i \in ID |-> IF i \in First(n) THEN "KILLED" ELSE state[i]]
       /\ handled' = [i \in ID |-> IF i \in First(n) THEN 0 ELSE handled[i]]
       /\ instances' = instances \ First(n)
       /\ UNCHANGED aborted

-----------------------------------------------------------------------------
(* Events of an instance.                                                  *)

\* InstanceStartupEvent: start
Startup ==
  /\ Due("start", PriorityOfStart)
  /\ events' = Executed(PriorityOfStart)
  /\ LET i == Head(events[PriorityOfStart]).of
     IN  IF state[i] \in {"CREATED", "SHUTDOWN"}
         THEN /\ state' = [state EXCEPT ![i] = "RUNNING"]
              /\ UNCHANGED <<handled, instances, sinceScale, aborted>>
         ELSE Abort

\* Mutant: the shutdown ends without waiting for open requests.
EndsAlways(i) == TRUE

\* Does a shutdown end at once?
EndsAtOnce(i) == handled[i] = 0

\* InstanceShutdownStartEvent: startShutdown
ShutdownStart ==
  /\ Due("stop", PriorityOfStop)
  /\ LET i == Head(events[PriorityOfStop]).of
         rest == Executed(PriorityOfStop)
     IN  IF state[i] \in {"CREATED", "RUNNING"}
         THEN /\ state' = [state EXCEPT ![i] = "SHUTTING_DOWN"]
              /\ events' = IF EndsAtOnce(i)
                           THEN Scheduled(rest, PriorityOfEnd, <<Event("end", i)>>)
                           ELSE rest
              /\ UNCHANGED <<handled, instances, sinceScale, aborted>>
         ELSE events' = rest /\ Abort

\* InstanceShutdownEndEvent: endShutdown
ShutdownEnd ==
  /\ Due("end", PriorityOfEnd)
  /\ events' = Executed(PriorityOfEnd)
  /\ LET i == Head(events[PriorityOfEnd]).of
     IN  IF state[i] = "SHUTTING_DOWN"
         THEN /\ state' = [state EXCEPT ![i] = "SHUTDOWN"]
              /\ UNCHANGED <<handled, instances, sinceScale, aborted>>
         ELSE Abort

\* Requests come, are answered and fail at any time, with NORMAL priority.
NothingUrgent == ~aborted /\ events[HIGH] = <<>>

\* handleIncomingRequest of a new request
Accept(i) ==
  /\ NothingUrgent /\ state[i] = "RUNNING" /\ handled[i] < MaxRequests
  /\ handled' = [handled EXCEPT ![i] = @ + 1]
  /\ UNCHANGED <<state, instances, events, sinceScale, aborted>>

\* Does the next answer of an instance end its shutdown?
EndsWithAnswer(i) == state[i] = "SHUTTING_DOWN" /\ handled[i] = 1

\* handleIncomingRequest of a completed request: it is answered.
Answer(i) ==
  /\ NothingUrgent /\ handled[i] > 0
  /\ handled' = [handled EXCEPT ![i] = @ - 1]
  /\ events' = IF EndsWithAnswer(i)
               THEN Scheduled(events, PriorityOfEnd, <<Event("end", i)>>)
               ELSE events
  /\ UNCHANGED <<state, instances, sinceScale, aborted>>

\* letRequestFail
Fail(i) ==
  /\ NothingUrgent /\ handled[i] > 0
  /\ handled' = [handled EXCEPT ![i] = @ - 1]
  /\ UNCHANGED <<state, instances, events, sinceScale, aborted>>

-----------------------------------------------------------------------------
(* Actions of the experiment.                                              *)

\* ChaosMonkeyEvent
ChaosMonkey(p) ==
  /\ Due("kill", p)
  /\ events' = Executed(p)
  /\ KillInstances(Head(events[p]).of)
  /\ UNCHANGED sinceScale

\* SummonerMonkeyEvent
SummonerMonkey(p) ==
  /\ Due("summon", p)
  /\ ScaleTo(Cardinality(instances) + Head(events[p]).of, Executed(p))
  /\ UNCHANGED <<sinceScale, aborted>>

\* MicroserviceScaleEvent, and the activation of an event by a formula
\* (setInstancesCount; the start count is not read again)
MicroserviceScale(p) ==
  /\ Due("scale", p)
  /\ ScaleTo(Head(events[p]).of, Executed(p))
  /\ UNCHANGED <<sinceScale, aborted>>

-----------------------------------------------------------------------------
(* The reactive autoscaler.                                                *)

Lesser(m, n) == IF m <= n THEN m ELSE n
Greater(m, n) == IF m >= n THEN m ELSE n
Ceiling(m, n) == (m + n - 1) \div n

\* Mutant: the factor is rounded down.
CountUpFloor(n, avg) == Lesser(MaxInstances, Greater(1, (n * avg) \div (UpperBound - 1)))

\* The instances after scaling up from n at an average utilization: one
\* percent is taken off the upper bound.
CountUp(n, avg) == Lesser(MaxInstances, Greater(1, Ceiling(n * avg, UpperBound - 1)))

CountDown(n, avg) ==
  Greater(MinInstances, Greater(1, Ceiling(n * Greater(1, avg), LowerBound)))

\* The average utilization is zero without instances that have requests.
Measured(avg) == avg > 0 => \E i \in instances : handled[i] > 0

\* ReactiveAutoscalingPolicy.apply
Trigger ==
  /\ Due("trigger", HIGH)
  /\ \E avg \in Utilizations \cup {0} :
       LET n == Cardinality(instances)
           held == sinceScale <= HoldTime
           rest == Executed(HIGH)
       IN  /\ Measured(avg)
           /\ \/ /\ n < MinInstances
                 /\ ScaleTo(MinInstances, rest) /\ UNCHANGED sinceScale
              \/ /\ n > MaxInstances
                 /\ ScaleTo(MaxInstances, rest) /\ UNCHANGED sinceScale
              \/ /\ n \in MinInstances..(MaxInstances - 1) /\ avg >= UpperBound
                 /\ ScaleTo(CountUp(n, avg), rest) /\ sinceScale' = 0
              \/ /\ n \in (MinInstances + 1)..MaxInstances /\ avg <= LowerBound /\ ~held
                 /\ ScaleTo(CountDown(n, avg), rest) /\ sinceScale' = 0
              \/ /\ n \in MinInstances..MaxInstances
                 /\ n = MaxInstances \/ avg < UpperBound
                 /\ n = MinInstances \/ avg > LowerBound \/ held
                 /\ events' = rest
                 /\ UNCHANGED <<state, handled, instances, sinceScale>>
  /\ UNCHANGED aborted

-----------------------------------------------------------------------------
(* The system.                                                             *)

\* The experiment's actions of each priority: monkeys are HIGH and LOW when a
\* scenario or a formula creates them, and NORMAL from an experiment.
ActionsOf ==
  [p \in Priorities |->
     CASE p = HIGH -> {"summon"}
       [] p = NORMAL -> {"summon", "kill", "scale"}
       [] p = LOW -> {"kill"}]

\* The actions of priority p that may have been planned for an instant
Planned(p) ==
  UNION {[1..n -> [kind : ActionsOf[p], of : Amounts]] : n \in 0..MaxActions}

\* Time passes to the next trigger of the autoscaler.
Tick ==
  /\ ~aborted /\ Len(state) < MaxSpawned
  /\ \A p \in Priorities : events[p] = <<>>
  /\ \E high \in Planned(HIGH), normal \in Planned(NORMAL), low \in Planned(LOW) :
       /\ Len(high) + Len(normal) + Len(low) <= MaxActions
       /\ \/ events' = <<Append(high, Event("trigger", 0)), normal, low>>
          \/ events' = <<(<<Event("trigger", 0)>> \o high), normal, low>>
  /\ sinceScale' = Lesser(sinceScale + 1, HoldTime + 1)
  /\ UNCHANGED <<state, handled, instances, aborted>>

\* The autoscaler is activated when its service is read, and before the
\* service starts.
ClusterInit ==
  /\ state = [i \in 1..StartingInstances |-> "CREATED"]
  /\ handled = [i \in 1..StartingInstances |-> 0]
  /\ instances = 1..StartingInstances
  /\ events = Scheduled([p \in Priorities |->
                           IF p = HIGH THEN <<Event("trigger", 0)>> ELSE <<>>],
                        PriorityOfStart,
                        [i \in 1..StartingInstances |-> Event("start", i)])
  /\ sinceScale = 0 /\ aborted = FALSE

ClusterNext ==
  \/ Startup \/ ShutdownStart \/ ShutdownEnd
  \/ \E i \in ID : Accept(i) \/ Answer(i) \/ Fail(i)
  \/ \E p \in Priorities : ChaosMonkey(p) \/ SummonerMonkey(p) \/ MicroserviceScale(p)
  \/ Trigger
  \/ Tick

ClusterSpec == ClusterInit /\ [][ClusterNext]_clusterVars

-----------------------------------------------------------------------------
(* Properties.                                                             *)

ClusterTypeOK ==
  /\ state \in Seq(States) /\ handled \in Seq(0..MaxRequests)
  /\ DOMAIN handled = ID
  /\ instances \subseteq ID
  /\ events \in [Priorities -> Seq(Events)]
  /\ sinceScale \in 0..(HoldTime + 1) /\ aborted \in BOOLEAN

\* No event finds its instance in a state in which it must not be: whatever
\* actions meet at one instant, an instance is started before it is stopped
\* or killed, stopped once, and never killed while it stops (the exceptions
\* of start, startShutdown, endShutdown and die).
NeverContradicted == ~aborted

\* When nothing urgent is left to do, the instances of the service are the
\* running ones, and no others run: the instance count in the statistics and
\* the load balancer speak of the same instances.
InstancesAreRunning ==
  NothingUrgent => instances = {i \in ID : state[i] = "RUNNING"}

\* Urgent events of instances with some IDs: each of them once, and a start
\* before the stop of its instance
UrgentInOrder(h, ids) ==
  /\ \A k \in DOMAIN h :
       /\ h[k].kind \in {"start", "stop", "trigger", "summon"}
       /\ h[k].kind \in {"start", "stop"} => h[k].of \in ids
  /\ \A k, l \in DOMAIN h : h[k] = h[l] /\ h[k].kind \in {"start", "stop"} => k = l
  /\ \A k, l \in DOMAIN h :
       h[k].kind = "start" /\ h[l].kind = "stop" /\ h[k].of = h[l].of => k < l

\* The HIGH events h agree with the instances ins that the service has, and
\* with the states st: an instance is about to be started if and only if it is
\* created, and to be stopped if and only if the service no longer has it
\* although it is created or running.
UrgentEventsFit(h, st, ins) ==
  /\ UrgentInOrder(h, DOMAIN st)
  /\ \A i \in DOMAIN st :
       /\ (\E k \in DOMAIN h : h[k] = Event("start", i)) <=> st[i] = "CREATED"
       /\ (\E k \in DOMAIN h : h[k] = Event("stop", i))
            <=> st[i] \in {"CREATED", "RUNNING"} /\ i \notin ins

\* The NORMAL events n agree with the states st and the requests hd: a
\* shutdown is about to end, once, only if it has started and nothing is left
\* to do.
NormalEventsFit(n, st, hd) ==
  /\ \A k \in DOMAIN n :
       /\ n[k].kind \in {"end", "summon", "kill", "scale"}
       /\ n[k].kind = "end" =>
            n[k].of \in DOMAIN st /\ st[n[k].of] = "SHUTTING_DOWN" /\ hd[n[k].of] = 0
  /\ \A k, l \in DOMAIN n : n[k] = n[l] /\ n[k].kind = "end" => k = l

\* The inductive invariant: the events of an instance agree with its state and
\* with the service.
ClusterInvariant ==
  /\ ClusterTypeOK
  /\ UrgentEventsFit(events[HIGH], state, instances)
  /\ NormalEventsFit(events[NORMAL], state, handled)
  /\ \A k \in DOMAIN events[LOW] : events[LOW][k].kind = "kill"
  /\ \A i \in instances : state[i] \in {"CREATED", "RUNNING"}
  /\ NeverContradicted

\* After the autoscaler was triggered the number of instances is within its
\* bounds: from below the minimum or above the maximum it goes to the bound,
\* whatever the hold time.  Within them, before the hold time has passed, it
\* does nothing but scale up, and then it adds instances (the rounding of
\* ReactiveAutoscalingPolicy).
AutoscalerKeepsBounds ==
  [][Trigger =>
       /\ Cardinality(instances') \in MinInstances..MaxInstances
       /\ sinceScale' = 0 /\ sinceScale > 0 /\ sinceScale <= HoldTime
            => Cardinality(instances') > Cardinality(instances)]_clusterVars
=============================================================================
