--------------------------- MODULE LoadBalancing ---------------------------
(***************************************************************************)
(* The load balancer of a microservice and its strategies, which keep what *)
(* they know of the instances from one request to the next while instances *)
(* are started, stopped and killed.                                        *)
(***************************************************************************)
EXTENDS Cluster, SequencesExt

CONSTANTS
  Used \* the strategies to look at

Strategies == {"random", "util", "even", "round_robin", "round_robin_fast"}

ASSUME StrategyAssumption == Used \subseteq Strategies

VARIABLES
  strategy, \* the strategy of the load balancer
  queue,    \* queue of the round-robin strategies
  queued,   \* queued of RoundRobinLoadbalancer
  distribution, \* distribution of EvenLoadBalanceStrategy
  chosen,   \* the instance that was chosen by this step: an ID,
            \* NoInstance if there was none, NoChoice if nobody asked
  waits     \* history of the round robin: waits[i] are the instances that were
            \* running when i was chosen and were not chosen since

balancer == <<queue, queued, distribution, waits>>
vars == <<clusterVars, strategy, balancer, chosen>>

NoInstance == 0
NoChoice == -1

\* The instances that the load balancer offers to its strategy (getNextInstance)
RunningInstances == {i \in instances : state[i] = "RUNNING"}

Choice(i) ==
  /\ chosen' = i
  /\ waits' = IF strategy # "round_robin" THEN waits
              ELSE [j \in DOMAIN waits \cup {i} |->
                      IF j = i THEN RunningInstances \ {i} ELSE waits[j] \ {i}]

\* RandomLoadBalanceStrategy
Random ==
  /\ strategy = "random"
  /\ IF RunningInstances = {} THEN Choice(NoInstance)
     ELSE \E i \in RunningInstances : Choice(i)
  /\ UNCHANGED <<queue, queued, distribution>>

\* UtilizationBalanceStrategy: one of the instances with the least demand; one
\* without requests has none.
Utilization ==
  /\ strategy = "util"
  /\ IF RunningInstances = {} THEN Choice(NoInstance)
     ELSE \E i \in RunningInstances :
            /\ handled[i] > 0 => \A j \in RunningInstances : handled[j] > 0
            /\ Choice(i)
  /\ UNCHANGED <<queue, queued, distribution>>

\* EvenLoadBalanceStrategy.  The distribution counts by how much an instance
\* was chosen more often than the others, which is all that matters; it is
\* made anew when the number of instances has changed.
Even ==
  /\ strategy = "even"
  /\ LET running == RunningInstances
         known == IF Cardinality(DOMAIN distribution) = Cardinality(running)
                  THEN distribution ELSE [i \in running |-> 0]
     IN  IF known = <<>>
         THEN distribution' = known /\ Choice(NoInstance)
         ELSE \E i \in DOMAIN known :
                /\ \A j \in DOMAIN known : known[i] <= known[j]
                /\ LET next == [known EXCEPT ![i] = @ + 1]
                   IN  distribution' =
                         IF \A j \in DOMAIN next : next[j] > 0
                         THEN [j \in DOMAIN next |-> next[j] - 1] ELSE next
                /\ Choice(i)
  /\ UNCHANGED <<queue, queued>>

\* The instances in the order of their IDs
InOrder(S) ==
  [k \in 1..Cardinality(S) |-> CHOOSE i \in S : Cardinality({j \in S : j < i}) = k - 1]

\* Mutants: a stopped instance may be chosen; the chosen instance stays the
\* first; what is discarded stays in the set.
FromFirst(q) == q
Kept(q) == q
NotRemoved(q) == {}
IsRunning(i) == state[i] = "RUNNING"

\* What is left of q when the instances before the first running one are
\* discarded
FromRunning(q) == SubSeq(q, SelectInSeq(q, IsRunning), Len(q))

\* New instances are added to the front, one after the other.
NewAtTheFront(q, new) == Reverse(InOrder(new)) \o q

\* The chosen instance, which is the first, returns to the end of the queue.
Rotated(q) == Append(Tail(q), Head(q))

\* The instances that are polled from q until a running one is found
Discarded(q) == {q[k] : k \in {l \in DOMAIN q : \A j \in 1..l : ~IsRunning(q[j])}}

\* RoundRobinLoadbalancer: queued gets the new instances and loses those that
\* are discarded, also when none is left.
RoundRobin ==
  /\ strategy = "round_robin"
  /\ LET q == NewAtTheFront(queue, RunningInstances \ queued)
     IN  /\ queued' = (queued \cup RunningInstances) \ Discarded(q)
         /\ IF \E k \in DOMAIN q : IsRunning(q[k])
            THEN Choice(Head(FromRunning(q))) /\ queue' = Rotated(FromRunning(q))
            ELSE queue' = <<>> /\ chosen' = NoInstance /\ UNCHANGED waits
  /\ UNCHANGED distribution

\* QuickRoundRobinLoadbalancer: the queue is filled when it is empty.
QuickRoundRobin ==
  /\ strategy = "round_robin_fast"
  /\ LET q == IF queue = <<>> THEN InOrder(RunningInstances) ELSE queue
     IN  IF \E k \in DOMAIN q : IsRunning(q[k])
         THEN Choice(Head(FromRunning(q))) /\ queue' = Tail(FromRunning(q))
         ELSE queue' = <<>> /\ Choice(NoInstance)
  /\ UNCHANGED <<queued, distribution>>

\* getNextAvailableInstance, for a request that is sent
GetNextInstance ==
  /\ NothingUrgent
  /\ Random \/ Utilization \/ Even \/ RoundRobin \/ QuickRoundRobin
  /\ UNCHANGED <<clusterVars, strategy>>

Init ==
  /\ ClusterInit
  /\ strategy \in Used
  /\ queue = <<>> /\ queued = {} /\ distribution = <<>>
  /\ chosen = NoChoice /\ waits = <<>>

Next ==
  \/ ClusterNext /\ chosen' = NoChoice /\ UNCHANGED <<strategy, balancer>>
  \/ GetNextInstance

Spec == Init /\ [][Next]_vars

-----------------------------------------------------------------------------
(* Properties.                                                             *)

TypeOK ==
  /\ ClusterTypeOK
  /\ strategy \in Used
  /\ queue \in Seq(ID) /\ queued \subseteq ID
  /\ DOMAIN distribution \subseteq ID
  /\ \A i \in DOMAIN distribution : distribution[i] \in Nat
  /\ chosen \in {NoChoice, NoInstance} \cup ID
  /\ DOMAIN waits \subseteq ID
  /\ \A i \in DOMAIN waits : waits[i] \subseteq ID

\* The interface of the strategies: they select one of the running instances,
\* and fail only if there is none (ILoadBalancingStrategy, LoadBalancer).  Two
\* do not keep to it: the quick round robin fails when its queue runs empty,
\* and even distribution takes a dead instance if it knows of as many
\* instances as are running.
ChoosesRunningIfFresh ==
  /\ chosen \in ID /\ state[chosen] # "RUNNING" =>
       strategy = "even" /\ Cardinality(DOMAIN distribution) = Cardinality(RunningInstances)
  /\ strategy # "round_robin_fast" /\ chosen = NoInstance => RunningInstances = {}

\* Round robin is fair although instances come and go: an instance is not
\* chosen again before the others that were running at its last turn and
\* still are.
RoundRobinIsFair ==
  [][\A i \in DOMAIN waits :
       strategy = "round_robin" /\ chosen' = i =>
         \A j \in waits[i] : state[j] # "RUNNING"]_vars

\* The queue of the round robin holds every instance once, and what is queued
\* is in the queue, although they are entered and removed on their own (the
\* assertion of RoundRobinLoadbalancer).
QueueIsQueued ==
  strategy = "round_robin" =>
    /\ queued = {queue[k] : k \in DOMAIN queue}
    /\ Len(queue) = Cardinality(queued)

\* An instance that had a turn is queued as long as it runs, behind all that
\* were running then and had no turn since.
TurnsInOrder ==
  strategy = "round_robin" =>
    \A i \in DOMAIN waits :
      /\ state[i] # "CREATED"
      /\ state[i] = "RUNNING" => i \in queued
      /\ \A k, l \in DOMAIN queue : queue[k] = i /\ queue[l] \in waits[i] => l < k

\* Checked with TLC and proved to be inductive in LoadBalancingProofs
BalancerInvariant == TypeOK /\ QueueIsQueued /\ TurnsInOrder
=============================================================================
