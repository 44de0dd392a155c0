----------------------------- MODULE Schedulers -----------------------------
(***************************************************************************)
(* The process schedulers of a CPU.  All of them keep queues of processes: *)
(* the multi-level feedback queue several round-robin queues, the others a *)
(* single one.  A burst is the next process with the work it may do.       *)
(***************************************************************************)
EXTENDS Integers, Sequences, FiniteSets, Functions

CONSTANTS
  Process,    \* CPUProcess objects
  MinQuantum, \* MINIMUM_QUANTUM (25 in the code)
  Layers      \* queues of the multi-level feedback queue (3 by default)

ASSUME SchedulerAssumption == MinQuantum \in Nat \ {0} /\ Layers \in Nat \ {0}

Kinds == {"FIFO", "LIFO", "ShortestJobNext", "RoundRobin", "MultiLevelFeedback"}

\* Do processes get only a quantum of their work at a time?
Preemptive(kind) == kind \in {"RoundRobin", "MultiLevelFeedback"}

\* The state of one scheduler queue
Queue ==
  [processes : Seq(Process),
   executed : SUBSET Process, \* executedWithCurrentQuantum
   quantum : Nat,             \* currentQuantum
   update : BOOLEAN]          \* updateQuantum

\* The state of a scheduler; layer[p] is the entry of p in
\* queueAssignmentMap, 0 if there is none.
Scheduler(kind) ==
  [queues : [1..(IF kind = "MultiLevelFeedback" THEN Layers ELSE 1) -> Queue],
   layer : [Process -> 0..Layers],
   demand : Int]               \* totalWorkDemand

NewScheduler(kind) ==
  [queues |-> [i \in 1..(IF kind = "MultiLevelFeedback" THEN Layers ELSE 1) |->
                 [processes |-> <<>>, executed |-> {}, quantum |-> 0, update |-> TRUE]],
   layer |-> [p \in Process |-> 0],
   demand |-> 0]

Elements(s) == {s[j] : j \in DOMAIN s}

\* The processes that wait in a scheduler
Waiting(sched) == UNION {Elements(sched.queues[i].processes) : i \in DOMAIN sched.queues}

HasProcessesToSchedule(sched) == Waiting(sched) # {}

-----------------------------------------------------------------------------
(* Entering a process.                                                     *)

FifoEnter(ps, p) == Append(ps, p)

LifoEnter(ps, p) == IF p \in Elements(ps) THEN ps ELSE <<p>> \o ps

\* The processes are sorted by what they have left; the order of those that
\* have as much left stays.  The n that go before p are the first of ps, which
\* is sorted.
ShortestJobEnter(ps, p, rest) ==
  LET n == Cardinality({j \in DOMAIN ps : rest[ps[j]] <= rest[p]})
  IN  IF p \in Elements(ps) THEN ps
      ELSE SubSeq(ps, 1, n) \o <<p>> \o SubSeq(ps, n + 1, Len(ps))

\* Mutant: every scheduler takes the process that came last.
EnteredFirst(kind, ps, p, rest) == LifoEnter(ps, p)

\* The processes ps with p among them
Entered(kind, ps, p, rest) ==
  CASE kind = "LIFO" -> LifoEnter(ps, p)
    [] kind = "ShortestJobNext" -> ShortestJobEnter(ps, p, rest)
    [] OTHER -> FifoEnter(ps, p)

NotCounted(kind, n) == 0 \* mutant: the work demand is not counted

\* What a process that enters or leaves adds to the work demand that the
\* first-in first-out scheduler counts
CountedDemand(kind, n) == IF kind = "FIFO" THEN n ELSE 0

\* enterProcess
Enter(kind, sched, p, rest, total) ==
  LET i == IF sched.layer[p] = 0 THEN 1 ELSE sched.layer[p]
  IN  [queues |-> [sched.queues EXCEPT
                     ![i].processes = Entered(kind, @, p, rest), ![i].update = TRUE],
       layer |-> IF kind = "MultiLevelFeedback" THEN [sched.layer EXCEPT ![p] = i]
                 ELSE sched.layer,
       demand |-> sched.demand + CountedDemand(kind, total[p])]

-----------------------------------------------------------------------------
(* Round robin: the quantum is the median of what the processes have left. *)

\* The k-th smallest rest of the processes ps
KthRest(ps, k, rest) ==
  CHOOSE d \in {rest[p] : p \in Elements(ps)} :
    /\ Cardinality({j \in DOMAIN ps : rest[ps[j]] < d}) < k
    /\ k <= Cardinality({j \in DOMAIN ps : rest[ps[j]] <= d})

Median(ps, rest) ==
  LET n == Len(ps)
  IN  IF n % 2 = 1 THEN KthRest(ps, (n + 1) \div 2, rest)
      ELSE (KthRest(ps, n \div 2, rest) + KthRest(ps, n \div 2 + 1, rest)) \div 2

AtLeast(n, m) == IF n >= m THEN n ELSE m

\* updateQuantum, if it is time for it
Updated(q, rest) ==
  IF ~q.update THEN q
  ELSE IF q.processes = <<>>
    THEN [q EXCEPT !.executed = {}, !.quantum = MinQuantum]
  ELSE [q EXCEPT !.executed = {}, !.update = FALSE,
                 !.quantum = AtLeast(Median(q.processes, rest), MinQuantum)]

\* The queue after its first process was retrieved.  A process that does not
\* finish is put back before the queue is tested for the end of a round, and
\* only then removed.
Retrieved(q, rest) ==
  LET u == Updated(q, rest)
      p == Head(u.processes)
      ps == IF rest[p] <= u.quantum THEN Tail(u.processes) ELSE Append(Tail(u.processes), p)
      executed == u.executed \cup {p}
  IN  [u EXCEPT !.processes = Tail(@), !.executed = executed,
                !.update = @ \/ (ps # <<>> /\ Head(ps) \in executed)]

\* Mutant: the quantum of an earlier round is used for ever.
SliceOutdated(q, rest) ==
  LET n == rest[Head(q.processes)]
  IN  IF n <= q.quantum THEN n ELSE q.quantum

\* The work the first process of the queue may do
Slice(q, rest) ==
  LET u == Updated(q, rest)
      n == rest[Head(u.processes)]
  IN  IF n <= u.quantum THEN n ELSE u.quantum

-----------------------------------------------------------------------------
(* Retrieving the next process (retrieveNextProcessNoReschedule).          *)

\* The first queue that is not empty
Layer(sched) ==
  CHOOSE i \in DOMAIN sched.queues :
    /\ sched.queues[i].processes # <<>>
    /\ \A j \in 1..(i - 1) : sched.queues[j].processes = <<>>

NextProcess(sched) == Head(sched.queues[Layer(sched)].processes)

\* The work of the next burst
NextWork(kind, sched, rest, total) ==
  IF Preemptive(kind) THEN Slice(sched.queues[Layer(sched)], rest)
  ELSE total[NextProcess(sched)]

\* One queue, or the several of multi-level feedback, when the next process
\* was retrieved: the empty queues before it were tried.
QueuesAfterNext(sched, rest) ==
  LET i == Layer(sched)
      qs == sched.queues
  IN  [j \in DOMAIN qs |-> CASE j < i -> Updated(qs[j], rest)
                             [] j = i -> Retrieved(qs[j], rest)
                             [] j > i -> qs[j]]

\* The scheduler when the next process was retrieved.  A multi-level feedback
\* queue assigns the process to its last layer, whichever it came from.
AfterNext(kind, sched, rest, total) ==
  LET p == NextProcess(sched)
  IN  [queues |-> IF Preemptive(kind) THEN QueuesAfterNext(sched, rest)
                  ELSE [sched.queues EXCEPT ![1].processes = Tail(@)],
       layer |-> IF kind = "MultiLevelFeedback" THEN [sched.layer EXCEPT ![p] = Layers]
                 ELSE sched.layer,
       demand |-> sched.demand - CountedDemand(kind, total[p])]

\* clear; queueAssignmentMap, quantum and flag stay.
Cleared(sched) ==
  [sched EXCEPT !.queues = [i \in DOMAIN @ |->
                              [@[i] EXCEPT !.processes = <<>>, !.executed = {}]],
                !.demand = 0]

\* A process that is finished is not met again: the sets and maps that still
\* hold it have forgotten it.
Forgotten(sched, p) ==
  [queues |-> [i \in DOMAIN sched.queues |->
                 [sched.queues[i] EXCEPT !.executed = @ \ {p}]],
   layer |-> [sched.layer EXCEPT ![p] = 0],
   demand |-> sched.demand]

-----------------------------------------------------------------------------
(* Properties.                                                             *)

\* A process waits once, in one queue.
WaitsOnce(sched) ==
  \A i, j \in DOMAIN sched.queues :
    /\ IsInjective(sched.queues[i].processes)
    /\ i # j => Elements(sched.queues[i].processes) \cap Elements(sched.queues[j].processes) = {}

\* A quantum that is not going to be updated is not too short.
QuantumFits(sched) ==
  \A i \in DOMAIN sched.queues :
    ~sched.queues[i].update => sched.queues[i].quantum >= MinQuantum

\* The shortest job is the next one (ShortestJobNextScheduler).
SortedByRest(ps, rest) ==
  \A k, l \in DOMAIN ps : k <= l => rest[ps[k]] <= rest[ps[l]]

\* The units of work that the processes P ask for
Units(P, total) == UNION {{p} \X (1..total[p]) : p \in P}

\* The work demand that the first-in first-out scheduler counts is that of
\* the processes in its queue.
DemandCounted(kind, sched, total) ==
  kind = "FIFO" => sched.demand = Cardinality(Units(Waiting(sched), total))

\* The state of a scheduler agrees with its kind, and with the work of its
\* processes.
SchedulerFits(kind, sched, rest, total) ==
  /\ sched \in Scheduler(kind)
  /\ WaitsOnce(sched)
  /\ QuantumFits(sched)
  /\ DemandCounted(kind, sched, total)
  /\ ~Preemptive(kind) => \A p \in Waiting(sched) : rest[p] = total[p]
  /\ kind # "MultiLevelFeedback" => \A p \in Process : sched.layer[p] = 0
  /\ kind = "ShortestJobNext" => SortedByRest(sched.queues[1].processes, rest)
=============================================================================
