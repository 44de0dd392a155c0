--------------------------- MODULE CpuScheduling ---------------------------
(***************************************************************************)
(* The CPU of a microservice instance: its threads, the bursts of its      *)
(* processes and its own event, over one of the schedulers.  A thread      *)
(* computes one unit of demand per unit of time.                           *)
(***************************************************************************)
EXTENDS Schedulers
CONSTANTS
  Used,    \* the kinds of schedulers to look at
  Demands, \* the demands of operations
  Threads  \* threadPoolSize

ASSUME CpuAssumption ==
  Used \subseteq Kinds /\ Demands \subseteq Nat /\ Threads \in Nat \ {0}

VARIABLES
  kind,     \* the kind of the CPU's scheduler
  sched,    \* its state
  total,    \* demandTotal of the processes
  rest,     \* demandRemainder of the processes
  active,   \* activeProcesses
  bursts,   \* the scheduled ComputationBurstCompletedEvents
  routine,  \* is the CPU's own event scheduled?
  finished, \* the processes whose ComputationCompletedEvent is scheduled
  cleared   \* was the instance killed?

vars == <<kind, sched, total, rest, active, bursts, routine, finished, cleared>>

Burst == [process : Process, work : Nat, left : Nat]

Init ==
  /\ kind \in Used
  /\ sched = NewScheduler(kind)
  /\ total = [p \in Process |-> 0] /\ rest = [p \in Process |-> 0]
  /\ active = {} /\ bursts = {} /\ finished = {}
  /\ routine = FALSE /\ cleared = FALSE

ThreadsAvailable(a) == Cardinality(a) < Threads

\* Mutant: the CPU is not woken when all its threads are idle.
WokenIfBusy(a) == ThreadsAvailable(a) /\ a # {}

\* Is the CPU's event scheduled when a process enters?
Woken(a) == ThreadsAvailable(a)

\* submitProcess, with a new process for a request
SubmitProcess(p) ==
  /\ ~cleared
  /\ p \notin Waiting(sched) \cup active \cup finished
  /\ \E d \in Demands :
       /\ total' = [total EXCEPT ![p] = d]
       /\ rest' = [rest EXCEPT ![p] = d]
  /\ sched' = Enter(kind, sched, p, rest', total')
  /\ routine' = (routine \/ Woken(active))
  /\ UNCHANGED <<kind, active, bursts, finished, cleared>>

\* The part of the CPU that its own event changes
Cpu == [sched : Scheduler(kind), active : SUBSET Process, bursts : SUBSET Burst]

\* One round of the loop of onRoutineExecution: if a process and a thread are
\* ready, the process is retrieved and starts a burst.
Round[c \in Cpu] ==
  IF HasProcessesToSchedule(c.sched) /\ ThreadsAvailable(c.active)
  THEN LET p == NextProcess(c.sched)
           n == NextWork(kind, c.sched, rest, total)
       IN  [sched |-> AfterNext(kind, c.sched, rest, total),
            active |-> c.active \cup {p},
            bursts |-> c.bursts \cup {[process |-> p, work |-> n, left |-> n]}]
  ELSE c

\* The CPU after n rounds
Rounds[n \in Nat] ==
  IF n = 0 THEN [sched |-> sched, active |-> active, bursts |-> bursts]
  ELSE Round[Rounds[n - 1]]

\* onRoutineExecution
Routine ==
  /\ routine
  /\ \E c \in {Rounds[Threads]} :
       sched' = c.sched /\ active' = c.active /\ bursts' = c.bursts
  /\ routine' = FALSE
  /\ UNCHANGED <<kind, total, rest, finished, cleared>>

\* Mutant: a process with work left is not entered again.
Dropped(p, r) == sched

\* Mutant: a process is entered again although it is finished.
EnteredAlways(p, r) == Enter(kind, sched, p, r, total)

\* onBurstFinished: a process with work left enters the scheduler again.
Reentered(p, r) ==
  IF r[p] > 0 THEN Enter(kind, sched, p, r, total) ELSE Forgotten(sched, p)

\* ComputationBurstCompletedEvent.onRoutineExecution
EndBurst(b) ==
  /\ b.left = 0
  /\ bursts' = bursts \ {b}
  /\ rest' = [rest EXCEPT ![b.process] = @ - b.work]
  /\ sched' = Reentered(b.process, rest')
  /\ active' = active \ {b.process}
  /\ routine' = TRUE
  /\ finished' = IF rest'[b.process] <= 0 THEN finished \cup {b.process} ELSE finished
  /\ UNCHANGED <<kind, total, cleared>>

\* ComputationCompletedEvent
Complete(p) ==
  /\ p \in finished
  /\ finished' = finished \ {p}
  /\ total' = [total EXCEPT ![p] = 0]
  /\ UNCHANGED <<kind, sched, rest, active, bursts, routine, cleared>>

\* clear: the bursts are canceled, and their processes stay active.  An
\* instance is killed before anything else of the instant.
Clear ==
  /\ ~cleared /\ ~routine /\ finished = {}
  /\ bursts' = {}
  /\ sched' = Cleared(sched)
  /\ cleared' = TRUE
  /\ UNCHANGED <<kind, total, rest, active, routine, finished>>

\* Time passes when nothing is left to do at the present.
Tick ==
  /\ ~routine /\ finished = {}
  /\ \A b \in bursts : b.left > 0
  /\ bursts' = {[b EXCEPT !.left = @ - 1] : b \in bursts}
  /\ UNCHANGED <<kind, sched, total, rest, active, routine, finished, cleared>>

Next ==
  \/ \E p \in Process : SubmitProcess(p) \/ Complete(p)
  \/ Routine
  \/ \E b \in bursts : EndBurst(b)
  \/ Clear
  \/ Tick

Spec == Init /\ [][Next]_vars

\* The event list executes every event of an instant before time passes: the
\* CPU's event, or else the next tick; and the next event of a process.
FairSpec ==
  /\ Spec
  /\ WF_vars(Routine \/ Tick)
  /\ \A p \in Process :
       WF_vars(Complete(p) \/ \E b \in bursts : b.process = p /\ EndBurst(b))

-----------------------------------------------------------------------------
(* Properties.                                                             *)

\* The processes that have a burst
Running == {b.process : b \in bursts}

TypeOK ==
  /\ kind \in Used
  /\ sched \in Scheduler(kind)
  /\ total \in [Process -> Nat] /\ rest \in [Process -> Nat]
  /\ active \subseteq Process /\ finished \subseteq Process
  /\ bursts \subseteq Burst
  /\ routine \in BOOLEAN /\ cleared \in BOOLEAN

\* A process waits once in one queue, or is active, or is finished, and an
\* active process has one burst until the CPU is cleared (activeProcesses,
\* the queues of the schedulers and the scheduled events).
InOnePlace ==
  /\ WaitsOnce(sched)
  /\ Waiting(sched) \cap (active \cup finished) = {}
  /\ active \cap finished = {}
  /\ \A b, c \in bursts : b.process = c.process => b = c
  /\ Running = IF cleared THEN {} ELSE active

\* While a process waits, all threads are used or the CPU is about to
\* assign them (hasProcessAndThreadReady, forceScheduleNow).
NoIdleThread ==
  HasProcessesToSchedule(sched) /\ ThreadsAvailable(active) => routine

\* A burst does no more work than is left, so that reduceDemandRemainder
\* never throws; one that does less does at least the minimum quantum, and
\* only the preemptive schedulers have such bursts.
BurstsFit ==
  \A b \in bursts :
    LET r == rest[b.process]
    IN  /\ b.work <= r
        /\ b.work < r => Preemptive(kind) /\ b.work >= MinQuantum

\* The work demand that the first-in first-out scheduler counts is that of
\* the processes in its queue (totalWorkDemand; the load balancer by
\* utilization and the autoscaler read it).
WorkDemandCounted == DemandCounted(kind, sched, total)

\* Checked with TLC and proved to be inductive in CpuSchedulingProofs
CpuInvariant ==
  /\ TypeOK
  /\ InOnePlace
  /\ NoIdleThread
  /\ BurstsFit
  /\ IsFiniteSet(active) /\ Cardinality(active) <= Threads
  /\ SchedulerFits(kind, sched, rest, total)
  /\ cleared => ~routine /\ Waiting(sched) = {}

\* Whatever its scheduler, a CPU computes every process to the end, once, on
\* its threads: it is a Processor.
Proc == INSTANCE Processor WITH
          computing <- Waiting(sched) \cup Running, running <- Running
IsProcessor == Proc!Spec

\* The doc of RoundRobinScheduler promises fairness, and a first-in first-out
\* queue has it: however many processes are submitted, none waits for ever.
EveryoneIsServed ==
  kind \in {"FIFO", "RoundRobin"} =>
    \A p \in Process : p \in Waiting(sched) ~> p \notin Waiting(sched)
=============================================================================
