----------------------------- MODULE Processor -----------------------------
(***************************************************************************)
(* What a CPU promises to its microservice instance, whatever its          *)
(* scheduler: processes are computed on a number of threads, none of which *)
(* is left idle while a process waits when threads are assigned; every     *)
(* burst makes progress; a process is finished once, when its whole demand *)
(* was computed.  RequestHandling relies on a CPU of this kind.            *)
(***************************************************************************)
EXTENDS Integers, FiniteSets

CONSTANTS
  Process, \* CPUProcess objects
  Demands, \* the demands of operations
  Threads  \* threadPoolSize

VARIABLES
  rest,      \* the demand of a process that is not yet computed
  computing, \* the processes that were submitted and are not finished
  running,   \* those of them that have a thread
  finished   \* the processes whose ComputationCompletedEvent is scheduled

vars == <<rest, computing, running, finished>>

Init ==
  /\ rest = [p \in Process |-> 0]
  /\ computing = {} /\ running = {} /\ finished = {}

Submit(p) ==
  /\ p \notin computing \cup finished
  /\ \E d \in Demands : rest' = [rest EXCEPT ![p] = d]
  /\ computing' = computing \cup {p}
  /\ UNCHANGED <<running, finished>>

\* Threads are assigned until none is free or no process waits.
Assign(S) ==
  /\ S # {} /\ running \cap S = {}
  /\ running' = running \cup S
  /\ \/ running' = computing /\ Cardinality(running') <= Threads
     \/ running' \subseteq computing /\ Cardinality(running') = Threads
  /\ UNCHANGED <<rest, computing, finished>>

\* A burst of p computes n units of its demand and frees its thread.
EndBurst(p, n) ==
  /\ p \in running
  /\ n \in 0..rest[p] /\ (rest[p] > 0 => n > 0)
  /\ rest' = [rest EXCEPT ![p] = @ - n]
  /\ running' = running \ {p}
  /\ IF n = rest[p]
     THEN computing' = computing \ {p} /\ finished' = finished \cup {p}
     ELSE UNCHANGED <<computing, finished>>

Complete(p) ==
  /\ p \in finished
  /\ finished' = finished \ {p}
  /\ UNCHANGED <<rest, computing, running>>

Clear ==
  /\ computing' = {} /\ running' = {}
  /\ UNCHANGED <<rest, finished>>

Next ==
  \/ \E p \in Process : Submit(p) \/ Complete(p)
  \/ \E S \in SUBSET computing : Assign(S)
  \/ \E p \in running : \E n \in 0..rest[p] : EndBurst(p, n)
  \/ Clear

Spec == Init /\ [][Next]_vars
=============================================================================
