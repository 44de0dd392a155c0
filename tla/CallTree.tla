------------------------------ MODULE CallTree ------------------------------
(***************************************************************************)
(* What request handling promises to who sends a user request.  A user     *)
(* request is the root of a tree of calls: a request calls each of its     *)
(* dependencies, and may call one again until it is complete.  A           *)
(* dependency is complete when a call for it was computed, and a request   *)
(* is computed when all its dependencies are complete.  A user request     *)
(* succeeds when it was computed, or fails, and that is its last word.     *)
(* Where and when all this happens is left open.                           *)
(***************************************************************************)
EXTENDS Integers, Sequences, FiniteSets, Functions

CONSTANTS
  UserOp,   \* operations that users call
  DepName,  \* dependencies
  DepsOf,   \* the dependencies of an operation
  TargetOf, \* the operation a dependency calls
  None      \* no dependency

VARIABLES
  calls,     \* all calls, in the order in which they are made
  completed, \* pairs of a call and a dependency of it that is complete
  computed,  \* the calls that were computed
  succeeded, \* the user requests that succeeded
  failed     \* the user requests that failed

vars == <<calls, completed, computed, succeeded, failed>>

Id == 1..Len(calls)
Deps(c) == DepsOf[calls[c].op]
IsUser(c) == calls[c].parent = 0
Call(op, parent, dep) == [op |-> op, parent |-> parent, dep |-> dep]

Init ==
  /\ calls = <<>>
  /\ completed = {} /\ computed = {} /\ succeeded = {} /\ failed = {}

CallUser(op) ==
  /\ calls' = Append(calls, Call(op, 0, None))
  /\ UNCHANGED <<completed, computed, succeeded, failed>>

\* All dependencies of p are called at once, in any order.
CallDependencies(p) ==
  /\ \A c \in Id : calls[c].parent # p
  /\ \E order \in Bijection(1..Cardinality(Deps(p)), Deps(p)) :
       calls' = calls \o [k \in DOMAIN order |-> Call(TargetOf[order[k]], p, order[k])]
  /\ UNCHANGED <<completed, computed, succeeded, failed>>

\* A dependency that is not complete is called again.
CallAgain(c) ==
  /\ ~IsUser(c) /\ <<calls[c].parent, calls[c].dep>> \notin completed
  /\ calls' = Append(calls, calls[c])
  /\ UNCHANGED <<completed, computed, succeeded, failed>>

\* The dependency of call c is complete.
Complete(c) ==
  LET d == <<calls[c].parent, calls[c].dep>>
  IN  /\ ~IsUser(c) /\ c \in computed /\ d \notin completed
      /\ completed' = completed \cup {d}
      /\ UNCHANGED <<calls, computed, succeeded, failed>>

Compute(c) ==
  /\ c \notin computed \cup failed
  /\ \A n \in Deps(c) : <<c, n>> \in completed
  /\ computed' = computed \cup {c}
  /\ UNCHANGED <<calls, completed, succeeded, failed>>

Succeed(u) ==
  /\ IsUser(u) /\ u \in computed \ succeeded
  /\ succeeded' = succeeded \cup {u}
  /\ UNCHANGED <<calls, completed, computed, failed>>

\* One that was computed does not fail.
Fail(u) ==
  /\ IsUser(u) /\ u \notin computed \cup failed
  /\ failed' = failed \cup {u}
  /\ UNCHANGED <<calls, completed, computed, succeeded>>

Next ==
  \/ \E op \in UserOp : CallUser(op)
  \/ \E c \in Id : \/ CallDependencies(c) \/ CallAgain(c)
                   \/ Complete(c) \/ Compute(c)
                   \/ Succeed(c) \/ Fail(c)

Spec == Init /\ [][Next]_vars
=============================================================================
