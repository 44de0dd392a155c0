------------------------ MODULE MCBreakerHandling ------------------------
(***************************************************************************)
(* An architecture on which BreakerHandling is checked.  Service A, which  *)
(* has a circuit breaker, calls opB of service B: opA twice at once and    *)
(* opC once.                                                               *)
(***************************************************************************)
EXTENDS MCRequestHandling, BreakerHandlingInvariant, TLC

CONSTANTS d1, d2, d3

CallsOp       == {"opA", "opB", "opC"}
CallsOwnerOf  == [op \in CallsOp |-> IF op = "opB" THEN "B" ELSE "A"]
CallsDepName  == {d1, d2, d3}
CallsDepsOf   == [op \in CallsOp |->
                    CASE op = "opA" -> {d1, d2} [] op = "opB" -> {}
                      [] op = "opC" -> {d3}]
CallsTargetOf == [n \in CallsDepName |-> "opB"]
CallsUserOp   == {"opA", "opC"}
BreakerOfA    == {a1}

\* Nothing tells the two calls of opA apart.
CallSymmetry == Permutations({d1, d2})
=============================================================================
