------------------------ MODULE MCRequestHandling ------------------------
(***************************************************************************)
(* Architectures on which RequestHandling is checked.                      *)
(***************************************************************************)
EXTENDS RequestLifeInvariant

CONSTANTS a1, b1, b2, c1

\* A fan-out: opA of service A calls opB of service B twice.
FanInstance  == {a1, b1, b2}
FanSmall     == {a1, b1}
FanServiceOf == [i \in FanInstance |-> IF i = a1 THEN "A" ELSE "B"]
FanOp        == {"opA", "opB"}
FanOwnerOf   == [op \in FanOp |-> IF op = "opA" THEN "A" ELSE "B"]
FanDepName   == {"d1", "d2"}
FanDepsOf    == [op \in FanOp |-> IF op = "opA" THEN {"d1", "d2"} ELSE {}]
FanTargetOf  == [n \in FanDepName |-> "opB"]
FanRetry     == {a1}

\* A single call: opA calls opB once.
CallDepName  == {"d1"}
CallDepsOf   == [op \in FanOp |-> IF op = "opA" THEN {"d1"} ELSE {}]
CallTargetOf == [n \in CallDepName |-> "opB"]

\* A chain: opA calls opB, opB calls opC of service C.
ChainInstance  == {a1, b1, c1}
ChainServiceOf == [i \in ChainInstance |->
                     CASE i = a1 -> "A" [] i = b1 -> "B" [] i = c1 -> "C"]
ChainOp        == {"opA", "opB", "opC"}
ChainOwnerOf   == [op \in ChainOp |->
                     CASE op = "opA" -> "A" [] op = "opB" -> "B"
                       [] op = "opC" -> "C"]
ChainDepsOf    == [op \in ChainOp |->
                     CASE op = "opA" -> {"d1"} [] op = "opB" -> {"d2"}
                       [] op = "opC" -> {}]
ChainTargetOf  == [n \in FanDepName |-> IF n = "d1" THEN "opB" ELSE "opC"]
ChainRetry     == {a1, b1}

OnlyOpA == {"opA"}
=============================================================================
