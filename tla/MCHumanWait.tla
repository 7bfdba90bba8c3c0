----------------------------- MODULE MCHumanWait -----------------------------
(* HumanWait for TLC. Calls and operation ids are interchangeable, so the first *)
(* call may be given the first id; the second repeats it or brings its own.   *)
EXTENDS HumanWait

CONSTANTS c1, c2, o1, o2

MCCallers == {c1, c2}
MCOps == {o1, o2}
MCOpsOf == [c \in MCCallers |-> IF c = c1 THEN {o1} ELSE MCOps]
=============================================================================
