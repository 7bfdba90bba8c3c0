-------------------------- MODULE MCWriteTransaction --------------------------
(* WriteTransaction for TLC. Calls and operations are interchangeable, and
   liveness is checked, which TLC does not do under symmetry: the first call to
   be made is given its name, and its operation. *)
EXTENDS WriteTransactionRefinement

CONSTANTS FirstCall, FirstOp

FirstAsks ==
    (\E c \in Calls : call'[c].op # NoOp) => call'[FirstCall].op = FirstOp

OrderedSpec == Init /\ [][Next /\ FirstAsks]_vars /\ Fairness
=============================================================================
