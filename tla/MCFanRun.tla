------------------------------ MODULE MCFanRun ------------------------------
(* Instances of FanRun for TLC: one node of every policy, as narrow as the    *)
(* policy allows while branches can still end in another order than they      *)
(* started in.                                                                *)
EXTENDS FanRun

Par(policy, minOk, width, ordered) ==
    [kind |-> "parallel", policy |-> policy, minOk |-> minOk, width |-> width,
     concurrency |-> 0, ordered |-> ordered]

Map(policy, width, concurrency, ordered) ==
    [kind |-> "map", policy |-> policy, minOk |-> 0, width |-> width,
     concurrency |-> concurrency, ordered |-> ordered]

\* Wide enough for branches to be decided before, between and after each other.
Wide ==
    {Par("any", 0, 2, FALSE), Par("first_success", 0, 2, FALSE), Par("quorum_skip", 2, 3, FALSE),
     Par("quorum_fail", 1, 2, TRUE), Map("skip", 3, 2, FALSE), Map("default", 2, 0, TRUE),
     Map("fail", 2, 0, FALSE), Map("skip", 0, 0, FALSE)}

MCListed == {Par("all", 0, 2, FALSE), Map("skip", 1, 1, FALSE)}
MCNodes == Wide \cup MCListed
=============================================================================
