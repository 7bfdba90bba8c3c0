---------------------------- MODULE MCClaudeRunner ----------------------------
(* The messages are sent in the order of their numbers, and the last one only if *)
(* a delivery before it is forgotten or one before it built another runner:       *)
(* nothing else needs a third. With two runners, or a second close, there is at   *)
(* most one event, and none where a third message meets two runners.             *)
EXTENDS ClaudeRunner

Unsent == {o \in Ops : runner.ops[o] = "unsent"}

Focused ==
    /\ \A o \in Unsent, p \in Ops \ Unsent : p < o
    /\ session.crossed \/ session.sealed => used.events <= 1
    /\ Unsent = {} => used.forgot \/ (session.crossed /\ used.events = 0)

FocusedNext == Next /\ Focused'

FocusedSpec == Init /\ [][FocusedNext]_vars /\ Fairness
=============================================================================
