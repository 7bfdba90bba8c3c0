----------------------------- MODULE AtomicFiles -----------------------------
(****************************************************************************)
(* What an edit of a project's files promises to whoever edits them: it       *)
(* happens at one instant, to all its files, each of which is as the edit     *)
(* expects at that instant; or it never happens.                              *)
(****************************************************************************)

CONSTANTS Files, Edits, Contents

Plans == [targets : SUBSET Files, expects : [Files -> Contents], makes : [Files -> Contents]]

VARIABLES
    files,     \* what the files hold
    plan,      \* by edit, once it is proposed: what it expects of its targets and makes them
    happened   \* the edits that happened

atomicVars == <<files, plan, happened>>

AtomicInit ==
    /\ files \in [Files -> Contents]
    /\ plan = [e \in Edits |-> {}]
    /\ happened = {}

Propose(e) ==
    /\ plan[e] = {}
    /\ plan' \in [Edits -> SUBSET Plans]
    /\ \A d \in Edits \ {e} : plan'[d] = plan[d]
    /\ UNCHANGED <<files, happened>>

Happen(e) ==
    /\ e \notin happened
    /\ \E p \in plan[e] :
         /\ \A f \in p.targets : files[f] = p.expects[f]
         /\ files' = [f \in Files |-> IF f \in p.targets THEN p.makes[f] ELSE files[f]]
    /\ happened' = happened \cup {e}
    /\ UNCHANGED plan

AtomicNext == \E e \in Edits : Propose(e) \/ Happen(e)

AtomicSpec == AtomicInit /\ [][AtomicNext]_atomicVars
=============================================================================
