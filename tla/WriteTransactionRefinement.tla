---------------------- MODULE WriteTransactionRefinement ----------------------
(****************************************************************************)
(* WriteTransaction implements AtomicFiles: an edit happens when its intent   *)
(* is in place. From then on the files count as the intent makes them,        *)
(* although they are moved one by one.                                        *)
(****************************************************************************)
EXTENDS WriteTransaction, TLC

Overdue(c, f) ==
    txn[c].state = "intent" /\ f \in txn[c].staged \cup RequestOf(c).deletes
FileAsCommitted(f) ==
    IF \E c \in Calls : Overdue(c, f)
    THEN Fresh(f, call[CHOOSE c \in Calls : Overdue(c, f)].op)
    ELSE disk[f]

PlanOf(c) ==
    IF ~Asked(c) THEN {}
    ELSE {[targets |-> RequestOf(c).targets, expects |-> RequestOf(c).expects,
           makes   |-> [f \in Files |-> Fresh(f, call[c].op)]]}

Atomic == INSTANCE AtomicFiles WITH
    Edits    <- Calls,
    Contents <- Versions,
    files    <- [f \in Files |-> FileAsCommitted(f)],
    plan     <- [c \in Calls |-> PlanOf(c)],
    happened <- {c \in Calls : txn[c].state = "intent" \/ written[c] # {}}

OneServer == \A p, q \in Procs : p = q
IntentOfServed(c) ==
    /\ txn[c].state # "intent" /\ txn'[c].state = "intent"
    /\ proc[call[c].proc].at = "up"

(* Every edit is atomic and finds its files as it expects them, through any crash
   and any failing file operation, as long as none is committed while the intent of
   another waits for a recovery, which publishes it over the later edit without
   asking what the files hold (txn.py, _recover). A server that has recovered never
   does that, unless a file operation failed or a second server edits the project. *)
EditsAreAtomic ==
    /\ Atomic!AtomicInit
    /\ [][~overtaken' => [Atomic!AtomicNext]_(Atomic!atomicVars)]_vars
    /\ [][overtaken' # overtaken /\ OneServer /\ faults = 0 =>
             ~\E c \in Calls : IntentOfServed(c)]_vars

(* The same with no exception. It does not hold of the writes of a series that the
   engine takes up again before its server has recovered. *)
EditsAreAlwaysAtomic == Atomic!AtomicSpec

CallSymmetry == Permutations(Calls) \cup Permutations(Ops) \cup Permutations(Files)
=============================================================================
