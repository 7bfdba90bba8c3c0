--------------------------- MODULE WriteTransaction ---------------------------
(****************************************************************************)
(* How an edit of a project's files reaches the disk: the calls of           *)
(* WriteService.patch_flow and write_bytes (write/service.py), the staged     *)
(* transaction each runs (write/txn.py), the recovery a server runs when it   *)
(* starts, and the journal of operation ids (write/intents.py). A server's     *)
(* engine runs before that recovery, and the series it takes up again may      *)
(* write their findings already (app/runtime.py, app/composition.py).          *)
(*                                                                          *)
(* The project lock is taken and given back in one step here and belongs to   *)
(* one call at a time; how it is made of a file is the subject of WriteLock.  *)
(* The files are written by these calls alone. The contents of a file are the *)
(* operation that wrote it.                                                   *)
(****************************************************************************)
EXTENDS Integers, FiniteSets

CONSTANTS
    Files,
    Ops,          \* the client_op_ids
    Calls,        \* the calls of patch_flow and write_bytes
    Procs,        \* the servers, each with a WriteService of its own
    MaxCrashes,   \* bound: how many processes die
    MaxFaults     \* bound: how many file operations raise an OSError

ASSUME ProcsAssumption == Procs # {} /\ Procs \cap Calls = {}
ASSUME BoundsAssumption == MaxCrashes \in Nat /\ MaxFaults \in Nat

VARIABLES
    disk,      \* what each file holds
    request,   \* by operation: its targets, what it expects of them, what it deletes
    call,      \* where each call is, and what it was answered
    txn,       \* by call: its folder under .aqven/txn
    todo,      \* by call: the targets its publisher has not come to
    lock,      \* who holds the project lock
    proc,      \* whether a process is up, and the folders it has yet to recover
    journal,   \* by process: the operation ids with a recorded result
    written,   \* history: the files that a call's transaction has published
    overtaken, \* history: a transaction got its intent while another's was not settled
    crashes, faults

volatile == <<call, todo, lock, proc, journal>>
durable == <<disk, txn, written, overtaken>>
vars == <<volatile, durable, request, crashes, faults>>

-----------------------------------------------------------------------------

First == "first"
Absent == "absent"
Versions == Ops \cup {First, Absent}
Nobody == "nobody"
NoOp == "no op"
NoTxn == "no transaction"

ASSUME NamesAssumption ==
    Nobody \notin Calls \cup Procs /\ NoTxn \notin Calls /\ {NoOp, First, Absent} \cap Ops = {}

Requests == [targets : SUBSET Files, expects : [Files -> Versions], deletes : SUBSET Files]
NoRequest == [targets |-> {}, expects |-> [f \in Files |-> Absent], deletes |-> {}]

CallSteps == {"idle", "lock", "check", "stage", "commit", "publish", "record", "answered", "lost"}
Results == {"none", "ok", "replayed", "busy", "refused", "blocked", "failed"}
CallStates == [at : CallSteps, op : Ops \cup {NoOp}, proc : Procs, result : Results]

TxnStates == {"none", "staged", "intent"}
Txns == [state : TxnStates, staged : SUBSET Files]
NoFolder == [state |-> "none", staged |-> {}]

ProcSteps == {"down", "early", "recovering", "up", "stopping"}
ProcStates == [at : ProcSteps, folders : SUBSET Calls, folder : Calls \cup {NoTxn}]

-----------------------------------------------------------------------------

RequestOf(c) == request[call[c].op]
Fresh(f, op) == IF f \in request[op].deletes THEN Absent ELSE op

Init ==
    /\ disk \in [Files -> {First, Absent}]
    /\ request = [op \in Ops |-> NoRequest]
    /\ call = [c \in Calls |-> [at |-> "idle", op |-> NoOp, proc |-> CHOOSE p \in Procs : TRUE,
                                result |-> "none"]]
    /\ txn = [c \in Calls |-> NoFolder]
    /\ todo = [c \in Calls |-> {}]
    /\ lock = Nobody
    /\ proc = [p \in Procs |-> [at |-> "up", folders |-> {}, folder |-> NoTxn]]
    /\ journal = [p \in Procs |-> {}]
    /\ written = [c \in Calls |-> {}]
    /\ overtaken = FALSE
    /\ crashes = 0
    /\ faults = 0

-----------------------------------------------------------------------------
(* WriteService.patch_flow and write_bytes *)

GoTo(c, step) == call' = [call EXCEPT ![c].at = step]

\* The call ends and its lock is given back.
Answer(c, result) ==
    /\ call' = [call EXCEPT ![c].at = "answered", ![c].result = result]
    /\ lock' = Nobody

(* A client reads the files it means to change and calls; a later call with the
   same id sends the same request (a series that writes its finding again reads the
   files afresh: an operation of its own). The journal is asked once without the
   lock. The workflows the engine recovers call before their server has recovered,
   and while it does. *)
Ask(c) ==
    /\ call[c].at = "idle"
    /\ \E op \in Ops, p \in Procs :
         /\ proc[p].at # "down"
         /\ IF request[op] # NoRequest
            THEN UNCHANGED request
            ELSE \E targets \in (SUBSET Files) \ {{}} :
                 \E deletes \in SUBSET {f \in targets : disk[f] # Absent} :
                    request' = [request EXCEPT ![op] =
                        [targets |-> targets, expects |-> disk, deletes |-> deletes]]
         /\ call' = [call EXCEPT ![c] =
              IF op \in journal[p]
              THEN [at |-> "answered", op |-> op, proc |-> p, result |-> "replayed"]
              ELSE [at |-> "lock", op |-> op, proc |-> p, result |-> "none"]]
    /\ UNCHANGED <<durable, todo, lock, proc, journal, crashes, faults>>

TakeLock(c) ==
    /\ call[c].at = "lock"
    /\ lock = Nobody
    /\ lock' = c
    /\ GoTo(c, "check")
    /\ UNCHANGED <<durable, request, todo, proc, journal, crashes, faults>>

\* ProjectLock.acquire gives up after its timeout.
Busy(c) ==
    /\ call[c].at = "lock"
    /\ lock # Nobody
    /\ call' = [call EXCEPT ![c].at = "answered", ![c].result = "busy"]
    /\ UNCHANGED <<durable, request, todo, lock, proc, journal, crashes, faults>>

\* Slip: the journal is asked without the lock only.
RecordedBefore(c) == FALSE
Recorded(c) == call[c].op \in journal[call[c].proc]

\* _verify_expects; _require_coverage makes the expected files include the targets.
ExpectsHold(c) == \A f \in RequestOf(c).targets : disk[f] = RequestOf(c).expects[f]

(* With the lock: the journal again, then the expected hashes, then the
   validator, which may find that the edit breaks the project. *)
Check(c) ==
    /\ call[c].at = "check"
    /\ CASE Recorded(c)                    -> Answer(c, "replayed")
         [] ~Recorded(c) /\ ExpectsHold(c) -> Answer(c, "blocked") \/ (GoTo(c, "stage") /\ UNCHANGED lock)
         [] OTHER                          -> Answer(c, "refused")
    /\ UNCHANGED <<durable, request, todo, proc, journal, crashes, faults>>

(* Transaction.stage: the new contents are in the folder, the intent is not. *)
Stage(c) ==
    /\ call[c].at = "stage"
    /\ txn' = [txn EXCEPT ![c] = [state |-> "staged",
                                  staged |-> RequestOf(c).targets \ RequestOf(c).deletes]]
    /\ GoTo(c, "commit")
    /\ UNCHANGED <<disk, written, overtaken, request, todo, lock, proc, journal, crashes, faults>>

(* Transaction.commit_intent: from here on the transaction will happen. *)
PutIntent(c) ==
    /\ txn' = [txn EXCEPT ![c].state = "intent"]
    /\ overtaken' = (overtaken \/ \E d \in Calls \ {c} : txn[d].state = "intent")

CommitIntent(c) ==
    /\ call[c].at = "commit"
    /\ PutIntent(c)
    /\ todo' = [todo EXCEPT ![c] = RequestOf(c).targets]
    /\ GoTo(c, "publish")
    /\ UNCHANGED <<disk, written, request, lock, proc, journal, crashes, faults>>

(* _publish_target: a file is moved out of the folder, if it is there still; a
   deletion is done again. *)
PublishTarget(c, f) ==
    /\ f \in todo[c]
    /\ todo' = [todo EXCEPT ![c] = @ \ {f}]
    /\ disk' = IF f \in txn[c].staged \cup RequestOf(c).deletes
               THEN [disk EXCEPT ![f] = Fresh(f, call[c].op)]
               ELSE disk
    /\ txn' = [txn EXCEPT ![c].staged = @ \ {f}]
    /\ written' = [written EXCEPT ![c] = @ \cup {f}]

CallPublishes(c) ==
    /\ call[c].at = "publish"
    /\ \E f \in Files : PublishTarget(c, f)
    /\ UNCHANGED <<overtaken, call, request, lock, proc, journal, crashes, faults>>

\* Slip: the intent is removed when the first target is done.
PublishedSome(c) == todo[c] # RequestOf(c).targets
Published(c) == todo[c] = {}

\* The end of `publish`: the intent and the folder are removed.
CallPublished(c) ==
    /\ call[c].at = "publish"
    /\ Published(c)
    /\ txn' = [txn EXCEPT ![c] = NoFolder]
    /\ todo' = [todo EXCEPT ![c] = {}]
    /\ GoTo(c, "record")
    /\ UNCHANGED <<disk, written, overtaken, request, lock, proc, journal, crashes, faults>>

\* _committed: the result is recorded after the transaction.
Record(c) ==
    /\ call[c].at = "record"
    /\ journal' = [journal EXCEPT ![call[c].proc] = @ \cup {call[c].op}]
    /\ Answer(c, "ok")
    /\ UNCHANGED <<durable, request, todo, proc, crashes, faults>>

(* An OSError with the lock taken. While the files are staged the folder is
   removed; later it stays, with the intent when that was in place already. *)
WriteFails(c) ==
    /\ faults < MaxFaults
    /\ faults' = faults + 1
    /\ \/ /\ call[c].at \in {"check", "stage", "commit", "publish", "record"}
          /\ UNCHANGED <<txn, overtaken>>
       \/ call[c].at = "commit" /\ PutIntent(c)
    /\ todo' = [todo EXCEPT ![c] = {}]
    /\ Answer(c, "failed")
    /\ UNCHANGED <<disk, written, request, proc, journal, crashes>>

CallStep(c) ==
    \/ TakeLock(c) \/ Check(c) \/ Stage(c) \/ CommitIntent(c)
    \/ CallPublishes(c) \/ CallPublished(c) \/ Record(c)

-----------------------------------------------------------------------------
(* The life of a server: its engine runs first, then its application starts and
   recovers the transactions that were left, then it takes the calls of clients. *)

InFlight(p) == {c \in Calls : call[c].proc = p /\ call[c].at \notin {"idle", "answered", "lost"}}

\* Its calls are lost, and the lock of a dead process is broken by the next to ask.
Ends(p) ==
    /\ call' = [c \in Calls |-> IF c \in InFlight(p) THEN [call[c] EXCEPT !.at = "lost"] ELSE call[c]]
    /\ todo' = [c \in Calls |-> IF c \in InFlight(p) \/ c = proc[p].folder THEN {} ELSE todo[c]]
    /\ lock' = IF lock \in InFlight(p) \cup {p} THEN Nobody ELSE lock
    /\ proc' = [proc EXCEPT ![p] = [at |-> "down", folders |-> {}, folder |-> NoTxn]]
    /\ journal' = [journal EXCEPT ![p] = {}]
    /\ UNCHANGED <<durable, request, faults>>

Crash(p) ==
    /\ crashes < MaxCrashes
    /\ proc[p].at # "down"
    /\ crashes' = crashes + 1
    /\ Ends(p)

\* A server whose recovery failed stops its engine and ends.
Exit(p) ==
    /\ proc[p].at = "stopping"
    /\ Ends(p)
    /\ UNCHANGED crashes

\* _serve_locked starts the engine.
Launch(p) ==
    /\ proc[p].at = "down"
    /\ proc' = [proc EXCEPT ![p].at = "early"]
    /\ UNCHANGED <<durable, request, call, todo, lock, journal, crashes, faults>>

\* Slip: recovery looks at one folder.
OneFolder == {CHOOSE c \in Calls : TRUE} \cap {c \in Calls : txn[c].state # "none"}
Folders == {c \in Calls : txn[c].state # "none"}

\* write_recovery, when the application starts: the lock is taken for it.
Start(p) ==
    /\ proc[p].at = "early"
    /\ lock = Nobody
    /\ lock' = p
    /\ proc' = [proc EXCEPT ![p] = [at |-> "recovering", folders |-> Folders, folder |-> NoTxn]]
    /\ UNCHANGED <<durable, request, call, todo, journal, crashes, faults>>

Recovers(p) == proc[p].at = "recovering"

\* Slip: a folder without an intent is rolled forward.
StagedIsCommitted(c) == txn[c].state # "none"
HasIntent(c) == txn[c].state = "intent"

\* _recover, for the folders in the order of their random names.
OpenFolder(p) ==
    /\ Recovers(p)
    /\ proc[p].folder = NoTxn
    /\ \E c \in proc[p].folders :
         IF HasIntent(c)
         THEN /\ proc' = [proc EXCEPT ![p].folder = c]
              /\ todo' = [todo EXCEPT ![c] = RequestOf(c).targets]
              /\ UNCHANGED txn
         ELSE /\ txn' = [txn EXCEPT ![c] = NoFolder]
              /\ proc' = [proc EXCEPT ![p].folders = @ \ {c}]
              /\ UNCHANGED todo
    /\ UNCHANGED <<disk, written, overtaken, request, call, lock, journal, crashes, faults>>

RecoveryPublishes(p) ==
    /\ Recovers(p)
    /\ proc[p].folder # NoTxn
    /\ \E f \in Files : PublishTarget(proc[p].folder, f)
    /\ UNCHANGED <<overtaken, call, request, lock, proc, journal, crashes, faults>>

RecoveryPublished(p) ==
    /\ Recovers(p)
    /\ proc[p].folder # NoTxn
    /\ Published(proc[p].folder)
    /\ txn' = [txn EXCEPT ![proc[p].folder] = NoFolder]
    /\ todo' = [todo EXCEPT ![proc[p].folder] = {}]
    /\ proc' = [proc EXCEPT ![p] = [at |-> "recovering", folder |-> NoTxn,
                                    folders |-> proc[p].folders \ {proc[p].folder}]]
    /\ UNCHANGED <<disk, written, overtaken, request, call, lock, journal, crashes, faults>>

Serve(p) ==
    /\ Recovers(p)
    /\ proc[p].folders = {}
    /\ proc' = [proc EXCEPT ![p].at = "up"]
    /\ lock' = Nobody
    /\ UNCHANGED <<durable, request, call, todo, journal, crashes, faults>>

\* An OSError during recovery: the server does not come up.
RecoveryFails(p) ==
    /\ Recovers(p)
    /\ faults < MaxFaults
    /\ faults' = faults + 1
    /\ todo' = [c \in Calls |-> IF c = proc[p].folder THEN {} ELSE todo[c]]
    /\ proc' = [proc EXCEPT ![p] = [at |-> "stopping", folders |-> {}, folder |-> NoTxn]]
    /\ lock' = Nobody
    /\ UNCHANGED <<durable, request, call, journal, crashes>>

\* Nor when a call keeps the lock past the timeout of ProjectLock.acquire.
RecoveryIsBusy(p) ==
    /\ proc[p].at = "early"
    /\ lock # Nobody
    /\ proc' = [proc EXCEPT ![p].at = "stopping"]
    /\ UNCHANGED <<durable, request, call, todo, lock, journal, crashes, faults>>

ProcStep(p) ==
    Launch(p) \/ Exit(p) \/ Start(p) \/ OpenFolder(p) \/ RecoveryPublishes(p) \/ RecoveryPublished(p) \/ Serve(p)

-----------------------------------------------------------------------------

Next ==
    \/ \E c \in Calls : Ask(c) \/ CallStep(c) \/ Busy(c) \/ WriteFails(c)
    \/ \E p \in Procs : Crash(p) \/ RecoveryFails(p) \/ RecoveryIsBusy(p) \/ ProcStep(p)

Spec == Init /\ [][Next]_vars

(* Threads run, and a server that ended is started again. *)
Fairness ==
    /\ \A c \in Calls : WF_vars(CallStep(c))
    /\ \A p \in Procs : WF_vars(ProcStep(p))
FairSpec == Spec /\ Fairness

-----------------------------------------------------------------------------

TypeOK ==
    /\ disk \in [Files -> Versions]
    /\ request \in [Ops -> Requests]
    /\ call \in [Calls -> CallStates]
    /\ txn \in [Calls -> Txns]
    /\ todo \in [Calls -> SUBSET Files]
    /\ lock \in Calls \cup Procs \cup {Nobody}
    /\ proc \in [Procs -> ProcStates]
    /\ journal \in [Procs -> SUBSET Ops]
    /\ written \in [Calls -> SUBSET Files]
    /\ overtaken \in BOOLEAN
    /\ crashes \in 0 .. MaxCrashes
    /\ faults \in 0 .. MaxFaults

Asked(c) == call[c].op # NoOp
SameOp(c, d) ==
    c # d /\ Asked(c) /\ call[c].op = call[d].op /\ call[c].proc = call[d].proc
Undisturbed == crashes = 0 /\ faults = 0

(* An answer tells what happened to the files: "ok" and a replay mean that every
   target was written, a refusal that none was and none will be. After "failed"
   the client cannot tell (WriteService._committed, Transaction.run). *)
AnswersTellWhatHappened ==
    \A c \in Calls :
        /\ call[c].result = "ok" => written[c] = RequestOf(c).targets
        /\ call[c].result = "replayed" =>
             \E d \in Calls : SameOp(c, d) /\ call[d].result = "ok"
        /\ call[c].result \in {"replayed", "busy", "refused", "blocked"} =>
             written[c] = {} /\ txn[c].state = "none"

RefusedNow(c) == call'[c].result = "refused" /\ call[c].result = "none"
DoneByAnother(c) == \E d \in Calls : SameOp(c, d) /\ written[d] # {}

(* A call whose operation another call has done, or is doing, is not refused for
   what that call did to the files: it waits and gets its result. *)
RetriesMeetTheFirst ==
    [][Undisturbed => \A c \in Calls : RefusedNow(c) => ~DoneByAnother(c)]_vars

(* The same, whatever happens to the process in between. *)
RetryGetsTheFirstResult == [][\A c \in Calls : RefusedNow(c) => ~DoneByAnother(c)]_vars

(* A transaction that has its intent is settled in the end, by the call that made
   it or by the recovery of a later start, unless a file operation fails: then it
   waits for a start that may never come. *)
IntentsAreSettled ==
    \A c \in Calls : txn[c].state = "intent" ~> txn[c].state # "intent" \/ faults > 0

=============================================================================
