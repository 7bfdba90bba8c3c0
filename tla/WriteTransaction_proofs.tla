------------------------ MODULE WriteTransaction_proofs ------------------------
(****************************************************************************)
(* Theorems about WriteTransaction, for any files, operations, calls and     *)
(* servers, and any number of crashes and faults. The invariant has a part   *)
(* for the requests, for the lock, for the folders of the transactions, for   *)
(* their recovery and for the journal of operation ids. That edits are       *)
(* atomic needs two parts more: one holds until an edit is committed over an  *)
(* intent that waits for its recovery, the other says when none is.           *)
(****************************************************************************)
EXTENDS WriteTransactionRefinement, WriteLock, TLAPS

USE ProcsAssumption, BoundsAssumption, NamesAssumption

-----------------------------------------------------------------------------

Inside == {"check", "stage", "commit", "publish", "record"}
Over == {"answered", "lost"}

\* Whoever is called has asked for something.
RequestInv ==
    /\ \A op \in Ops : /\ request[op].deletes \subseteq request[op].targets
                       /\ request[op].targets = {} => request[op] = NoRequest
    /\ \A c \in Calls : /\ call[c].at # "idle" =>
                              call[c].op \in Ops /\ RequestOf(c).targets # {}
                        /\ call[c].at = "idle" => call[c].op = NoOp /\ call[c].result = "none"

\* The lock belongs to a call inside its edit or to a server that recovers.
LockInv ==
    /\ \A c \in Calls : call[c].at \in Inside <=> lock = c
    /\ \A p \in Procs : proc[p].at = "recovering" <=> lock = p
    /\ \A c \in Calls : call[c].at \in Inside \cup {"lock"} => proc[call[c].proc].at # "down"

\* What is in a call's folder, what it has written and what it is yet to write.
FolderOf(step, folder, files, pending, targets, deletes) ==
    /\ step \in {"idle", "lock", "check", "stage"} => folder.state = "none" /\ files = {}
    /\ step = "commit" => folder.state = "staged"
    /\ step = "publish" => folder.state = "intent" /\ targets \subseteq files \cup pending
    /\ step = "record" => folder.state = "none" /\ files = targets
    /\ folder.state = "staged" => files = {} /\ folder.staged = targets \ deletes
    /\ folder.state = "intent" => folder.staged = (targets \ deletes) \ files
    /\ folder.state = "none" /\ files # {} => files = targets
    /\ pending \cup files # {} => step # "idle" /\ pending \cup files \subseteq targets
FolderHolds(c) ==
    FolderOf(call[c].at, txn[c], written[c], todo[c], RequestOf(c).targets, RequestOf(c).deletes)
FolderInv == \A c \in Calls : FolderHolds(c)

\* What an answer says.
AnswerHolds(c) ==
    /\ call[c].result # "none" => call[c].at = "answered"
    /\ call[c].result = "ok" => txn[c].state = "none" /\ written[c] = RequestOf(c).targets
    /\ call[c].result \in {"replayed", "busy", "refused", "blocked"} =>
          txn[c].state = "none" /\ written[c] = {}
AnswerInv == \A c \in Calls : AnswerHolds(c)

\* A server recovers folders of calls that are over.
RecoveryHolds(p) ==
    /\ proc[p].at # "recovering" => proc[p].folders = {} /\ proc[p].folder = NoTxn
    /\ \A c \in proc[p].folders : call[c].at \in Over
    /\ proc[p].folder # NoTxn =>
          LET c == proc[p].folder IN
          /\ c \in proc[p].folders /\ txn[c].state = "intent"
          /\ RequestOf(c).targets \subseteq written[c] \cup todo[c]
RecoveryInv == \A p \in Procs : RecoveryHolds(p)

\* An operation id that is recorded belongs to a call that was answered "ok".
JournalInv ==
    /\ \A c \in Calls : call[c].result = "replayed" =>
          \E d \in Calls : SameOp(c, d) /\ call[d].result = "ok"
    /\ \A p \in Procs : \A op \in journal[p] :
          \E d \in Calls : call[d].op = op /\ call[d].proc = p /\ call[d].result = "ok"

\* As long as nothing fails, whatever was written is being written or is recorded.
RecordInv ==
    Undisturbed =>
        /\ \A p \in Procs : proc[p].at = "up"
        /\ \A c \in Calls : written[c] # {} =>
              call[c].at \in {"publish", "record"} \/ call[c].op \in journal[call[c].proc]

WriteInv ==
    TypeOK /\ RequestInv /\ LockInv /\ FolderInv /\ AnswerInv /\ RecoveryInv /\ JournalInv
        /\ RecordInv

(* Until an edit is committed over an intent that waits, one transaction at most has
   its intent, and what it has published is as it makes it. Whoever has checked what
   it expects has the lock, and nobody publishes. *)
OneIntent == \A c, d \in Calls : txn[c].state = "intent" /\ txn[d].state = "intent" => c = d
WrittenIsFresh ==
    \A c \in Calls : \A f \in written[c] :
        txn[c].state = "intent" => disk[f] = Fresh(f, call[c].op)
CheckedStands == \A c \in Calls : call[c].at \in {"stage", "commit"} => ExpectsHold(c)

IntentInv == CheckedStands /\ (~overtaken => OneIntent /\ WrittenIsFresh)

(* An intent belongs to the call that has the lock, once the only server has
   recovered, and to the server while it recovers. *)
ServedInv ==
    OneServer /\ faults = 0 =>
        \A c \in Calls, p \in Procs : txn[c].state = "intent" =>
            /\ proc[p].at = "up" => lock = c
            /\ proc[p].at = "recovering" => c \in proc[p].folders

-----------------------------------------------------------------------------
(* What an action does to the call that takes it *)

\* What changes of a call, a folder, a list of targets, a server.
CallMoves(c, step, result) ==
    /\ call' \in [Calls -> CallStates]
    /\ \A d \in Calls :
         /\ call'[d].op = call[d].op /\ call'[d].proc = call[d].proc
         /\ d # c => call'[d].at = call[d].at /\ call'[d].result = call[d].result
    /\ call'[c].at = step /\ call'[c].result = result
TxnMoves(c, state, staged) ==
    /\ txn' \in [Calls -> Txns] /\ \A d \in Calls \ {c} : txn'[d] = txn[d]
    /\ txn'[c].state = state /\ txn'[c].staged = staged
TodoMoves(c, files) ==
    /\ todo' \in [Calls -> SUBSET Files] /\ \A d \in Calls \ {c} : todo'[d] = todo[d]
    /\ todo'[c] = files
ProcMoves(p, step, folders, folder) ==
    /\ proc' \in [Procs -> ProcStates] /\ \A q \in Procs \ {p} : proc'[q] = proc[q]
    /\ proc'[p].at = step /\ proc'[p].folders = folders /\ proc'[p].folder = folder

LEMMA GoToMoves ==
    ASSUME TypeOK, NEW c \in Calls, NEW step \in CallSteps, GoTo(c, step)
    PROVE  CallMoves(c, step, call[c].result)
BY DEF TypeOK, GoTo, CallStates, CallMoves

LEMMA AnswerMoves ==
    ASSUME TypeOK, NEW c \in Calls, NEW result \in Results,
           call' = [call EXCEPT ![c].at = "answered", ![c].result = result]
    PROVE  CallMoves(c, "answered", result)
<1> DEFINE x == [call[c] EXCEPT !.at = "answered", !.result = result]
<1>1. call[c] \in CallStates
  BY DEF TypeOK
<1>2. /\ x \in CallStates /\ x.op = call[c].op /\ x.proc = call[c].proc
      /\ x.at = "answered" /\ x.result = result
  BY <1>1 DEF CallStates, CallSteps
<1>3. call' = [call EXCEPT ![c] = x]
  BY DEF TypeOK
<1> HIDE DEF x
<1>4. call' \in [Calls -> CallStates]
  BY <1>2, <1>3 DEF TypeOK
<1>5. \A d \in Calls : call'[d] = IF d = c THEN x ELSE call[d]
  BY <1>3 DEF TypeOK
<1>6. QED
  BY <1>2, <1>4, <1>5 DEF CallMoves

\* What asking does: the operation gets its request, if it has none yet.
LEMMA AskMoves ==
    ASSUME TypeOK, NEW c \in Calls, Ask(c)
    PROVE  \E op \in Ops, p \in Procs :
              /\ proc[p].at # "down"
              /\ call' \in [Calls -> CallStates] /\ request' \in [Ops -> Requests]
              /\ \A d \in Calls \ {c} : call'[d] = call[d]
              /\ call'[c].op = op /\ call'[c].proc = p
              /\ \/ op \in journal[p] /\ call'[c].at = "answered" /\ call'[c].result = "replayed"
                 \/ op \notin journal[p] /\ call'[c].at = "lock" /\ call'[c].result = "none"
              /\ \A o \in Ops \ {op} : request'[o] = request[o]
              /\ \/ request[op] # NoRequest /\ request' = request
                 \/ /\ request[op] = NoRequest
                    /\ request'[op].targets # {} /\ request'[op].expects = disk
                    /\ request'[op].deletes \subseteq request'[op].targets
<1>1. PICK op \in Ops, p \in Procs :
         /\ proc[p].at # "down"
         /\ IF request[op] # NoRequest
            THEN UNCHANGED request
            ELSE \E targets \in (SUBSET Files) \ {{}} :
                 \E deletes \in SUBSET {f \in targets : disk[f] # Absent} :
                    request' = [request EXCEPT ![op] =
                        [targets |-> targets, expects |-> disk, deletes |-> deletes]]
         /\ call' = [call EXCEPT ![c] =
              IF op \in journal[p]
              THEN [at |-> "answered", op |-> op, proc |-> p, result |-> "replayed"]
              ELSE [at |-> "lock", op |-> op, proc |-> p, result |-> "none"]]
  BY DEF Ask
<1>2. /\ call' \in [Calls -> CallStates]
      /\ \A d \in Calls \ {c} : call'[d] = call[d]
      /\ call'[c].op = op /\ call'[c].proc = p
      /\ \/ op \in journal[p] /\ call'[c].at = "answered" /\ call'[c].result = "replayed"
         \/ op \notin journal[p] /\ call'[c].at = "lock" /\ call'[c].result = "none"
  <2>1. CASE op \in journal[p]
    BY <1>1, <2>1 DEF TypeOK, CallStates, CallSteps, Results
  <2>2. CASE op \notin journal[p]
    BY <1>1, <2>2 DEF TypeOK, CallStates, CallSteps, Results
  <2>3. QED
    BY <2>1, <2>2
<1>3. CASE request[op] # NoRequest
  BY <1>1, <1>2, <1>3 DEF TypeOK
<1>4. CASE request[op] = NoRequest
  <2>1. PICK targets \in (SUBSET Files) \ {{}} :
          \E deletes \in SUBSET {f \in targets : disk[f] # Absent} :
            request' = [request EXCEPT ![op] =
                        [targets |-> targets, expects |-> disk, deletes |-> deletes]]
    BY <1>1, <1>4
  <2>2. PICK deletes \in SUBSET {f \in targets : disk[f] # Absent} :
            request' = [request EXCEPT ![op] =
                        [targets |-> targets, expects |-> disk, deletes |-> deletes]]
    BY <2>1
  <2> DEFINE r == [targets |-> targets, expects |-> disk, deletes |-> deletes]
  <2>3. /\ r \in Requests /\ r.targets # {} /\ r.expects = disk
        /\ r.deletes \subseteq r.targets
    BY DEF Requests, TypeOK
  <2>4. request' = [request EXCEPT ![op] = r]
    BY <2>2
  <2> HIDE DEF r
  <2>5. QED
    BY <1>1, <1>2, <1>4, <2>3, <2>4 DEF TypeOK
<1>5. QED
  BY <1>3, <1>4

\* What publishing one file does.
LEMMA PublishMoves ==
    ASSUME TypeOK, NEW c \in Calls, NEW f \in Files, PublishTarget(c, f), call[c].op \in Ops
    PROVE  /\ f \in todo[c]
           /\ todo' \in [Calls -> SUBSET Files] /\ txn' \in [Calls -> Txns]
           /\ written' \in [Calls -> SUBSET Files] /\ disk' \in [Files -> Versions]
           /\ \A d \in Calls \ {c} : todo'[d] = todo[d] /\ txn'[d] = txn[d] /\ written'[d] = written[d]
           /\ todo'[c] = todo[c] \ {f} /\ written'[c] = written[c] \cup {f}
           /\ txn'[c].state = txn[c].state /\ txn'[c].staged = txn[c].staged \ {f}
           /\ \A g \in Files \ {f} : disk'[g] = disk[g]
           /\ f \in txn[c].staged \cup RequestOf(c).deletes => disk'[f] = Fresh(f, call[c].op)
           /\ f \notin txn[c].staged \cup RequestOf(c).deletes => disk'[f] = disk[f]
<1>1. Fresh(f, call[c].op) \in Versions
  BY DEF Fresh, Versions
<1>2. /\ disk' \in [Files -> Versions]
      /\ \A g \in Files \ {f} : disk'[g] = disk[g]
      /\ f \in txn[c].staged \cup RequestOf(c).deletes => disk'[f] = Fresh(f, call[c].op)
      /\ f \notin txn[c].staged \cup RequestOf(c).deletes => disk'[f] = disk[f]
  BY <1>1 DEF PublishTarget, TypeOK
<1>3. /\ txn' \in [Calls -> Txns]
      /\ \A d \in Calls \ {c} : txn'[d] = txn[d]
      /\ txn'[c].state = txn[c].state /\ txn'[c].staged = txn[c].staged \ {f}
  BY DEF PublishTarget, TypeOK, Txns
<1>4. QED
  BY <1>2, <1>3 DEF PublishTarget, TypeOK

\* What the end of a server does to the calls and to the servers.
Downed == [at |-> "down", folders |-> {}, folder |-> NoTxn]

LEMMA EndsMoves ==
    ASSUME TypeOK, NEW p \in Procs, Ends(p)
    PROVE  /\ call' \in [Calls -> CallStates] /\ proc' \in [Procs -> ProcStates]
           /\ todo' \in [Calls -> SUBSET Files]
           /\ \A c \in Calls : /\ call'[c].op = call[c].op /\ call'[c].proc = call[c].proc
                               /\ call'[c].result = call[c].result
                               /\ c \in InFlight(p) => call'[c].at = "lost" /\ todo'[c] = {}
                               /\ c \notin InFlight(p) => call'[c].at = call[c].at
                               /\ todo'[c] \in {{}, todo[c]}
                               /\ c \notin InFlight(p) /\ c # proc[p].folder => todo'[c] = todo[c]
           /\ \A q \in Procs \ {p} : proc'[q] = proc[q] /\ journal'[q] = journal[q]
           /\ proc'[p].at = "down" /\ proc'[p].folders = {} /\ proc'[p].folder = NoTxn
           /\ journal'[p] = {}
<1>1. \A c \in Calls : call'[c] = IF c \in InFlight(p) THEN [call[c] EXCEPT !.at = "lost"] ELSE call[c]
  BY DEF Ends
<1>2. \A c \in Calls : /\ call'[c] \in CallStates
                       /\ call'[c].op = call[c].op /\ call'[c].proc = call[c].proc
                       /\ call'[c].result = call[c].result
                       /\ c \in InFlight(p) => call'[c].at = "lost"
                       /\ c \notin InFlight(p) => call'[c].at = call[c].at
  <2> SUFFICES ASSUME NEW c \in Calls
               PROVE  /\ call'[c] \in CallStates
                      /\ call'[c].op = call[c].op /\ call'[c].proc = call[c].proc
                      /\ call'[c].result = call[c].result
                      /\ c \in InFlight(p) => call'[c].at = "lost"
                      /\ c \notin InFlight(p) => call'[c].at = call[c].at
    OBVIOUS
  <2>1. call[c] \in CallStates
    BY DEF TypeOK
  <2>2. CASE c \in InFlight(p)
    <3>1. call'[c] = [call[c] EXCEPT !.at = "lost"]
      BY <1>1, <2>2
    <3>2. QED
      BY <2>1, <2>2, <3>1 DEF CallStates, CallSteps
  <2>3. CASE c \notin InFlight(p)
    BY <1>1, <2>1, <2>3
  <2>4. QED
    BY <2>2, <2>3
<1>3. call' \in [Calls -> CallStates]
  BY <1>2 DEF Ends
<1>4. \A c \in Calls : todo'[c] = IF c \in InFlight(p) \/ c = proc[p].folder THEN {} ELSE todo[c]
  BY DEF Ends
<1>5. todo' \in [Calls -> SUBSET Files]
  BY DEF Ends, TypeOK
<1>6. Downed \in ProcStates
  BY DEF Downed, ProcStates, ProcSteps
<1>7. proc' = [proc EXCEPT ![p] = Downed]
  BY DEF Ends, Downed
<1>8. /\ proc' \in [Procs -> ProcStates] /\ \A q \in Procs \ {p} : proc'[q] = proc[q]
      /\ proc'[p] = Downed
  BY <1>6, <1>7 DEF TypeOK
<1>9. QED
  BY <1>2, <1>3, <1>4, <1>5, <1>8 DEF Ends, TypeOK, Downed

LEMMA ProcTo ==
    ASSUME TypeOK, NEW p \in Procs, NEW r \in ProcStates, proc' = [proc EXCEPT ![p] = r]
    PROVE  ProcMoves(p, r.at, r.folders, r.folder)
BY DEF TypeOK, ProcMoves

LEMMA TxnTo ==
    ASSUME TypeOK, NEW c \in Calls, NEW r \in Txns, txn' = [txn EXCEPT ![c] = r]
    PROVE  TxnMoves(c, r.state, r.staged)
BY DEF TypeOK, TxnMoves

LEMMA FolderRemoved ==
    ASSUME TypeOK, NEW c \in Calls, txn' = [txn EXCEPT ![c] = NoFolder]
    PROVE  TxnMoves(c, "none", {})
<1>1. NoFolder \in Txns /\ NoFolder.state = "none" /\ NoFolder.staged = {}
  BY DEF NoFolder, Txns, TxnStates
<1>2. QED
  BY <1>1, TxnTo

LEMMA IntentMade ==
    ASSUME TypeOK, NEW c \in Calls, txn' = [txn EXCEPT ![c].state = "intent"]
    PROVE  TxnMoves(c, "intent", txn[c].staged)
BY DEF TypeOK, TxnMoves, Txns, TxnStates

-----------------------------------------------------------------------------
(* The actions, by what they do *)

LEMMA AskedAnOp ==
    ASSUME RequestInv, NEW c \in Calls, call[c].at # "idle"
    PROVE  call[c].op \in Ops
BY DEF RequestInv

LEMMA TakeLockMoves ==
    ASSUME TypeOK, NEW c \in Calls, TakeLock(c)
    PROVE  /\ call[c].at = "lock" /\ lock = Nobody /\ lock' = c
           /\ CallMoves(c, "check", call[c].result)
           /\ UNCHANGED <<disk, txn, written, request, todo, proc, journal, crashes, faults>>
BY GoToMoves DEF TakeLock, CallSteps, durable

LEMMA BusyMoves ==
    ASSUME TypeOK, NEW c \in Calls, Busy(c)
    PROVE  /\ call[c].at = "lock" /\ lock # Nobody
           /\ CallMoves(c, "answered", "busy")
           /\ UNCHANGED <<disk, txn, written, request, todo, lock, proc, journal, crashes, faults>>
BY AnswerMoves DEF Busy, Results, durable

LEMMA CheckMoves ==
    ASSUME TypeOK, NEW c \in Calls, Check(c)
    PROVE  /\ call[c].at = "check"
           /\ \/ /\ ~Recorded(c) /\ ExpectsHold(c) /\ lock' = lock
                 /\ CallMoves(c, "stage", call[c].result)
              \/ /\ lock' = Nobody
                 /\ \/ Recorded(c) /\ CallMoves(c, "answered", "replayed")
                    \/ ~Recorded(c) /\ ExpectsHold(c) /\ CallMoves(c, "answered", "blocked")
                    \/ ~Recorded(c) /\ ~ExpectsHold(c) /\ CallMoves(c, "answered", "refused")
           /\ UNCHANGED <<disk, txn, written, request, todo, proc, journal, crashes, faults>>
<1>1. /\ call[c].at = "check"
      /\ UNCHANGED <<disk, txn, written, request, todo, proc, journal, crashes, faults>>
  BY DEF Check, durable
<1>2. CASE Recorded(c)
  BY <1>1, <1>2, AnswerMoves DEF Check, Answer, Results
<1>3. CASE ~Recorded(c) /\ ExpectsHold(c)
  <2>1. Answer(c, "blocked") \/ (GoTo(c, "stage") /\ UNCHANGED lock)
    BY <1>3 DEF Check
  <2>2. CASE Answer(c, "blocked")
    BY <1>1, <1>3, <2>2, AnswerMoves DEF Answer, Results
  <2>3. CASE GoTo(c, "stage") /\ UNCHANGED lock
    BY <1>1, <1>3, <2>3, GoToMoves DEF CallSteps
  <2>4. QED
    BY <2>1, <2>2, <2>3
<1>4. CASE ~Recorded(c) /\ ~ExpectsHold(c)
  BY <1>1, <1>4, AnswerMoves DEF Check, Answer, Results
<1>5. QED
  BY <1>2, <1>3, <1>4

LEMMA StageMoves ==
    ASSUME TypeOK, RequestInv, NEW c \in Calls, Stage(c)
    PROVE  /\ call[c].at = "stage"
           /\ CallMoves(c, "commit", call[c].result)
           /\ TxnMoves(c, "staged", RequestOf(c).targets \ RequestOf(c).deletes)
           /\ UNCHANGED <<disk, written, request, todo, lock, proc, journal, crashes, faults>>
<1>0. call[c].op \in Ops
  BY AskedAnOp DEF Stage
<1> DEFINE r == [state |-> "staged", staged |-> RequestOf(c).targets \ RequestOf(c).deletes]
<1>1. r \in Txns
  BY <1>0 DEF TypeOK, Txns, TxnStates, RequestOf, Requests
<1>2. TxnMoves(c, r.state, r.staged)
  BY <1>1, TxnTo DEF Stage
<1>3. QED
  BY <1>2, GoToMoves DEF Stage, CallSteps

LEMMA CommitIntentMoves ==
    ASSUME TypeOK, RequestInv, NEW c \in Calls, CommitIntent(c)
    PROVE  /\ call[c].at = "commit"
           /\ CallMoves(c, "publish", call[c].result)
           /\ TxnMoves(c, "intent", txn[c].staged)
           /\ TodoMoves(c, RequestOf(c).targets)
           /\ UNCHANGED <<disk, written, request, lock, proc, journal, crashes, faults>>
<1>0. call[c].op \in Ops
  BY AskedAnOp DEF CommitIntent
<1>1. TodoMoves(c, RequestOf(c).targets)
  BY <1>0 DEF CommitIntent, TodoMoves, TypeOK, RequestOf, Requests
<1>2. QED
  BY <1>1, GoToMoves, IntentMade DEF CommitIntent, PutIntent, CallSteps

LEMMA CallPublishedMoves ==
    ASSUME TypeOK, NEW c \in Calls, CallPublished(c)
    PROVE  /\ call[c].at = "publish" /\ todo[c] = {}
           /\ CallMoves(c, "record", call[c].result)
           /\ TxnMoves(c, "none", {}) /\ TodoMoves(c, {})
           /\ UNCHANGED <<disk, written, request, lock, proc, journal, crashes, faults>>
<1>1. TodoMoves(c, {})
  BY DEF CallPublished, TodoMoves, TypeOK
<1>2. QED
  BY <1>1, GoToMoves, FolderRemoved DEF CallPublished, Published, CallSteps

LEMMA RecordMoves ==
    ASSUME TypeOK, RequestInv, NEW c \in Calls, Record(c)
    PROVE  /\ call[c].at = "record" /\ lock' = Nobody
           /\ CallMoves(c, "answered", "ok")
           /\ journal' \in [Procs -> SUBSET Ops]
           /\ \A p \in Procs : journal'[p] = IF p = call[c].proc
                                             THEN journal[p] \cup {call[c].op} ELSE journal[p]
           /\ UNCHANGED <<disk, txn, written, request, todo, proc, crashes, faults>>
<1>0. call[c].op \in Ops
  BY AskedAnOp DEF Record
<1>1. call[c].proc \in Procs
  BY DEF TypeOK, CallStates
<1>2. QED
  BY <1>0, <1>1, AnswerMoves DEF Record, Answer, Results, TypeOK, durable

LEMMA WriteFailsMoves ==
    ASSUME TypeOK, NEW c \in Calls, WriteFails(c)
    PROVE  /\ call[c].at \in Inside /\ lock' = Nobody
           /\ faults' \in 0 .. MaxFaults /\ faults' # 0
           /\ CallMoves(c, "answered", "failed") /\ TodoMoves(c, {})
           /\ txn' = txn \/ (call[c].at = "commit" /\ TxnMoves(c, "intent", txn[c].staged))
           /\ UNCHANGED <<disk, written, request, proc, journal, crashes>>
<1>1. TodoMoves(c, {})
  BY DEF WriteFails, TodoMoves, TypeOK
<1>2. faults' \in 0 .. MaxFaults /\ faults' # 0
  BY DEF WriteFails, TypeOK
<1>3. QED
  BY <1>1, <1>2, AnswerMoves, IntentMade DEF WriteFails, PutIntent, Answer, Results, Inside

LEMMA TurnMoves ==
    ASSUME TypeOK, NEW p \in Procs, Launch(p) \/ RecoveryIsBusy(p)
    PROVE  /\ proc[p].at \in {"down", "early"}
           /\ \/ ProcMoves(p, "early", proc[p].folders, proc[p].folder)
              \/ proc[p].at = "early" /\ ProcMoves(p, "stopping", proc[p].folders, proc[p].folder)
           /\ UNCHANGED <<disk, txn, written, request, call, todo, lock, journal, crashes, faults>>
<1>1. CASE Launch(p)
  BY <1>1 DEF Launch, durable, TypeOK, ProcStates, ProcSteps, ProcMoves
<1>2. CASE RecoveryIsBusy(p)
  BY <1>2 DEF RecoveryIsBusy, durable, TypeOK, ProcStates, ProcSteps, ProcMoves
<1>3. QED
  BY <1>1, <1>2

LEMMA StartMoves ==
    ASSUME TypeOK, NEW p \in Procs, Start(p)
    PROVE  /\ proc[p].at = "early" /\ lock = Nobody /\ lock' = p
           /\ ProcMoves(p, "recovering", Folders, NoTxn)
           /\ UNCHANGED <<disk, txn, written, request, call, todo, journal, crashes, faults>>
<1> DEFINE r == [at |-> "recovering", folders |-> Folders, folder |-> NoTxn]
<1>1. r \in ProcStates /\ r.at = "recovering" /\ r.folders = Folders /\ r.folder = NoTxn
  BY DEF ProcStates, ProcSteps, Folders
<1>2. proc' = [proc EXCEPT ![p] = r]
  BY DEF Start, TypeOK
<1> HIDE DEF r
<1>3. QED
  BY <1>1, <1>2, ProcTo DEF Start, durable

LEMMA OpenFolderMoves ==
    ASSUME TypeOK, NEW p \in Procs, OpenFolder(p)
    PROVE  /\ proc[p].at = "recovering" /\ proc[p].folder = NoTxn
           /\ \E c \in proc[p].folders :
                \/ /\ txn[c].state = "intent" /\ txn' = txn
                   /\ ProcMoves(p, "recovering", proc[p].folders, c)
                   /\ todo' = [todo EXCEPT ![c] = RequestOf(c).targets]
                \/ /\ txn[c].state # "intent" /\ TxnMoves(c, "none", {}) /\ todo' = todo
                   /\ ProcMoves(p, "recovering", proc[p].folders \ {c}, NoTxn)
           /\ UNCHANGED <<disk, written, request, call, lock, journal, crashes, faults>>
<1>1. /\ proc[p].at = "recovering" /\ proc[p].folder = NoTxn
      /\ UNCHANGED <<disk, written, request, call, lock, journal, crashes, faults>>
  BY DEF OpenFolder, Recovers
<1>2. PICK c \in proc[p].folders :
         IF HasIntent(c)
         THEN /\ proc' = [proc EXCEPT ![p].folder = c]
              /\ todo' = [todo EXCEPT ![c] = RequestOf(c).targets]
              /\ UNCHANGED txn
         ELSE /\ txn' = [txn EXCEPT ![c] = NoFolder]
              /\ proc' = [proc EXCEPT ![p].folders = @ \ {c}]
              /\ UNCHANGED todo
  BY DEF OpenFolder
<1>3. c \in Calls
  BY DEF TypeOK, ProcStates
<1>4. CASE HasIntent(c)
  <2> DEFINE r == [proc[p] EXCEPT !.folder = c]
  <2>1. /\ r \in ProcStates
        /\ r.at = "recovering" /\ r.folders = proc[p].folders /\ r.folder = c
    BY <1>1, <1>3 DEF TypeOK, ProcStates
  <2>2. proc' = [proc EXCEPT ![p] = r]
    BY <1>2, <1>4 DEF TypeOK
  <2> HIDE DEF r
  <2>3. ProcMoves(p, "recovering", proc[p].folders, c)
    BY <2>1, <2>2, ProcTo
  <2>4. QED
    BY <1>1, <1>2, <1>4, <2>3 DEF HasIntent
<1>5. CASE ~HasIntent(c)
  <2>1. ProcMoves(p, "recovering", proc[p].folders \ {c}, NoTxn)
    BY <1>1, <1>2, <1>3, <1>5 DEF TypeOK, ProcStates, ProcMoves
  <2>2. QED
    BY <1>1, <1>2, <1>3, <1>5, <2>1, FolderRemoved DEF HasIntent
<1>6. QED
  BY <1>4, <1>5

LEMMA RecoveryPublishedMoves ==
    ASSUME TypeOK, NEW p \in Procs, NEW c \in Calls, c = proc[p].folder, RecoveryPublished(p)
    PROVE  /\ proc[p].at = "recovering" /\ todo[c] = {}
           /\ TxnMoves(c, "none", {}) /\ TodoMoves(c, {})
           /\ ProcMoves(p, "recovering", proc[p].folders \ {c}, NoTxn)
           /\ UNCHANGED <<disk, written, request, call, lock, journal, crashes, faults>>
<1> DEFINE r == [at |-> "recovering", folder |-> NoTxn, folders |-> proc[p].folders \ {c}]
<1>1. r \in ProcStates /\ r.at = "recovering" /\ r.folders = proc[p].folders \ {c} /\ r.folder = NoTxn
  BY DEF TypeOK, ProcStates, ProcSteps
<1>2. proc' = [proc EXCEPT ![p] = r]
  BY DEF RecoveryPublished, TypeOK
<1> HIDE DEF r
<1>3. TodoMoves(c, {})
  BY DEF RecoveryPublished, TodoMoves, TypeOK
<1>4. ProcMoves(p, "recovering", proc[p].folders \ {c}, NoTxn)
  BY <1>1, <1>2, ProcTo
<1>5. TxnMoves(c, "none", {})
  BY FolderRemoved DEF RecoveryPublished
<1>6. QED
  BY <1>3, <1>4, <1>5 DEF RecoveryPublished, Recovers, Published

LEMMA ServeMoves ==
    ASSUME TypeOK, NEW p \in Procs, Serve(p)
    PROVE  /\ proc[p].at = "recovering" /\ proc[p].folders = {} /\ lock' = Nobody
           /\ ProcMoves(p, "up", {}, proc[p].folder)
           /\ UNCHANGED <<disk, txn, written, request, call, todo, journal, crashes, faults>>
<1> DEFINE r == [proc[p] EXCEPT !.at = "up"]
<1>1. /\ proc[p].at = "recovering" /\ proc[p].folders = {} /\ proc[p] \in ProcStates
      /\ proc' = [proc EXCEPT ![p] = r]
  BY DEF Serve, Recovers, TypeOK
<1>2. /\ r \in ProcStates /\ r.at = "up" /\ r.folders = {} /\ r.folder = proc[p].folder
  BY <1>1 DEF ProcStates, ProcSteps
<1> HIDE DEF r
<1>3. ProcMoves(p, "up", {}, proc[p].folder)
  BY <1>1, <1>2, ProcTo
<1>4. QED
  BY <1>1, <1>3 DEF Serve, durable

LEMMA RecoveryFailsMoves ==
    ASSUME TypeOK, NEW p \in Procs, RecoveryFails(p)
    PROVE  /\ proc[p].at = "recovering" /\ lock' = Nobody
           /\ faults' \in 0 .. MaxFaults /\ faults' # 0
           /\ todo' \in [Calls -> SUBSET Files]
           /\ \A c \in Calls : todo'[c] = IF c = proc[p].folder THEN {} ELSE todo[c]
           /\ ProcMoves(p, "stopping", {}, NoTxn)
           /\ UNCHANGED <<disk, txn, written, request, call, journal, crashes>>
<1> DEFINE r == [at |-> "stopping", folders |-> {}, folder |-> NoTxn]
<1>1. /\ r \in ProcStates /\ proc' = [proc EXCEPT ![p] = r]
      /\ r.at = "stopping" /\ r.folders = {} /\ r.folder = NoTxn
  BY DEF ProcStates, ProcSteps, RecoveryFails
<1> HIDE DEF r
<1>2. ProcMoves(p, "stopping", {}, NoTxn)
  BY <1>1, ProcTo
<1>3. faults' \in 0 .. MaxFaults /\ faults' # 0
  BY DEF RecoveryFails, TypeOK
<1>4. QED
  BY <1>2, <1>3 DEF RecoveryFails, Recovers, TypeOK, durable

-----------------------------------------------------------------------------
(* The invariant is preserved: types *)

\* Overtaken once, overtaken for good.
LEMMA OvertakenStays ==
    ASSUME TypeOK, [Next]_vars
    PROVE  overtaken' \in BOOLEAN /\ (overtaken => overtaken')
<1>1. overtaken \in BOOLEAN
  BY DEF TypeOK
<1>2. CASE overtaken' = overtaken
  BY <1>1, <1>2
<1>3. ASSUME NEW c \in Calls, PutIntent(c)
      PROVE  overtaken' \in BOOLEAN /\ (overtaken => overtaken')
  BY <1>3, Zenon DEF PutIntent
<1>4. overtaken' = overtaken \/ \E c \in Calls : PutIntent(c)
  BY DEF Next, CallStep, ProcStep, Ask, TakeLock, Busy, Check, Stage, CommitIntent, CallPublishes,
         CallPublished, Record, WriteFails, Crash, Exit, Ends, Launch, RecoveryIsBusy, Start,
         OpenFolder, RecoveryPublishes, RecoveryPublished, Serve, RecoveryFails, vars, durable
<1>5. QED
  BY <1>2, <1>3, <1>4

LEMMA TypeStep ==
    ASSUME WriteInv, [Next]_vars
    PROVE  TypeOK'
<1> USE DEF WriteInv
<1>0. overtaken' \in BOOLEAN
  BY OvertakenStays
<1>1. ASSUME NEW c \in Calls, Ask(c) PROVE TypeOK'
  BY <1>0, <1>1, AskMoves DEF TypeOK, Ask, durable
<1>2. ASSUME NEW c \in Calls, TakeLock(c) PROVE TypeOK'
  BY <1>0, <1>2, TakeLockMoves DEF TypeOK, CallMoves
<1>3. ASSUME NEW c \in Calls, Busy(c) PROVE TypeOK'
  BY <1>0, <1>3, BusyMoves DEF TypeOK, CallMoves
<1>4. ASSUME NEW c \in Calls, Check(c) PROVE TypeOK'
  BY <1>0, <1>4, CheckMoves DEF TypeOK, CallMoves
<1>5. ASSUME NEW c \in Calls, Stage(c) PROVE TypeOK'
  BY <1>0, <1>5, StageMoves DEF TypeOK, CallMoves, TxnMoves
<1>6. ASSUME NEW c \in Calls, CommitIntent(c) PROVE TypeOK'
  BY <1>0, <1>6, CommitIntentMoves DEF TypeOK, CallMoves, TxnMoves, TodoMoves
<1>7. ASSUME NEW c \in Calls, CallPublishes(c) PROVE TypeOK'
  BY <1>0, <1>7, AskedAnOp, PublishMoves DEF TypeOK, CallPublishes
<1>8. ASSUME NEW c \in Calls, CallPublished(c) PROVE TypeOK'
  BY <1>0, <1>8, CallPublishedMoves DEF TypeOK, CallMoves, TxnMoves, TodoMoves
<1>9. ASSUME NEW c \in Calls, Record(c) PROVE TypeOK'
  BY <1>0, <1>9, RecordMoves DEF TypeOK, CallMoves
<1>10. ASSUME NEW c \in Calls, WriteFails(c) PROVE TypeOK'
  BY <1>0, <1>10, WriteFailsMoves DEF TypeOK, CallMoves, TxnMoves, TodoMoves
<1>11. ASSUME NEW p \in Procs, Crash(p) \/ Exit(p) PROVE TypeOK'
  <2>0. Ends(p)
    BY <1>11 DEF Crash, Exit
  <2>1. lock' \in Calls \cup Procs \cup {Nobody} /\ crashes' \in 0 .. MaxCrashes
    BY <1>11 DEF Crash, Exit, Ends, TypeOK
  <2>2. journal' \in [Procs -> SUBSET Ops]
    BY <2>0 DEF Ends, TypeOK
  <2>3. QED
    BY <1>0, <1>0, <2>0, <2>1, <2>2, EndsMoves DEF TypeOK, Ends, durable
<1>12. ASSUME NEW p \in Procs, Start(p) PROVE TypeOK'
  BY <1>0, <1>12, StartMoves DEF TypeOK, ProcMoves
<1>13. ASSUME NEW p \in Procs, OpenFolder(p) PROVE TypeOK'
  <2>1. PICK c \in proc[p].folders :
          \/ /\ txn[c].state = "intent" /\ txn' = txn
             /\ ProcMoves(p, "recovering", proc[p].folders, c)
             /\ todo' = [todo EXCEPT ![c] = RequestOf(c).targets]
          \/ /\ txn[c].state # "intent" /\ TxnMoves(c, "none", {}) /\ todo' = todo
             /\ ProcMoves(p, "recovering", proc[p].folders \ {c}, NoTxn)
    BY <1>0, <1>13, OpenFolderMoves
  <2>2. c \in Calls
    BY DEF TypeOK, ProcStates
  <2>3. RequestOf(c).targets \in SUBSET Files
    BY <2>1, <2>2 DEF TypeOK, RequestOf, RecoveryInv, RecoveryHolds, RequestInv, Requests, Over
  <2>4. todo' \in [Calls -> SUBSET Files] /\ txn' \in [Calls -> Txns] /\ proc' \in [Procs -> ProcStates]
    BY <2>1, <2>2, <2>3 DEF TypeOK, TxnMoves, ProcMoves
  <2>5. QED
    BY <1>0, <1>13, <2>4, OpenFolderMoves DEF TypeOK
<1>14. ASSUME NEW p \in Procs, RecoveryPublishes(p) PROVE TypeOK'
  <2>1. proc[p].folder \in Calls /\ call[proc[p].folder].op \in Ops
    BY <1>0, <1>14, AskedAnOp DEF TypeOK, RecoveryPublishes, ProcStates, RecoveryInv, RecoveryHolds, Over
  <2>2. QED
    BY <1>0, <1>14, <2>1, PublishMoves DEF TypeOK, RecoveryPublishes
<1>15. ASSUME NEW p \in Procs, RecoveryPublished(p) PROVE TypeOK'
  <2>1. proc[p].folder \in Calls
    BY <1>15 DEF TypeOK, RecoveryPublished, ProcStates
  <2>2. QED
    BY <1>0, <1>15, <2>1, RecoveryPublishedMoves DEF TypeOK, TxnMoves, TodoMoves, ProcMoves
<1>16. ASSUME NEW p \in Procs, Serve(p) PROVE TypeOK'
  BY <1>0, <1>16, ServeMoves DEF TypeOK, ProcMoves
<1>17. ASSUME NEW p \in Procs, RecoveryFails(p) PROVE TypeOK'
  BY <1>0, <1>17, RecoveryFailsMoves DEF TypeOK, ProcMoves
<1>a. ASSUME NEW p \in Procs, Launch(p) \/ RecoveryIsBusy(p) PROVE TypeOK'
  BY <1>0, <1>a, TurnMoves DEF TypeOK, ProcMoves
<1>18. CASE UNCHANGED vars
  BY <1>18 DEF TypeOK, vars, volatile, durable
<1>19. QED
  BY <1>1, <1>2, <1>3, <1>4, <1>5, <1>6, <1>7, <1>8, <1>9, <1>10, <1>11, <1>12, <1>13,
     <1>14, <1>15, <1>16, <1>17, <1>18, <1>a DEF Next, CallStep, ProcStep

-----------------------------------------------------------------------------
(* Requests *)

\* Asking leaves the requests of the others alone, and its own if it has one.
LEMMA OthersKeepRequests ==
    ASSUME TypeOK, RequestInv, NEW c \in Calls, Ask(c)
    PROVE  /\ call[c].at = "idle"
           /\ \A d \in Calls \ {c} :
                call'[d] = call[d] /\ (call[d].at # "idle" => RequestOf(d)' = RequestOf(d))
           /\ RequestInv'
           /\ UNCHANGED <<disk, txn, written, todo, lock, proc, journal, crashes, faults>>
<1>1. /\ call[c].at = "idle"
      /\ UNCHANGED <<disk, txn, written, todo, lock, proc, journal, crashes, faults>>
  BY DEF Ask, durable
<1>2. PICK op \in Ops, p \in Procs :
         /\ call' \in [Calls -> CallStates] /\ request' \in [Ops -> Requests]
         /\ \A d \in Calls \ {c} : call'[d] = call[d]
         /\ call'[c].op = op /\ call'[c].at # "idle"
         /\ \A o \in Ops \ {op} : request'[o] = request[o]
         /\ \/ request[op] # NoRequest /\ request' = request
            \/ /\ request[op] = NoRequest
               /\ request'[op].targets # {}
               /\ request'[op].deletes \subseteq request'[op].targets
  BY AskMoves
<1>3. NoRequest.targets = {}
  BY DEF NoRequest
<1>4. \A o \in Ops : request[o].targets # {} => request'[o] = request[o]
  BY <1>2, <1>3
<1>5. \A d \in Calls \ {c} : call[d].at # "idle" => RequestOf(d)' = RequestOf(d)
  BY <1>2, <1>4 DEF RequestInv, RequestOf
<1>6. \A o \in Ops : /\ request'[o].deletes \subseteq request'[o].targets
                     /\ request'[o].targets = {} => request'[o] = NoRequest
  BY <1>2 DEF RequestInv
<1>7. request'[op].targets # {}
  BY <1>2 DEF RequestInv
<1>8. ASSUME NEW d \in Calls
      PROVE  /\ call'[d].at # "idle" => call'[d].op \in Ops /\ request'[call'[d].op].targets # {}
             /\ call'[d].at = "idle" => call'[d].op = NoOp /\ call'[d].result = "none"
  BY <1>2, <1>4, <1>7 DEF RequestInv, RequestOf
<1>9. RequestInv'
  BY <1>6, <1>8 DEF RequestInv, RequestOf, NoRequest
<1>10. QED
  BY <1>1, <1>2, <1>5, <1>9

\* All other actions leave the requests alone, and no call goes back to be idle.
LEMMA RequestsStay ==
    ASSUME WriteInv, [Next]_vars, \A c \in Calls : ~Ask(c)
    PROVE  /\ request' = request
           /\ \A c \in Calls : /\ call'[c].op = call[c].op /\ call'[c].proc = call[c].proc
                               /\ call[c].at # "idle" => call'[c].at # "idle"
                               /\ call[c].at = "idle" =>
                                    call'[c].at = "idle" /\ call'[c].result = call[c].result
<1> DEFINE Stay == /\ request' = request
                   /\ \A c \in Calls :
                        /\ call'[c].op = call[c].op /\ call'[c].proc = call[c].proc
                        /\ call[c].at # "idle" => call'[c].at # "idle"
                        /\ call[c].at = "idle" =>
                             call'[c].at = "idle" /\ call'[c].result = call[c].result
<1> USE DEF WriteInv
<1>1. ASSUME NEW c \in Calls, TakeLock(c) PROVE Stay
  BY <1>1, TakeLockMoves DEF CallMoves
<1>2. ASSUME NEW c \in Calls, Busy(c) PROVE Stay
  BY <1>2, BusyMoves DEF CallMoves
<1>3. ASSUME NEW c \in Calls, Check(c) PROVE Stay
  BY <1>3, CheckMoves DEF CallMoves
<1>4. ASSUME NEW c \in Calls, Stage(c) PROVE Stay
  BY <1>4, GoToMoves DEF CallMoves, Stage, CallSteps
<1>5. ASSUME NEW c \in Calls, CommitIntent(c) PROVE Stay
  BY <1>5, GoToMoves DEF CallMoves, CommitIntent, CallSteps
<1>6. ASSUME NEW c \in Calls, CallPublished(c) PROVE Stay
  BY <1>6, CallPublishedMoves DEF CallMoves
<1>7. ASSUME NEW c \in Calls, Record(c) PROVE Stay
  BY <1>7, RecordMoves DEF CallMoves
<1>8. ASSUME NEW c \in Calls, WriteFails(c) PROVE Stay
  BY <1>8, WriteFailsMoves DEF CallMoves, Inside
<1>9. ASSUME NEW p \in Procs, Ends(p) PROVE Stay
  BY <1>9, EndsMoves DEF Ends, InFlight
<1>10. CASE UNCHANGED <<call, request>>
  BY <1>10
<1>11. QED
  BY <1>1, <1>2, <1>3, <1>4, <1>5, <1>6, <1>7, <1>8, <1>9, <1>10
     DEF Next, CallStep, ProcStep, CallPublishes, Crash, Exit, Launch, RecoveryIsBusy, Start,
         OpenFolder, RecoveryPublishes,
         RecoveryPublished, Serve, RecoveryFails, vars, volatile

LEMMA RequestStep ==
    ASSUME WriteInv, [Next]_vars
    PROVE  RequestInv'
<1>1. CASE \E c \in Calls : Ask(c)
  BY <1>1, OthersKeepRequests DEF WriteInv
<1>2. CASE \A c \in Calls : ~Ask(c)
  <2>1. \A c \in Calls : RequestOf(c)' = RequestOf(c)
    BY <1>2, RequestsStay DEF RequestOf
  <2>2. QED
    BY <1>2, <2>1, RequestsStay DEF WriteInv, RequestInv
<1>3. QED
  BY <1>1, <1>2

\* Who has asked keeps its request.
LEMMA RequestsKept ==
    ASSUME WriteInv, [Next]_vars
    PROVE  \A c \in Calls : call[c].at # "idle" =>
              /\ RequestOf(c)' = RequestOf(c) /\ call'[c].at # "idle"
              /\ call'[c].op = call[c].op /\ call'[c].proc = call[c].proc
<1>1. ASSUME NEW d \in Calls, Ask(d)
      PROVE  \A c \in Calls : call[c].at # "idle" =>
                /\ RequestOf(c)' = RequestOf(c) /\ call'[c].at # "idle"
                /\ call'[c].op = call[c].op /\ call'[c].proc = call[c].proc
  BY <1>1, OthersKeepRequests DEF WriteInv
<1>2. CASE \A c \in Calls : ~Ask(c)
  BY <1>2, RequestsStay DEF RequestOf
<1>3. QED
  BY <1>1, <1>2

-----------------------------------------------------------------------------
(* The lock *)

\* What a server does with the lock.
LEMMA ServerMoves ==
    ASSUME WriteInv, NEW p \in Procs,
           \/ Launch(p) \/ RecoveryIsBusy(p) \/ Start(p) \/ OpenFolder(p)
           \/ RecoveryPublished(p) \/ Serve(p) \/ RecoveryFails(p)
    PROVE  /\ proc' \in [Procs -> ProcStates] /\ proc'[p].at # "down" /\ call' = call
           /\ \A q \in Procs \ {p} : proc'[q] = proc[q]
           /\ \/ Start(p) /\ lock = Nobody /\ lock' = p /\ proc'[p].at = "recovering"
              \/ /\ proc[p].at = "recovering" /\ proc'[p].at # "recovering"
                 /\ lock' = Nobody
              \/ (proc[p].at = "recovering" <=> proc'[p].at = "recovering") /\ lock' = lock
<1> USE DEF WriteInv, ProcMoves
<1>1. CASE Launch(p) \/ RecoveryIsBusy(p)
  BY <1>1, TurnMoves
<1>2. CASE Start(p)
  BY <1>2, StartMoves
<1>3. CASE OpenFolder(p)
  BY <1>3, OpenFolderMoves
<1>4. CASE RecoveryPublished(p)
  <2>1. proc[p].folder \in Calls
    BY <1>4 DEF TypeOK, RecoveryPublished, ProcStates
  <2>2. QED
    BY <1>4, <2>1, RecoveryPublishedMoves
<1>5. CASE Serve(p)
  BY <1>5, ServeMoves
<1>6. CASE RecoveryFails(p)
  BY <1>6, RecoveryFailsMoves
<1>7. QED
  BY <1>1, <1>2, <1>3, <1>4, <1>5, <1>6

LEMMA LockStep ==
    ASSUME WriteInv, [Next]_vars
    PROVE  LockInv'
<1> USE DEF WriteInv
<1>0. \A c \in Calls, p \in Procs : c # p /\ c # Nobody /\ p # Nobody
  OBVIOUS
<1>1. ASSUME NEW c \in Calls, Ask(c) PROVE LockInv'
  <2>1. PICK p \in Procs : proc[p].at # "down" /\ call'[c].proc = p /\ call'[c].at \in {"answered", "lock"}
    BY <1>1, AskMoves
  <2>2. QED
    BY <1>1, <2>1, OthersKeepRequests DEF LockInv, Inside
<1>2. ASSUME NEW c \in Calls, TakeLock(c) PROVE LockInv'
  BY <1>0, <1>2, TakeLockMoves DEF LockInv, CallMoves, Inside
<1>3. ASSUME NEW c \in Calls, Busy(c) PROVE LockInv'
  BY <1>3, BusyMoves DEF LockInv, CallMoves, Inside
<1>4. ASSUME NEW c \in Calls, Check(c) PROVE LockInv'
  BY <1>0, <1>4, CheckMoves DEF LockInv, CallMoves, Inside
<1>5. ASSUME NEW c \in Calls, Stage(c) PROVE LockInv'
  <2>1. call[c].at = "stage" /\ CallMoves(c, "commit", call[c].result) /\ UNCHANGED <<lock, proc>>
    BY <1>5, StageMoves
  <2>2. QED
    BY <2>1 DEF LockInv, CallMoves, Inside
<1>6. ASSUME NEW c \in Calls, CommitIntent(c) PROVE LockInv'
  BY <1>6, CommitIntentMoves DEF LockInv, CallMoves, Inside
<1>7. CASE UNCHANGED <<call, lock, proc>>
  BY <1>7 DEF LockInv
<1>8. ASSUME NEW c \in Calls, CallPublished(c) PROVE LockInv'
  BY <1>8, CallPublishedMoves DEF LockInv, CallMoves, Inside
<1>9. ASSUME NEW c \in Calls, Record(c) PROVE LockInv'
  BY <1>0, <1>9, RecordMoves DEF LockInv, CallMoves, Inside
<1>10. ASSUME NEW c \in Calls, WriteFails(c) PROVE LockInv'
  BY <1>0, <1>10, WriteFailsMoves DEF LockInv, CallMoves, Inside
<1>11. ASSUME NEW p \in Procs, Ends(p) PROVE LockInv'
  <2>1. lock' = IF lock \in InFlight(p) \cup {p} THEN Nobody ELSE lock
    BY <1>11 DEF Ends
  <2>2. ASSUME NEW c \in Calls PROVE call'[c].at \in Inside <=> lock' = c
    BY <1>0, <1>11, <2>1, EndsMoves DEF LockInv, Inside, InFlight
  <2>3. ASSUME NEW q \in Procs PROVE proc'[q].at = "recovering" <=> lock' = q
    BY <1>0, <1>11, <2>1, EndsMoves DEF LockInv, InFlight
  <2>4. ASSUME NEW c \in Calls, call'[c].at \in Inside \cup {"lock"}
        PROVE  proc'[call'[c].proc].at # "down"
    <3>1. call'[c].at = call[c].at /\ call'[c].proc = call[c].proc /\ call[c].proc # p
      BY <1>11, <2>4, EndsMoves DEF InFlight, Inside
    <3>2. call[c].proc \in Procs
      BY DEF TypeOK, CallStates
    <3>3. QED
      BY <1>11, <2>4, <3>1, <3>2, EndsMoves DEF LockInv
  <2>5. QED
    BY <2>2, <2>3, <2>4 DEF LockInv
<1>12. ASSUME NEW p \in Procs,
              \/ Launch(p) \/ RecoveryIsBusy(p) \/ Start(p) \/ OpenFolder(p)
              \/ RecoveryPublished(p) \/ Serve(p) \/ RecoveryFails(p)
       PROVE  LockInv'
  <2>1. /\ proc' \in [Procs -> ProcStates] /\ proc'[p].at # "down" /\ call' = call
        /\ \A q \in Procs \ {p} : proc'[q] = proc[q]
        /\ \/ Start(p) /\ lock = Nobody /\ lock' = p /\ proc'[p].at = "recovering"
           \/ /\ proc[p].at = "recovering" /\ proc'[p].at # "recovering"
              /\ lock' = Nobody
           \/ (proc[p].at = "recovering" <=> proc'[p].at = "recovering") /\ lock' = lock
    BY <1>12, ServerMoves
  <2>2. \A c \in Calls : call[c].proc \in Procs
    BY DEF TypeOK, CallStates
  <2>3. \A c \in Calls : call'[c].at \in Inside \cup {"lock"} => proc'[call'[c].proc].at # "down"
    BY <2>1, <2>2 DEF LockInv
  <2>4. /\ \A c \in Calls : call'[c].at \in Inside <=> lock' = c
        /\ \A q \in Procs : proc'[q].at = "recovering" <=> lock' = q
    BY <1>0, <2>1 DEF LockInv
  <2>5. QED
    BY <2>3, <2>4 DEF LockInv
<1>19. QED
  BY <1>1, <1>2, <1>3, <1>4, <1>5, <1>6, <1>7, <1>8, <1>9, <1>10, <1>11, <1>12
     DEF Next, CallStep, ProcStep, Crash, Exit, CallPublishes, RecoveryPublishes, vars, volatile

-----------------------------------------------------------------------------
(* The folders *)


LEMMA FolderKept ==
    ASSUME WriteInv, [Next]_vars, NEW c \in Calls, call'[c].at = call[c].at,
           txn'[c] = txn[c], written'[c] = written[c], todo'[c] = todo[c]
    PROVE  FolderHolds(c)'
<1>1. CASE call[c].at = "idle"
  BY <1>1 DEF WriteInv, FolderInv, FolderHolds, FolderOf
<1>2. CASE call[c].at # "idle"
  BY <1>2, RequestsKept DEF WriteInv, FolderInv, FolderHolds, FolderOf
<1>3. QED
  BY <1>1, <1>2

LEMMA PublishKeepsFolders ==
    ASSUME WriteInv, [Next]_vars, NEW c \in Calls, NEW f \in Files, PublishTarget(c, f),
           UNCHANGED <<call, request>>, txn[c].state = "intent", NEW d \in Calls
    PROVE  FolderHolds(d)'
<1>1. call[c].at # "idle" /\ call[c].op \in Ops
  BY AskedAnOp DEF WriteInv, FolderInv, FolderHolds, FolderOf
<1>2. CASE d # c
  BY <1>1, <1>2, FolderKept, PublishMoves DEF WriteInv
<1>3. CASE d = c
  <2>1. /\ f \in todo[c]
        /\ todo'[c] = todo[c] \ {f} /\ written'[c] = written[c] \cup {f}
        /\ txn'[c].state = "intent" /\ txn'[c].staged = txn[c].staged \ {f}
    BY <1>1, PublishMoves DEF WriteInv
  <2>2. FolderHolds(c) /\ RequestOf(c)' = RequestOf(c) /\ call'[c] = call[c]
    BY DEF WriteInv, FolderInv, RequestOf
  <2>3. QED
    BY <1>3, <2>1, <2>2 DEF FolderHolds, FolderOf
<1>4. QED
  BY <1>2, <1>3

LEMMA FolderStep ==
    ASSUME WriteInv, [Next]_vars
    PROVE  FolderInv'
<1> USE DEF WriteInv
<1> SUFFICES ASSUME NEW d \in Calls PROVE FolderHolds(d)'
  BY DEF FolderInv
<1>0. FolderHolds(d)
  BY DEF FolderInv
<1>a. call[d].at # "idle" => RequestOf(d)' = RequestOf(d)
  BY RequestsKept
<1>1. ASSUME NEW c \in Calls, Ask(c) PROVE FolderHolds(d)'
  <2>1. CASE d # c
    BY <1>1, <2>1, FolderKept, OthersKeepRequests
  <2>2. CASE d = c
    <3>1. call[c].at = "idle" /\ call'[c].at \in {"answered", "lock"}
      BY <1>1, AskMoves, OthersKeepRequests
    <3>2. UNCHANGED <<txn, written, todo>>
      BY <1>1, OthersKeepRequests
    <3>3. QED
      BY <1>0, <2>2, <3>1, <3>2 DEF FolderHolds, FolderOf
  <2>3. QED
    BY <2>1, <2>2
<1>2. ASSUME NEW c \in Calls, TakeLock(c) \/ Busy(c) \/ Check(c) PROVE FolderHolds(d)'
  <2>1. /\ UNCHANGED <<txn, written, todo>>
        /\ c # d => call'[d].at = call[d].at
        /\ call[c].at \in {"lock", "check"}
        /\ call'[c].at \in {"check", "stage", "answered"}
    BY <1>2, TakeLockMoves, BusyMoves, CheckMoves DEF CallMoves
  <2>2. CASE c = d
    BY <1>0, <1>a, <2>1, <2>2 DEF FolderHolds, FolderOf
  <2>3. QED
    BY <2>1, <2>2, FolderKept
<1>5. ASSUME NEW c \in Calls, Stage(c) PROVE FolderHolds(d)'
  BY <1>0, <1>5, <1>a, StageMoves, FolderKept DEF FolderHolds, FolderOf, CallMoves, TxnMoves
<1>6. ASSUME NEW c \in Calls, CommitIntent(c) PROVE FolderHolds(d)'
  BY <1>0, <1>6, <1>a, CommitIntentMoves, FolderKept
     DEF FolderHolds, FolderOf, CallMoves, TxnMoves, TodoMoves
<1>7. ASSUME NEW c \in Calls, CallPublishes(c) PROVE FolderHolds(d)'
  BY <1>7, PublishKeepsFolders DEF CallPublishes, FolderInv, FolderHolds, FolderOf
<1>8. ASSUME NEW c \in Calls, CallPublished(c) PROVE FolderHolds(d)'
  <2>1. /\ call[c].at = "publish" /\ todo[c] = {} /\ written' = written
        /\ CallMoves(c, "record", call[c].result) /\ TxnMoves(c, "none", {}) /\ TodoMoves(c, {})
    BY <1>8, CallPublishedMoves
  <2>2. CASE d # c
    BY <2>1, <2>2, FolderKept DEF CallMoves, TxnMoves, TodoMoves
  <2>3. CASE d = c
    <3>1. written[d] \subseteq RequestOf(d).targets /\ RequestOf(d).targets \subseteq written[d]
      BY <1>0, <2>1, <2>3 DEF FolderHolds, FolderOf
    <3>2. written[d] = RequestOf(d).targets
      BY <3>1
    <3>3. QED
      BY <1>a, <2>1, <2>3, <3>2 DEF FolderHolds, FolderOf, CallMoves, TxnMoves, TodoMoves
  <2>4. QED
    BY <2>2, <2>3
<1>9. ASSUME NEW c \in Calls, Record(c) PROVE FolderHolds(d)'
  BY <1>0, <1>9, <1>a, RecordMoves, FolderKept DEF FolderHolds, FolderOf, CallMoves
<1>10. ASSUME NEW c \in Calls, WriteFails(c) PROVE FolderHolds(d)'
  BY <1>0, <1>10, <1>a, WriteFailsMoves, FolderKept
     DEF FolderHolds, FolderOf, CallMoves, TxnMoves, TodoMoves, Inside
<1>11. ASSUME NEW p \in Procs, Ends(p) PROVE FolderHolds(d)'
  <2>1. UNCHANGED <<txn, written>>
    BY <1>11 DEF Ends, durable
  <2>2. CASE d \in InFlight(p)
    <3>1. call[d].at # "idle" /\ call'[d].at = "lost" /\ todo'[d] = {}
      BY <1>11, <2>2, EndsMoves DEF InFlight
    <3>2. QED
      BY <1>0, <1>a, <2>1, <3>1 DEF FolderHolds, FolderOf
  <2>3. CASE d = proc[p].folder /\ d \notin InFlight(p)
    <3>1. call[d].at \in Over /\ call'[d].at = call[d].at /\ todo'[d] \in {{}, todo[d]}
      BY <1>11, <2>3, EndsMoves DEF RecoveryInv, RecoveryHolds
    <3>2. QED
      BY <1>0, <1>a, <2>1, <3>1 DEF FolderHolds, FolderOf, Over
  <2>4. CASE d # proc[p].folder /\ d \notin InFlight(p)
    BY <1>11, <2>1, <2>4, EndsMoves, FolderKept
  <2>5. QED
    BY <2>2, <2>3, <2>4
<1>12. CASE UNCHANGED <<call, txn, written, todo>>
  BY <1>12, FolderKept
<1>13. ASSUME NEW p \in Procs, OpenFolder(p) PROVE FolderHolds(d)'
  <2>1. PICK c \in proc[p].folders :
          \/ txn' = txn /\ todo' = [todo EXCEPT ![c] = RequestOf(c).targets]
          \/ txn[c].state # "intent" /\ TxnMoves(c, "none", {}) /\ todo' = todo
    BY <1>13, OpenFolderMoves
  <2>2. UNCHANGED <<call, written>>
    BY <1>13 DEF OpenFolder
  <2>3. CASE d # c
    BY <2>1, <2>2, <2>3, FolderKept DEF TxnMoves, TypeOK
  <2>4. CASE d = c
    <3>1. call[c].at \in Over
      BY DEF RecoveryInv, RecoveryHolds
    <3>2. txn[c].state \in TxnStates
      BY <2>4 DEF TypeOK, Txns
    <3>3. QED
      BY <1>0, <1>a, <2>1, <2>2, <2>4, <3>1, <3>2
         DEF FolderHolds, FolderOf, TxnMoves, TxnStates, TypeOK, Over
  <2>5. QED
    BY <2>3, <2>4
<1>14. ASSUME NEW p \in Procs, RecoveryPublishes(p) PROVE FolderHolds(d)'
  BY <1>14, PublishKeepsFolders DEF RecoveryPublishes, RecoveryInv, RecoveryHolds, TypeOK, ProcStates
<1>15. ASSUME NEW p \in Procs, RecoveryPublished(p) PROVE FolderHolds(d)'
  <2>1. proc[p].folder \in Calls /\ proc[p].folder # NoTxn
    BY <1>15 DEF TypeOK, RecoveryPublished, ProcStates
  <2>2. PICK c \in Calls :
          /\ c = proc[p].folder /\ todo[c] = {}
          /\ TxnMoves(c, "none", {}) /\ TodoMoves(c, {}) /\ UNCHANGED <<call, written>>
    BY <1>15, <2>1, RecoveryPublishedMoves
  <2>3. CASE d # c
    BY <2>2, <2>3, FolderKept DEF TxnMoves, TodoMoves
  <2>4. CASE d = c
    <3>1. /\ call[c].at \in Over /\ txn[c].state = "intent"
          /\ RequestOf(c).targets \subseteq written[c]
      BY <2>1, <2>2 DEF RecoveryInv, RecoveryHolds
    <3>2. written[d] \subseteq RequestOf(d).targets
      BY <1>0 DEF FolderHolds, FolderOf
    <3>3. written[d] = RequestOf(d).targets
      BY <2>4, <3>1, <3>2
    <3>4. QED
      BY <1>a, <2>2, <2>4, <3>1, <3>3 DEF FolderHolds, FolderOf, TxnMoves, TodoMoves, Over
  <2>5. QED
    BY <2>3, <2>4
<1>17. ASSUME NEW p \in Procs, RecoveryFails(p) PROVE FolderHolds(d)'
  <2>1. CASE d = proc[p].folder
    <3>1. call[d].at \in Over
      BY <2>1 DEF RecoveryInv, RecoveryHolds
    <3>2. QED
      BY <1>0, <1>17, <1>a, <2>1, <3>1, RecoveryFailsMoves DEF FolderHolds, FolderOf, Over
  <2>2. CASE d # proc[p].folder
    BY <1>17, <2>2, RecoveryFailsMoves, FolderKept
  <2>3. QED
    BY <2>1, <2>2
<1>19. QED
  BY <1>1, <1>2, <1>5, <1>6, <1>7, <1>8, <1>9, <1>10, <1>11, <1>12, <1>13, <1>14, <1>15, <1>17
     DEF Next, CallStep, ProcStep, Crash, Exit, Launch, RecoveryIsBusy, Start, Serve, vars,
         volatile, durable

-----------------------------------------------------------------------------
(* Answers *)

\* An answer stands, and a settled transaction stays settled.
LEMMA AnswersStand ==
    ASSUME WriteInv, [Next]_vars, NEW d \in Calls, call[d].at \in Over
    PROVE  /\ call'[d].at = call[d].at /\ call'[d].result = call[d].result
           /\ txn[d].state = "none" => txn'[d].state = "none" /\ written'[d] = written[d]
<1> DEFINE Stands ==
             /\ call'[d].at = call[d].at /\ call'[d].result = call[d].result
             /\ txn[d].state = "none" => txn'[d].state = "none" /\ written'[d] = written[d]
<1> USE DEF WriteInv, Over
<1>1. ASSUME NEW c \in Calls, Ask(c) PROVE Stands
  BY <1>1, OthersKeepRequests
<1>2. ASSUME NEW c \in Calls, TakeLock(c) \/ Busy(c) \/ Check(c) PROVE Stands
  BY <1>2, TakeLockMoves, BusyMoves, CheckMoves DEF CallMoves
<1>3. ASSUME NEW c \in Calls, Stage(c) PROVE Stands
  BY <1>3, StageMoves DEF CallMoves, TxnMoves
<1>4. ASSUME NEW c \in Calls, CommitIntent(c) PROVE Stands
  BY <1>4, CommitIntentMoves DEF CallMoves, TxnMoves
<1>5. ASSUME NEW c \in Calls, CallPublishes(c) PROVE Stands
  BY <1>5, AskedAnOp, PublishMoves DEF CallPublishes
<1>6. ASSUME NEW c \in Calls, CallPublished(c) PROVE Stands
  BY <1>6, CallPublishedMoves DEF CallMoves, TxnMoves
<1>7. ASSUME NEW c \in Calls, Record(c) PROVE Stands
  BY <1>7, RecordMoves DEF CallMoves
<1>8. ASSUME NEW c \in Calls, WriteFails(c) PROVE Stands
  BY <1>8, WriteFailsMoves DEF CallMoves, TxnMoves, Inside
<1>9. ASSUME NEW p \in Procs, Ends(p) PROVE Stands
  BY <1>9, EndsMoves DEF Ends, InFlight, durable
<1>10. ASSUME NEW p \in Procs, OpenFolder(p) PROVE Stands
  <2>1. PICK c \in proc[p].folders :
          txn' = txn \/ TxnMoves(c, "none", {})
    BY <1>10, OpenFolderMoves
  <2>2. UNCHANGED <<call, written>>
    BY <1>10 DEF OpenFolder
  <2>3. QED
    BY <2>1, <2>2 DEF TxnMoves
<1>11. ASSUME NEW p \in Procs, RecoveryPublishes(p) PROVE Stands
  <2>1. PICK c \in Calls : \E f \in Files : c = proc[p].folder /\ PublishTarget(c, f)
    BY <1>11 DEF RecoveryPublishes, TypeOK, ProcStates
  <2>2. txn[c].state = "intent" /\ call[c].op \in Ops
    BY <1>11, <2>1, AskedAnOp DEF RecoveryInv, RecoveryHolds, RecoveryPublishes
  <2>3. QED
    BY <1>11, <2>1, <2>2, PublishMoves DEF RecoveryPublishes
<1>12. ASSUME NEW p \in Procs, RecoveryPublished(p) PROVE Stands
  <2>1. PICK c \in Calls : c = proc[p].folder
    BY <1>12 DEF RecoveryPublished, TypeOK, ProcStates
  <2>2. TxnMoves(c, "none", {}) /\ UNCHANGED <<call, written>>
    BY <1>12, <2>1, RecoveryPublishedMoves
  <2>3. QED
    BY <2>2 DEF TxnMoves
<1>13. CASE UNCHANGED <<call, txn, written>>
  BY <1>13
<1>14. QED
  BY <1>1, <1>2, <1>3, <1>4, <1>5, <1>6, <1>7, <1>8, <1>9, <1>10, <1>11, <1>12, <1>13
     DEF Next, CallStep, ProcStep, Crash, Exit, Launch, RecoveryIsBusy, Start, Serve,
         RecoveryFails, vars, volatile, durable

\* Who gets an answer in this step, and which.
LEMMA AnswersGiven ==
    ASSUME WriteInv, [Next]_vars, NEW d \in Calls, call[d].at # "answered"
    PROVE  \/ call'[d].result = "none"
           \/ /\ call'[d].at = "answered"
              /\ \/ call'[d].result = "failed"
                 \/ call'[d].result = "ok" /\ call[d].at = "record" /\ UNCHANGED <<txn, written>>
                 \/ /\ call'[d].result \in {"replayed", "busy", "refused", "blocked"}
                    /\ call[d].at \in {"idle", "lock", "check"} /\ UNCHANGED <<txn, written>>
<1> DEFINE Given ==
             \/ call'[d].result = "none"
             \/ /\ call'[d].at = "answered"
                /\ \/ call'[d].result = "failed"
                   \/ call'[d].result = "ok" /\ call[d].at = "record" /\ UNCHANGED <<txn, written>>
                   \/ /\ call'[d].result \in {"replayed", "busy", "refused", "blocked"}
                      /\ call[d].at \in {"idle", "lock", "check"} /\ UNCHANGED <<txn, written>>
<1> USE DEF WriteInv
<1>0. call[d].result = "none"
  BY DEF AnswerInv, AnswerHolds
<1>1. ASSUME NEW c \in Calls, Ask(c) PROVE Given
  BY <1>0, <1>1, AskMoves, OthersKeepRequests
<1>2. ASSUME NEW c \in Calls, TakeLock(c) \/ Busy(c) \/ Check(c) PROVE Given
  BY <1>0, <1>2, TakeLockMoves, BusyMoves, CheckMoves DEF CallMoves
<1>3. ASSUME NEW c \in Calls, Stage(c) PROVE Given
  BY <1>0, <1>3, StageMoves DEF CallMoves
<1>4. ASSUME NEW c \in Calls, CommitIntent(c) PROVE Given
  BY <1>0, <1>4, CommitIntentMoves DEF CallMoves
<1>6. ASSUME NEW c \in Calls, CallPublished(c) PROVE Given
  BY <1>0, <1>6, CallPublishedMoves DEF CallMoves
<1>7. ASSUME NEW c \in Calls, Record(c) PROVE Given
  BY <1>0, <1>7, RecordMoves DEF CallMoves
<1>8. ASSUME NEW c \in Calls, WriteFails(c) PROVE Given
  BY <1>0, <1>8, WriteFailsMoves DEF CallMoves
<1>9. ASSUME NEW p \in Procs, Ends(p) PROVE Given
  BY <1>0, <1>9, EndsMoves
<1>13. CASE UNCHANGED call
  BY <1>0, <1>13
<1>14. QED
  BY <1>1, <1>2, <1>3, <1>4, <1>6, <1>7, <1>8, <1>9, <1>13
     DEF Next, CallStep, ProcStep, CallPublishes, Crash, Exit, Launch, RecoveryIsBusy, Start,
         OpenFolder, RecoveryPublishes,
         RecoveryPublished, Serve, RecoveryFails, vars, volatile

LEMMA AnswerStep ==
    ASSUME WriteInv, [Next]_vars
    PROVE  AnswerInv'
<1> SUFFICES ASSUME NEW d \in Calls PROVE AnswerHolds(d)'
  BY DEF AnswerInv
<1>1. CASE call[d].at = "answered"
  <2>1. AnswerHolds(d) /\ RequestOf(d)' = RequestOf(d)
    BY <1>1, RequestsKept DEF WriteInv, AnswerInv
  <2>2. QED
    BY <1>1, <2>1, AnswersStand DEF AnswerHolds, Over
<1>2. CASE call[d].at # "answered"
  <2>1. FolderHolds(d) /\ (call[d].at = "record" => RequestOf(d)' = RequestOf(d))
    BY RequestsKept DEF WriteInv, FolderInv
  <2>2. QED
    BY <1>2, <2>1, AnswersGiven DEF AnswerHolds, FolderHolds, FolderOf
<1>3. QED
  BY <1>1, <1>2

-----------------------------------------------------------------------------
(* Recovery *)

LEMMA RecoveryStep ==
    ASSUME WriteInv, [Next]_vars
    PROVE  RecoveryInv'
<1> USE DEF WriteInv
<1> SUFFICES ASSUME NEW q \in Procs PROVE RecoveryHolds(q)'
  BY DEF RecoveryInv
<1>0. RecoveryHolds(q) /\ proc[q].folders \subseteq Calls
  BY DEF RecoveryInv, TypeOK, ProcStates
<1>a. \A c \in Calls : call[c].at \in Over =>
        call'[c].at = call[c].at /\ RequestOf(c)' = RequestOf(c)
  BY AnswersStand, RequestsKept DEF Over
\* A server that recovers has the lock, so nobody else touches its folders.
<1>1. CASE /\ proc'[q] = proc[q]
           /\ proc[q].at # "recovering" \/ UNCHANGED <<txn, written, todo>>
  BY <1>0, <1>1, <1>a DEF RecoveryHolds
<1>2. CASE proc'[q].at # "recovering" /\ proc'[q].folders = {} /\ proc'[q].folder = NoTxn
  BY <1>2 DEF RecoveryHolds
<1>b. \A c \in Calls : call[c].at \in Inside \/ lock = Nobody => proc[q].at # "recovering"
  BY DEF LockInv
<1>3. ASSUME NEW c \in Calls, Ask(c) \/ CallStep(c) \/ Busy(c) \/ WriteFails(c)
      PROVE  RecoveryHolds(q)'
  <2>1. CASE Ask(c)
    BY <1>1, <2>1, OthersKeepRequests
  <2>2. CASE Busy(c)
    BY <1>1, <2>2, BusyMoves
  <2>3. CASE CallStep(c) \/ WriteFails(c)
    BY <1>1, <1>b, <2>3 DEF CallStep, TakeLock, Check, Stage, CommitIntent, CallPublishes,
       CallPublished, Record, WriteFails, Inside
  <2>4. QED
    BY <1>3, <2>1, <2>2, <2>3
<1>4. ASSUME NEW p \in Procs, Ends(p) PROVE RecoveryHolds(q)'
  <2>1. CASE p = q
    BY <1>2, <1>4, <2>1, EndsMoves
  <2>2. CASE p # q
    <3>1. proc'[q] = proc[q] /\ UNCHANGED <<txn, written>>
      BY <1>4, <2>2, EndsMoves DEF Ends, durable
    <3>2. CASE proc[q].at # "recovering"
      BY <1>1, <3>1, <3>2
    <3>3. CASE proc[q].at = "recovering"
      <4>1. proc[p].at # "recovering" /\ proc[p].folder = NoTxn
        BY <2>2, <3>3 DEF LockInv, RecoveryInv, RecoveryHolds
      <4>2. \A c \in proc[q].folders : todo'[c] = todo[c]
        BY <1>0, <1>4, <4>1, EndsMoves DEF InFlight, RecoveryHolds, Over
      <4>3. QED
        BY <1>0, <1>a, <3>1, <4>2 DEF RecoveryHolds
    <3>4. QED
      BY <3>2, <3>3
  <2>3. QED
    BY <2>1, <2>2
<1>c. ASSUME NEW p \in Procs, Launch(p) \/ RecoveryIsBusy(p) PROVE RecoveryHolds(q)'
  <2>1. proc'[q] = proc[q] \/ (/\ proc[q].at # "recovering" /\ proc'[q].at # "recovering"
                              /\ proc'[q].folders = proc[q].folders
                              /\ proc'[q].folder = proc[q].folder)
    BY <1>c, TurnMoves DEF ProcMoves
  <2>2. UNCHANGED <<call, request, txn, written, todo>>
    BY <1>c, TurnMoves
  <2>3. QED
    BY <1>0, <1>1, <1>2, <2>1, <2>2 DEF RecoveryHolds
<1>5. ASSUME NEW p \in Procs, Start(p) PROVE RecoveryHolds(q)'
  <2>1. /\ lock = Nobody /\ ProcMoves(p, "recovering", Folders, NoTxn) /\ UNCHANGED call
    BY <1>5, StartMoves
  <2>2. CASE p # q
    BY <1>1, <1>5, <2>1, <2>2, StartMoves DEF ProcMoves
  <2>3. CASE p = q
    <3>1. ASSUME NEW c \in Folders PROVE c \in Calls /\ call[c].at \in Over
      <4>1. c \in Calls /\ FolderHolds(c) /\ call[c].at \in CallSteps /\ lock # c
        BY <2>1 DEF Folders, FolderInv, TypeOK, CallStates
      <4>2. QED
        BY <4>1 DEF FolderHolds, FolderOf, Folders, Over, CallSteps, LockInv, Inside
    <3>2. QED
      BY <2>1, <2>3, <3>1 DEF RecoveryHolds, ProcMoves
  <2>4. QED
    BY <2>2, <2>3
<1>6. ASSUME NEW p \in Procs, p # q,
             OpenFolder(p) \/ RecoveryPublishes(p) \/ RecoveryPublished(p) \/ Serve(p)
                \/ RecoveryFails(p)
      PROVE  RecoveryHolds(q)'
  <2>1. proc[p].at = "recovering"
    BY <1>6 DEF OpenFolder, RecoveryPublishes, RecoveryPublished, Serve, RecoveryFails, Recovers
  <2>2. proc[q].at # "recovering"
    BY <1>6, <2>1 DEF LockInv
  <2>3. proc'[q] = proc[q]
    BY <1>6 DEF OpenFolder, RecoveryPublishes, RecoveryPublished, Serve, RecoveryFails, TypeOK
  <2>4. QED
    BY <1>1, <2>2, <2>3
<1>7. ASSUME OpenFolder(q) PROVE RecoveryHolds(q)'
  <2>1. PICK c \in proc[q].folders :
          \/ /\ txn[c].state = "intent" /\ txn' = txn
             /\ ProcMoves(q, "recovering", proc[q].folders, c)
             /\ todo' = [todo EXCEPT ![c] = RequestOf(c).targets]
          \/ ProcMoves(q, "recovering", proc[q].folders \ {c}, NoTxn)
    BY <1>7, OpenFolderMoves
  <2>2. UNCHANGED <<call, written>> /\ c \in Calls
    BY <1>0, <1>7 DEF OpenFolder
  <2>3. todo'[c] = RequestOf(c).targets \/ proc'[q].folder = NoTxn
    BY <2>1, <2>2 DEF TypeOK, ProcMoves
  <2>4. QED
    BY <1>0, <1>a, <2>1, <2>2, <2>3 DEF RecoveryHolds, ProcMoves
<1>8. ASSUME RecoveryPublishes(q) PROVE RecoveryHolds(q)'
  <2>1. PICK c \in Calls : \E f \in Files : c = proc[q].folder /\ PublishTarget(c, f)
    BY <1>8 DEF RecoveryPublishes, TypeOK, ProcStates
  <2>2. call[c].at \in Over /\ call[c].op \in Ops
    BY <1>0, <1>8, <2>1, AskedAnOp DEF RecoveryHolds, RecoveryPublishes, Over
  <2>3. /\ txn'[c].state = txn[c].state
        /\ written[c] \cup todo[c] \subseteq written'[c] \cup todo'[c]
    BY <2>1, <2>2, PublishMoves
  <2>4. UNCHANGED <<proc, call>>
    BY <1>8 DEF RecoveryPublishes
  <2>5. QED
    BY <1>0, <1>a, <2>1, <2>2, <2>3, <2>4 DEF RecoveryHolds
<1>9. ASSUME RecoveryPublished(q) PROVE RecoveryHolds(q)'
  <2>1. PICK c \in Calls : c = proc[q].folder
    BY <1>9 DEF RecoveryPublished, TypeOK, ProcStates
  <2>2. ProcMoves(q, "recovering", proc[q].folders \ {c}, NoTxn)
    BY <1>9, <2>1, RecoveryPublishedMoves
  <2>3. QED
    BY <1>0, <1>a, <2>2 DEF RecoveryHolds, ProcMoves
<1>10. ASSUME Serve(q) \/ RecoveryFails(q) PROVE RecoveryHolds(q)'
  <2>1. CASE Serve(q)
    <3>1. proc[q].folder = NoTxn
      BY <1>0, <2>1, ServeMoves DEF RecoveryHolds
    <3>2. QED
      BY <1>2, <2>1, <3>1, ServeMoves DEF ProcMoves
  <2>2. CASE RecoveryFails(q)
    BY <1>2, <2>2, RecoveryFailsMoves DEF ProcMoves
  <2>3. QED
    BY <1>10, <2>1, <2>2
<1>11. CASE UNCHANGED vars
  BY <1>1, <1>11 DEF vars, volatile, durable
<1>12. QED
  BY <1>3, <1>4, <1>c, <1>5, <1>6, <1>7, <1>8, <1>9, <1>10, <1>11 DEF Next, ProcStep, Crash, Exit

-----------------------------------------------------------------------------
(* The journal of operation ids *)

LEMMA OksStand ==
    ASSUME WriteInv, [Next]_vars, NEW d \in Calls, call[d].result # "none"
    PROVE  /\ call[d].at = "answered" /\ call'[d].at = "answered"
           /\ call'[d].result = call[d].result
           /\ call'[d].op = call[d].op /\ call'[d].proc = call[d].proc
           /\ call[d].op # NoOp
BY AnswersStand, RequestsKept, AskedAnOp DEF WriteInv, AnswerInv, AnswerHolds, Over

LEMMA JournalGrows ==
    ASSUME WriteInv, [Next]_vars, NEW p \in Procs, NEW op \in journal'[p]
    PROVE  \/ op \in journal[p]
           \/ \E c \in Calls : /\ call'[c].op = op /\ call'[c].proc = p
                               /\ call'[c].result = "ok" /\ call[c].at = "record"
<1>1. CASE journal' = journal
  BY <1>1
<1>2. ASSUME NEW c \in Calls, Record(c)
      PROVE  op \in journal[p] \/ (/\ call'[c].op = op /\ call'[c].proc = p
                                   /\ call'[c].result = "ok" /\ call[c].at = "record")
  <2>1. /\ call[c].at = "record" /\ CallMoves(c, "answered", "ok")
        /\ journal'[p] = IF p = call[c].proc THEN journal[p] \cup {call[c].op} ELSE journal[p]
    BY <1>2, RecordMoves DEF WriteInv
  <2>2. (op = call[c].op /\ p = call[c].proc) \/ op \in journal[p]
    BY <2>1
  <2>3. QED
    BY <2>1, <2>2 DEF CallMoves
<1>3. ASSUME NEW q \in Procs, Ends(q) PROVE op \in journal[p]
  BY <1>3, EndsMoves DEF WriteInv
<1>4. QED
  BY <1>1, <1>2, <1>3
     DEF Next, CallStep, ProcStep, Ask, TakeLock, Busy, Check, Stage, CommitIntent, CallPublishes,
         CallPublished, WriteFails, Crash, Exit, Launch, RecoveryIsBusy, Start, OpenFolder, RecoveryPublishes, RecoveryPublished, Serve,
         RecoveryFails, vars, volatile

\* Who gets a replay has its operation in the journal.
LEMMA ReplaysAreRecorded ==
    ASSUME WriteInv, [Next]_vars, NEW c \in Calls,
           call[c].result = "none", call'[c].result = "replayed"
    PROVE  call'[c].proc \in Procs /\ call'[c].op \in journal[call'[c].proc]
<1> USE DEF WriteInv
<1>1. ASSUME Ask(c) PROVE call'[c].proc \in Procs /\ call'[c].op \in journal[call'[c].proc]
  BY <1>1, AskMoves
<1>2. ASSUME NEW d \in Calls, Ask(d), d # c PROVE FALSE
  BY <1>2, OthersKeepRequests
<1>3. ASSUME NEW d \in Calls, Check(d)
      PROVE  call'[c].proc \in Procs /\ call'[c].op \in journal[call'[c].proc]
  BY <1>3, CheckMoves DEF CallMoves, Recorded, TypeOK, CallStates
<1>4. ASSUME NEW d \in Calls, TakeLock(d) \/ Busy(d) PROVE FALSE
  BY <1>4, TakeLockMoves, BusyMoves DEF CallMoves
<1>5. ASSUME NEW d \in Calls, Stage(d) PROVE FALSE
  BY <1>5, StageMoves DEF CallMoves
<1>6. ASSUME NEW d \in Calls, CommitIntent(d) PROVE FALSE
  BY <1>6, CommitIntentMoves DEF CallMoves
<1>7. ASSUME NEW d \in Calls, CallPublished(d) PROVE FALSE
  BY <1>7, CallPublishedMoves DEF CallMoves
<1>8. ASSUME NEW d \in Calls, Record(d) PROVE FALSE
  BY <1>8, RecordMoves DEF CallMoves
<1>9. ASSUME NEW d \in Calls, WriteFails(d) PROVE FALSE
  BY <1>9, WriteFailsMoves DEF CallMoves
<1>10. ASSUME NEW p \in Procs, Ends(p) PROVE FALSE
  BY <1>10, EndsMoves
<1>11. QED
  BY <1>1, <1>2, <1>3, <1>4, <1>5, <1>6, <1>7, <1>8, <1>9, <1>10
     DEF Next, CallStep, ProcStep, CallPublishes, Crash, Exit, Launch, RecoveryIsBusy, Start,
         OpenFolder, RecoveryPublishes,
         RecoveryPublished, Serve, RecoveryFails, vars, volatile

LEMMA JournalStep ==
    ASSUME WriteInv, [Next]_vars
    PROVE  JournalInv'
<1>1. ASSUME NEW c \in Calls, call'[c].result = "replayed"
      PROVE  \E d \in Calls : SameOp(c, d)' /\ call'[d].result = "ok"
  <2>1. CASE call[c].result # "none"
    <3>1. call[c].result = "replayed"
      BY <1>1, <2>1, OksStand
    <3>2. PICK d \in Calls : SameOp(c, d) /\ call[d].result = "ok"
      BY <3>1 DEF WriteInv, JournalInv
    <3>3. QED
      BY <2>1, <3>2, OksStand DEF SameOp, Asked
  <2>2. CASE call[c].result = "none"
    <3>1. call'[c].proc \in Procs /\ call'[c].op \in journal[call'[c].proc]
      BY <1>1, <2>2, ReplaysAreRecorded
    <3>2. PICK d \in Calls : /\ call[d].op = call'[c].op /\ call[d].proc = call'[c].proc
                             /\ call[d].result = "ok"
      BY <3>1 DEF WriteInv, JournalInv
    <3>3. QED
      BY <2>2, <3>2, OksStand DEF SameOp, Asked
  <2>3. QED
    BY <2>1, <2>2
<1>2. ASSUME NEW p \in Procs, NEW op \in journal'[p]
      PROVE  \E d \in Calls : call'[d].op = op /\ call'[d].proc = p /\ call'[d].result = "ok"
  BY <1>2, JournalGrows, OksStand DEF WriteInv, JournalInv
<1>3. QED
  BY <1>1, <1>2 DEF JournalInv

LEMMA RecordStep ==
    ASSUME WriteInv, [Next]_vars
    PROVE  RecordInv'
<1> USE DEF WriteInv
<1> DEFINE Kept(d) == written'[d] # {} =>
        call'[d].at \in {"publish", "record"} \/ call'[d].op \in journal'[call'[d].proc]
<1> SUFFICES ASSUME Undisturbed'
             PROVE  (\A p \in Procs : proc'[p].at = "up") /\ \A d \in Calls : Kept(d)
  BY DEF RecordInv
<1>1. Undisturbed
  <2>1. \A p \in Procs : Crash(p) => crashes' # 0
    BY DEF Crash, TypeOK
  <2>2. crashes' = crashes \/ \E p \in Procs : Crash(p)
    BY DEF Next, CallStep, ProcStep, Ask, TakeLock, Busy, Check, Stage, CommitIntent, CallPublishes,
         CallPublished, Record, WriteFails, Exit, Ends, Launch, RecoveryIsBusy, Start, OpenFolder,
         RecoveryPublishes, RecoveryPublished,
         Serve, RecoveryFails, vars
  <2>3. faults' = faults \/ faults' # 0
    BY WriteFailsMoves, RecoveryFailsMoves
       DEF Next, CallStep, ProcStep, Ask, TakeLock, Busy, Check, Stage, CommitIntent, CallPublishes,
         CallPublished, Record, Crash, Exit, Ends, Launch, RecoveryIsBusy, Start, OpenFolder,
         RecoveryPublishes, RecoveryPublished,
         Serve, vars
  <2>4. QED
    BY <2>1, <2>2, <2>3 DEF Undisturbed
<1>2. /\ \A p \in Procs : proc[p].at = "up"
      /\ \A d \in Calls : written[d] # {} =>
            call[d].at \in {"publish", "record"} \/ call[d].op \in journal[call[d].proc]
  BY <1>1 DEF RecordInv
<1>3. \A p \in Procs : ~Crash(p) /\ ~ProcStep(p) /\ ~RecoveryFails(p) /\ ~RecoveryIsBusy(p)
  <2>1. \A p \in Procs : ~Crash(p)
    BY DEF Crash, TypeOK, Undisturbed
  <2>2. QED
    BY <1>2, <2>1 DEF ProcStep, Launch, Exit, RecoveryIsBusy, Start, OpenFolder, RecoveryPublishes, RecoveryPublished, Serve,
       RecoveryFails, Recovers
<1>4. \A c \in Calls : ~WriteFails(c)
  BY WriteFailsMoves DEF Undisturbed
<1>5. \A d \in Calls : FolderHolds(d)
  BY DEF FolderInv
<1> DEFINE Goal == UNCHANGED proc /\ \A d \in Calls : Kept(d)
<1>6. ASSUME NEW c \in Calls, Ask(c) PROVE Goal
  <2>1. /\ UNCHANGED <<written, journal, proc>> /\ \A d \in Calls \ {c} : call'[d] = call[d]
        /\ written[c] = {}
    BY <1>5, <1>6, OthersKeepRequests DEF FolderHolds, FolderOf
  <2>2. QED
    BY <1>2, <2>1
<1>7. ASSUME NEW c \in Calls, TakeLock(c) \/ Busy(c) \/ Check(c) PROVE Goal
  <2>1. UNCHANGED <<written, journal, proc>> /\ written[c] = {}
    BY <1>5, <1>7, TakeLockMoves, BusyMoves, CheckMoves DEF FolderHolds, FolderOf
  <2>2. \A d \in Calls : /\ call'[d].op = call[d].op /\ call'[d].proc = call[d].proc
                         /\ d # c => call'[d].at = call[d].at
    BY <1>7, TakeLockMoves, BusyMoves, CheckMoves DEF CallMoves
  <2>3. QED
    BY <1>2, <2>1, <2>2
<1>8. ASSUME NEW c \in Calls, Stage(c) PROVE Goal
  <2>1. /\ UNCHANGED <<written, journal, proc>> /\ written[c] = {}
        /\ CallMoves(c, "commit", call[c].result)
    BY <1>5, <1>8, StageMoves DEF FolderHolds, FolderOf
  <2>2. QED
    BY <1>2, <2>1 DEF CallMoves
<1>9. ASSUME NEW c \in Calls, CommitIntent(c) PROVE Goal
  BY <1>2, <1>9, CommitIntentMoves DEF CallMoves
<1>10. ASSUME NEW c \in Calls, CallPublishes(c) PROVE Goal
  BY <1>2, <1>10, AskedAnOp, PublishMoves DEF CallPublishes
<1>11. ASSUME NEW c \in Calls, CallPublished(c) PROVE Goal
  BY <1>2, <1>11, CallPublishedMoves DEF CallMoves
<1>12. ASSUME NEW c \in Calls, Record(c) PROVE Goal
  <2>1. call[c].proc \in Procs /\ \A d \in Calls : call[d].proc \in Procs
    BY DEF TypeOK, CallStates
  <2>2. /\ CallMoves(c, "answered", "ok") /\ UNCHANGED <<written, proc>>
        /\ \A p \in Procs : journal'[p] = IF p = call[c].proc
                                          THEN journal[p] \cup {call[c].op} ELSE journal[p]
    BY <1>12, RecordMoves
  <2>3. ASSUME NEW d \in Calls, written'[d] # {}
        PROVE  call'[d].at \in {"publish", "record"} \/ call'[d].op \in journal'[call'[d].proc]
    <3>1. CASE d = c
      BY <2>1, <2>2, <3>1 DEF CallMoves
    <3>2. CASE d # c
      <4>1. journal[call[d].proc] \subseteq journal'[call[d].proc]
        BY <2>1, <2>2
      <4>2. /\ call'[d].at = call[d].at /\ call'[d].op = call[d].op
            /\ call'[d].proc = call[d].proc /\ written[d] # {}
        BY <2>2, <2>3, <3>2 DEF CallMoves
      <4>3. call[d].at \in {"publish", "record"} \/ call[d].op \in journal[call[d].proc]
        BY <1>2, <4>2
      <4>4. QED
        BY <4>1, <4>2, <4>3
    <3>3. QED
      BY <3>1, <3>2
  <2>4. QED
    BY <2>2, <2>3
<1>13. ASSUME UNCHANGED vars PROVE Goal
  BY <1>2, <1>13 DEF vars, volatile, durable
<1> HIDE DEF Goal
<1>14. Goal
  <2>1. ASSUME NEW c \in Calls, CallStep(c) PROVE Goal
    BY <2>1, <1>7, <1>8, <1>9, <1>10, <1>11, <1>12 DEF CallStep
  <2>2. ASSUME NEW c \in Calls, Ask(c) \/ Busy(c) \/ WriteFails(c) PROVE Goal
    BY <2>2, <1>4, <1>6, <1>7
  <2>3. QED
    BY <1>3, <1>13, <2>1, <2>2 DEF Next
<1>15. QED
  BY <1>2, <1>14 DEF Goal

-----------------------------------------------------------------------------

\* Only a check refuses, one that does not find its operation in the journal.
LEMMA RefusedByCheck ==
    ASSUME WriteInv, [Next]_vars, NEW c \in Calls,
           call[c].result = "none", call'[c].result = "refused"
    PROVE  call[c].at = "check" /\ ~Recorded(c)
<1> USE DEF WriteInv
<1>1. ASSUME Ask(c) PROVE FALSE
  BY <1>1, AskMoves
<1>2. ASSUME NEW d \in Calls, Ask(d), d # c PROVE FALSE
  BY <1>2, OthersKeepRequests
<1>3. ASSUME NEW d \in Calls, Check(d)
      PROVE  call[c].at = "check" /\ ~Recorded(c)
  <2>1. d = c
    BY <1>3, CheckMoves DEF CallMoves
  <2>2. QED
    BY <1>3, <2>1, CheckMoves DEF CallMoves
<1>4. ASSUME NEW d \in Calls, TakeLock(d) \/ Busy(d) PROVE FALSE
  BY <1>4, TakeLockMoves, BusyMoves DEF CallMoves
<1>5. ASSUME NEW d \in Calls, Stage(d) PROVE FALSE
  BY <1>5, StageMoves DEF CallMoves
<1>6. ASSUME NEW d \in Calls, CommitIntent(d) PROVE FALSE
  BY <1>6, CommitIntentMoves DEF CallMoves
<1>7. ASSUME NEW d \in Calls, CallPublished(d) PROVE FALSE
  BY <1>7, CallPublishedMoves DEF CallMoves
<1>8. ASSUME NEW d \in Calls, Record(d) PROVE FALSE
  BY <1>8, RecordMoves DEF CallMoves
<1>9. ASSUME NEW d \in Calls, WriteFails(d) PROVE FALSE
  BY <1>9, WriteFailsMoves DEF CallMoves
<1>10. ASSUME NEW p \in Procs, Ends(p) PROVE FALSE
  BY <1>10, EndsMoves
<1>11. QED
  BY <1>1, <1>2, <1>3, <1>4, <1>5, <1>6, <1>7, <1>8, <1>9, <1>10
     DEF Next, CallStep, ProcStep, CallPublishes, Crash, Exit, Launch, RecoveryIsBusy, Start,
         OpenFolder, RecoveryPublishes,
         RecoveryPublished, Serve, RecoveryFails, vars, volatile

LEMMA WriteInit == Init => WriteInv
<1> SUFFICES ASSUME Init PROVE WriteInv
  OBVIOUS
<1>1. \A c \in Calls : call[c].at = "idle" /\ call[c].op = NoOp /\ call[c].result = "none"
                         /\ txn[c].state = "none" /\ txn[c].staged = {}
                         /\ todo[c] = {} /\ written[c] = {}
  BY DEF Init, NoFolder
<1>2. TypeOK
  <2>1. NoRequest \in Requests /\ NoFolder \in Txns
    BY DEF NoRequest, Requests, Versions, NoFolder, Txns, TxnStates
  <2>2. (CHOOSE p \in Procs : TRUE) \in Procs
    OBVIOUS
  <2>3. [at |-> "idle", op |-> NoOp, proc |-> CHOOSE p \in Procs : TRUE, result |-> "none"]
           \in CallStates
    BY <2>2 DEF CallStates, CallSteps, Results
  <2>4. [at |-> "up", folders |-> {}, folder |-> NoTxn] \in ProcStates
    BY DEF ProcStates, ProcSteps
  <2>5. /\ disk \in [Files -> Versions] /\ request \in [Ops -> Requests]
        /\ txn \in [Calls -> Txns] /\ todo \in [Calls -> SUBSET Files]
        /\ written \in [Calls -> SUBSET Files] /\ journal \in [Procs -> SUBSET Ops]
    BY <2>1 DEF Init, Versions
  <2>6. call \in [Calls -> CallStates]
    BY <2>3 DEF Init
  <2>7. proc \in [Procs -> ProcStates]
    BY <2>4 DEF Init
  <2>a. overtaken \in BOOLEAN
    BY DEF Init
  <2>8. lock = Nobody /\ crashes \in 0 .. MaxCrashes /\ faults \in 0 .. MaxFaults
    BY DEF Init
  <2>9. QED
    BY <2>5, <2>6, <2>7, <2>8, <2>a DEF TypeOK
<1>3. RequestInv
  BY <1>1 DEF RequestInv, Init, NoRequest
<1>4. \A p \in Procs : proc[p].at = "up" /\ proc[p].folders = {} /\ proc[p].folder = NoTxn
  BY DEF Init
<1>5. LockInv
  BY <1>1, <1>4 DEF LockInv, Init, Inside
<1>6. FolderInv /\ AnswerInv
  BY <1>1 DEF FolderInv, FolderHolds, FolderOf, AnswerInv, AnswerHolds
<1>7. RecoveryInv
  BY <1>4 DEF RecoveryInv, RecoveryHolds
<1>8. JournalInv /\ RecordInv
  BY <1>1, <1>4 DEF JournalInv, RecordInv, Init
<1>9. QED
  BY <1>2, <1>3, <1>5, <1>6, <1>7, <1>8 DEF WriteInv

LEMMA WriteStep == WriteInv /\ [Next]_vars => WriteInv'
BY TypeStep, RequestStep, LockStep, FolderStep, AnswerStep, RecoveryStep, JournalStep, RecordStep
   DEF WriteInv

(* The state is always of its type, and the invariant holds: who has the lock, what
   a call's folder and its written files are at each step of the call and of a
   recovery, and which operations are in the journal. *)
THEOREM WriteInvHolds == Spec => []WriteInv
BY WriteInit, WriteStep, PTL DEF Spec

(* An answer of patch_flow or write_bytes tells what happened to the files, through
   any crashes, recoveries and failing file operations. *)
THEOREM AnswersAreTrue == Spec => []AnswersTellWhatHappened
<1>1. WriteInv => AnswersTellWhatHappened
  BY DEF WriteInv, AnswerInv, AnswerHolds, JournalInv, AnswersTellWhatHappened
<1>2. QED
  BY <1>1, WriteInvHolds, PTL

(* While nothing crashes or fails, a call is never refused for what another call of
   the same operation did to the files. *)
THEOREM RetriesGetTheResult == Spec => RetriesMeetTheFirst
<1>1. ASSUME WriteInv, [Next]_vars, Undisturbed, NEW c \in Calls, RefusedNow(c), DoneByAnother(c)
      PROVE  FALSE
  <2>1. PICK d \in Calls : SameOp(c, d) /\ written[d] # {}
    BY <1>1 DEF DoneByAnother
  <2>2. call[d].at \in {"publish", "record"} \/ call[d].op \in journal[call[d].proc]
    BY <1>1, <2>1 DEF WriteInv, RecordInv
  <2>3. call[c].at = "check" /\ ~Recorded(c)
    BY <1>1, RefusedByCheck DEF RefusedNow
  <2>4. QED
    BY <1>1, <2>1, <2>2, <2>3 DEF SameOp, Recorded, WriteInv, LockInv, Inside
<1>2. WriteInv /\ [Next]_vars =>
        [Undisturbed => \A c \in Calls : RefusedNow(c) => ~DoneByAnother(c)]_vars
  BY <1>1
<1>3. QED
  BY <1>2, WriteInvHolds, PTL DEF Spec, RetriesMeetTheFirst

-----------------------------------------------------------------------------
(* The intents, and what is published of them *)

LEMMA FreshKept ==
    ASSUME WriteInv, [Next]_vars, NEW c \in Calls, call[c].at # "idle", NEW f \in Files
    PROVE  Fresh(f, call[c].op)' = Fresh(f, call[c].op)
BY RequestsKept DEF Fresh, RequestOf

LEMMA FaultsStay == ASSUME WriteInv, [Next]_vars, faults' = 0 PROVE faults = 0
<1>1. faults' = faults \/ faults' # 0
  BY WriteFailsMoves, RecoveryFailsMoves
     DEF WriteInv, Next, CallStep, ProcStep, Ask, TakeLock, Busy, Check, Stage, CommitIntent,
         CallPublishes, CallPublished, Record, Crash, Exit, Ends, Launch, RecoveryIsBusy, Start,
         OpenFolder, RecoveryPublishes, RecoveryPublished, Serve, vars
<1>2. QED
  BY <1>1

\* A call whose intent is put in place now.
Commits(c) ==
    /\ call[c].at = "commit" /\ PutIntent(c)
    /\ TxnMoves(c, "intent", txn[c].staged)
    /\ UNCHANGED <<disk, written, request, proc>>
    /\ CommitIntent(c) \/ WriteFails(c)

\* An intent is put in place by a call that commits, and by nothing else.
LEMMA IntentsPut ==
    ASSUME WriteInv, [Next]_vars
    PROVE  \/ \E c \in Calls : Commits(c)
           \/ /\ overtaken' = overtaken
              /\ \A d \in Calls : txn'[d].state = "intent" => txn[d].state = "intent"
<1> DEFINE NoneNew == /\ overtaken' = overtaken
                      /\ \A d \in Calls : txn'[d].state = "intent" => txn[d].state = "intent"
           Put == (\E c \in Calls : Commits(c)) \/ NoneNew
<1> USE DEF WriteInv
<1>1. ASSUME NEW c \in Calls, Stage(c) PROVE NoneNew
  BY <1>1, StageMoves DEF TxnMoves, Stage
<1>2. ASSUME NEW c \in Calls, CommitIntent(c) PROVE Commits(c)
  BY <1>2, CommitIntentMoves DEF Commits, CommitIntent
<1>3. ASSUME NEW c \in Calls, CallPublishes(c) PROVE NoneNew
  BY <1>3, AskedAnOp, PublishMoves DEF CallPublishes
<1>4. ASSUME NEW c \in Calls, CallPublished(c) PROVE NoneNew
  BY <1>4, CallPublishedMoves DEF TxnMoves, CallPublished
<1>5. ASSUME NEW c \in Calls, WriteFails(c) PROVE Put
  <2>1. CASE call[c].at = "commit" /\ PutIntent(c)
    <3>1. TxnMoves(c, "intent", txn[c].staged)
      BY <2>1, IntentMade DEF PutIntent
    <3>2. Commits(c)
      BY <1>5, <2>1, <3>1 DEF Commits, WriteFails
    <3>3. QED
      BY <3>2
  <2>2. CASE UNCHANGED <<txn, overtaken>>
    BY <2>2
  <2>3. QED
    BY <1>5, <2>1, <2>2 DEF WriteFails
<1>6. ASSUME NEW p \in Procs, OpenFolder(p) PROVE NoneNew
  <2>1. PICK d \in proc[p].folders : txn' = txn \/ TxnMoves(d, "none", {})
    BY <1>6, OpenFolderMoves
  <2>2. QED
    BY <1>6, <2>1 DEF TxnMoves, OpenFolder
<1>7. ASSUME NEW p \in Procs, RecoveryPublishes(p) PROVE NoneNew
  <2>1. PICK d \in Calls : \E f \in Files : d = proc[p].folder /\ PublishTarget(d, f)
    BY <1>7 DEF RecoveryPublishes, TypeOK, ProcStates
  <2>2. call[d].op \in Ops
    BY <1>7, <2>1, AskedAnOp DEF RecoveryInv, RecoveryHolds, RecoveryPublishes, Over
  <2>3. QED
    BY <1>7, <2>1, <2>2, PublishMoves DEF RecoveryPublishes
<1>8. ASSUME NEW p \in Procs, RecoveryPublished(p) PROVE NoneNew
  <2>1. PICK d \in Calls : d = proc[p].folder
    BY <1>8 DEF RecoveryPublished, TypeOK, ProcStates
  <2>2. TxnMoves(d, "none", {})
    BY <1>8, <2>1, RecoveryPublishedMoves
  <2>3. QED
    BY <1>8, <2>2 DEF TxnMoves, RecoveryPublished
<1>9. ASSUME UNCHANGED <<txn, overtaken>> PROVE NoneNew
  BY <1>9
<1> HIDE DEF NoneNew
<1>10. Put
  BY <1>1, <1>2, <1>3, <1>4, <1>5, <1>6, <1>7, <1>8, <1>9
     DEF Next, CallStep, ProcStep, Ask, TakeLock, Busy, Check, Record, Crash, Exit, Ends, Launch,
         RecoveryIsBusy, Start, Serve, RecoveryFails, vars, durable
<1>11. QED
  BY <1>10 DEF NoneNew

\* Who commits first leaves no other intent behind.
LEMMA CommitsAlone ==
    ASSUME WriteInv, NEW c \in Calls, Commits(c), ~overtaken'
    PROVE  \A d \in Calls : txn[d].state # "intent"
<1>1. txn[c].state = "staged"
  BY DEF WriteInv, FolderInv, FolderHolds, FolderOf, Commits
<1>2. \A d \in Calls \ {c} : txn[d].state # "intent"
  BY Zenon DEF Commits, PutIntent
<1>3. QED
  BY <1>1, <1>2

LEMMA OneIntentStep ==
    ASSUME WriteInv, IntentInv, [Next]_vars, ~overtaken'
    PROVE  OneIntent'
<1>1. ~overtaken
  BY OvertakenStays DEF WriteInv
<1>2. ASSUME NEW c \in Calls, Commits(c) PROVE OneIntent'
  BY <1>2, CommitsAlone DEF Commits, TxnMoves, OneIntent
<1>3. QED
  BY <1>1, <1>2, IntentsPut DEF IntentInv, OneIntent

\* Who publishes has an intent, and nobody is between its check and its commit.
LEMMA Publishers ==
    ASSUME WriteInv, NEW c \in Calls, NEW f \in Files,
           \/ call[c].at = "publish"
           \/ \E p \in Procs : Recovers(p) /\ proc[p].folder = c,
           PublishTarget(c, f)
    PROVE  /\ txn[c].state = "intent" /\ call[c].op \in Ops /\ call[c].at # "idle"
           /\ f \in RequestOf(c).targets
           /\ \A d \in Calls : call[d].at \notin {"stage", "commit"}
<1> USE DEF WriteInv
<1>1. txn[c].state = "intent" /\ call[c].at # "idle"
  BY DEF FolderInv, FolderHolds, FolderOf, RecoveryInv, RecoveryHolds, Over
<1>2. call[c].op \in Ops
  BY <1>1, AskedAnOp
<1>3. f \in RequestOf(c).targets
  BY <1>2, PublishMoves DEF FolderInv, FolderHolds, FolderOf
<1>4. \A d \in Calls : call[d].at \notin {"stage", "commit"}
  BY DEF LockInv, Inside, Recovers
<1>5. QED
  BY <1>1, <1>2, <1>3, <1>4

\* The disk changes only where a file is published.
LEMMA DiskChanges ==
    ASSUME WriteInv, [Next]_vars
    PROVE  \/ UNCHANGED <<disk, written>>
           \/ \E c \in Calls : \E f \in Files :
                /\ \/ call[c].at = "publish"
                   \/ \E p \in Procs : Recovers(p) /\ proc[p].folder = c
                /\ PublishTarget(c, f)
                /\ UNCHANGED <<call, request, lock, proc, crashes, faults>>
<1>1. \A p \in Procs : RecoveryPublishes(p) => proc[p].folder \in Calls
  BY DEF WriteInv, TypeOK, RecoveryPublishes, ProcStates
<1>2. QED
  BY <1>1
     DEF Next, CallStep, ProcStep, Ask, TakeLock, Busy, Check, Stage, CommitIntent, CallPublishes,
         CallPublished, Record, WriteFails, Crash, Exit, Ends, Launch, RecoveryIsBusy, Start,
         OpenFolder, RecoveryPublishes, RecoveryPublished, Serve, RecoveryFails, vars, volatile,
         durable

LEMMA CheckedStep ==
    ASSUME WriteInv, IntentInv, [Next]_vars
    PROVE  CheckedStands'
<1> USE DEF WriteInv
<1> SUFFICES ASSUME NEW c \in Calls, call'[c].at \in {"stage", "commit"}
             PROVE  ExpectsHold(c)'
  BY DEF CheckedStands
<1>1. /\ call[c].at \in {"check", "stage", "commit"}
      /\ call[c].at = "check" => ExpectsHold(c)
  <2> DEFINE Was == /\ call[c].at \in {"check", "stage", "commit"}
                    /\ call[c].at = "check" => ExpectsHold(c)
  <2>1. ASSUME NEW d \in Calls, Ask(d) PROVE Was
    BY <2>1, AskMoves, OthersKeepRequests
  <2>2. ASSUME NEW d \in Calls, Check(d) PROVE Was
    <3>1. CASE d = c
      BY <2>2, <3>1, CheckMoves DEF CallMoves
    <3>2. CASE d # c
      BY <2>2, <3>2, CheckMoves DEF CallMoves
    <3>3. QED
      BY <3>1, <3>2
  <2>3. ASSUME NEW d \in Calls, TakeLock(d) \/ Busy(d) PROVE Was
    BY <2>3, TakeLockMoves, BusyMoves DEF CallMoves
  <2>4. ASSUME NEW d \in Calls, Stage(d) PROVE Was
    BY <2>4, StageMoves DEF CallMoves
  <2>5. ASSUME NEW d \in Calls, CommitIntent(d) PROVE Was
    BY <2>5, CommitIntentMoves DEF CallMoves
  <2>6. ASSUME NEW d \in Calls, CallPublished(d) PROVE Was
    BY <2>6, CallPublishedMoves DEF CallMoves
  <2>7. ASSUME NEW d \in Calls, Record(d) PROVE Was
    BY <2>7, RecordMoves DEF CallMoves
  <2>8. ASSUME NEW d \in Calls, WriteFails(d) PROVE Was
    BY <2>8, WriteFailsMoves DEF CallMoves
  <2>9. ASSUME NEW p \in Procs, Ends(p) PROVE Was
    BY <2>9, EndsMoves
  <2>10. ASSUME UNCHANGED call PROVE Was
    BY <2>10
  <2> HIDE DEF Was
  <2>11. Was
    BY <2>1, <2>2, <2>3, <2>4, <2>5, <2>6, <2>7, <2>8, <2>9, <2>10
       DEF Next, CallStep, ProcStep, CallPublishes, Crash, Exit, Launch, RecoveryIsBusy, Start,
           OpenFolder, RecoveryPublishes, RecoveryPublished, Serve, RecoveryFails, vars, volatile
  <2>12. QED
    BY <2>11 DEF Was
<1>2. ExpectsHold(c)
  BY <1>1 DEF IntentInv, CheckedStands
<1>3. RequestOf(c)' = RequestOf(c)
  BY <1>1, RequestsKept
<1>4. UNCHANGED disk
  <2>1. ASSUME NEW d \in Calls, NEW f \in Files, PublishTarget(d, f),
               \/ call[d].at = "publish"
               \/ \E p \in Procs : Recovers(p) /\ proc[p].folder = d,
               UNCHANGED <<call, request, lock, proc, crashes, faults>>
        PROVE  FALSE
    BY <1>1, <2>1, Publishers
  <2>2. QED
    BY <2>1, DiskChanges
<1>5. QED
  BY <1>2, <1>3, <1>4 DEF ExpectsHold

\* What has written files and no intent does not get one.
LEMMA SettledStays ==
    ASSUME WriteInv, [Next]_vars, NEW c \in Calls, written[c] # {}, txn'[c].state = "intent"
    PROVE  txn[c].state = "intent"
<1>1. ASSUME NEW d \in Calls, Commits(d) PROVE txn[c].state = "intent"
  BY <1>1 DEF Commits, TxnMoves, WriteInv, FolderInv, FolderHolds, FolderOf
<1>2. QED
  BY <1>1, IntentsPut

LEMMA FreshStep ==
    ASSUME WriteInv, WriteInv', IntentInv, [Next]_vars, ~overtaken'
    PROVE  WrittenIsFresh'
<1> SUFFICES ASSUME NEW c \in Calls, NEW f \in written'[c], txn'[c].state = "intent"
             PROVE  disk'[f] = Fresh(f, call[c].op)'
  BY DEF WrittenIsFresh
<1>0. OneIntent /\ OneIntent' /\ WrittenIsFresh
  BY OneIntentStep, OvertakenStays DEF WriteInv, IntentInv
<1>1. /\ call[c].at # "idle" /\ f \in Files
      /\ written[c] # {} => txn[c].state = "intent"
  <2>1. FolderHolds(c) /\ FolderHolds(c)' /\ f \in Files
    BY DEF WriteInv, FolderInv, TypeOK
  <2>2. CASE UNCHANGED <<disk, written>>
    <3>1. written[c] # {} /\ call[c].at # "idle"
      BY <2>1, <2>2 DEF FolderHolds, FolderOf
    <3>2. txn[c].state = "intent"
      BY <3>1, SettledStays DEF WriteInv
    <3>3. QED
      BY <2>1, <3>1, <3>2
  <2>3. ASSUME NEW d \in Calls, NEW g \in Files, PublishTarget(d, g),
               \/ call[d].at = "publish"
               \/ \E p \in Procs : Recovers(p) /\ proc[p].folder = d
        PROVE  txn[c].state = "intent" /\ call[c].at # "idle"
    <3>1. txn[d].state = "intent" /\ call[d].op \in Ops /\ call[d].at # "idle"
      BY <2>3, Publishers
    <3>2. c = d
      BY <1>0, <2>3, <3>1, PublishMoves DEF WriteInv, OneIntent
    <3>3. QED
      BY <3>1, <3>2
  <2>4. QED
    BY <2>1, <2>2, <2>3, DiskChanges
<1>2. Fresh(f, call[c].op)' = Fresh(f, call[c].op)
  BY <1>1, FreshKept
<1>3. CASE UNCHANGED <<disk, written>>
  BY <1>0, <1>1, <1>2, <1>3 DEF WrittenIsFresh
<1>4. ASSUME NEW d \in Calls, NEW g \in Files, PublishTarget(d, g),
             \/ call[d].at = "publish"
             \/ \E p \in Procs : Recovers(p) /\ proc[p].folder = d
      PROVE  disk'[f] = Fresh(f, call[c].op)'
  <2>1. txn[d].state = "intent" /\ call[d].op \in Ops /\ g \in RequestOf(d).targets
    BY <1>4, Publishers
  <2>2. c = d
    BY <1>0, <1>4, <2>1, PublishMoves DEF WriteInv, OneIntent
  <2>3. CASE f # g
    BY <1>0, <1>1, <1>2, <1>4, <2>1, <2>2, <2>3, PublishMoves DEF WriteInv, WrittenIsFresh
  <2>4. CASE f = g /\ f \in txn[d].staged \cup RequestOf(d).deletes
    BY <1>2, <1>4, <2>1, <2>2, <2>4, PublishMoves DEF WriteInv
  <2>5. CASE f = g /\ f \notin txn[d].staged \cup RequestOf(d).deletes
    <3>1. f \in written[d]
      BY <2>1, <2>5 DEF WriteInv, FolderInv, FolderHolds, FolderOf
    <3>2. disk[f] = Fresh(f, call[d].op)
      BY <1>0, <2>1, <3>1 DEF WrittenIsFresh
    <3>3. QED
      BY <1>2, <1>4, <2>1, <2>2, <2>5, <3>2, PublishMoves DEF WriteInv
  <2>6. QED
    BY <2>3, <2>4, <2>5
<1>5. QED
  BY <1>3, <1>4, DiskChanges

LEMMA IntentStep == WriteInv /\ WriteInv' /\ IntentInv /\ [Next]_vars => IntentInv'
BY CheckedStep, OneIntentStep, FreshStep DEF IntentInv

LEMMA IntentInit == Init => IntentInv
<1> SUFFICES ASSUME Init PROVE IntentInv
  OBVIOUS
<1>1. \A c \in Calls : txn[c].state = "none" /\ call[c].at = "idle"
  BY DEF Init, NoFolder
<1>2. QED
  BY <1>1 DEF IntentInv, OneIntent, CheckedStands, WrittenIsFresh

-----------------------------------------------------------------------------
(* The refinement: WriteTransaction implements AtomicFiles *)

FilesBar == [f \in Files |-> FileAsCommitted(f)]
PlanBar == [c \in Calls |-> PlanOf(c)]
HappenedBar == {c \in Calls : txn[c].state = "intent" \/ written[c] # {}}

\* The files as a call with an intent will leave them.
CommittedFile(c, f) ==
    IF f \in RequestOf(c).targets THEN Fresh(f, call[c].op) ELSE disk[f]

(* The files count as the only intent there is makes them, or as they are. *)
FilesAsOne ==
    /\ (\A c \in Calls : txn[c].state # "intent") => \A f \in Files : FilesBar[f] = disk[f]
    /\ \A c \in Calls : txn[c].state = "intent" =>
          \A f \in Files : FilesBar[f] = CommittedFile(c, f)

LEMMA FilesAre == WriteInv /\ IntentInv => (~overtaken => FilesAsOne)
<1> SUFFICES ASSUME WriteInv, IntentInv, ~overtaken PROVE FilesAsOne
  OBVIOUS
<1>1. ASSUME \A c \in Calls : txn[c].state # "intent", NEW f \in Files
      PROVE  FilesBar[f] = disk[f]
  BY <1>1 DEF FilesBar, FileAsCommitted, Overdue
<1>2. ASSUME NEW c \in Calls, txn[c].state = "intent", NEW f \in Files
      PROVE  FilesBar[f] = CommittedFile(c, f)
  <2>1. \A d \in Calls : Overdue(d, f) => d = c
    BY <1>2 DEF IntentInv, OneIntent, Overdue
  <2>2. Overdue(c, f) <=> f \in txn[c].staged \cup RequestOf(c).deletes
    BY <1>2 DEF Overdue
  <2>3. /\ txn[c].staged = (RequestOf(c).targets \ RequestOf(c).deletes) \ written[c]
        /\ written[c] \subseteq RequestOf(c).targets
        /\ RequestOf(c).deletes \subseteq RequestOf(c).targets
    <3>1. FolderHolds(c) /\ call[c].at # "idle"
      BY <1>2 DEF WriteInv, FolderInv, FolderHolds, FolderOf
    <3>2. call[c].op \in Ops
      BY <3>1, AskedAnOp DEF WriteInv
    <3>3. QED
      BY <1>2, <3>1, <3>2 DEF FolderHolds, FolderOf, WriteInv, RequestInv, RequestOf
  <2>4. CASE Overdue(c, f)
    <3>1. (CHOOSE d \in Calls : Overdue(d, f)) = c
      BY <2>1, <2>4
    <3>2. FileAsCommitted(f) = Fresh(f, call[c].op)
      BY <2>4, <3>1 DEF FileAsCommitted
    <3>3. QED
      BY <2>2, <2>3, <2>4, <3>2 DEF FilesBar, CommittedFile
  <2>5. CASE ~Overdue(c, f)
    <3>1. FileAsCommitted(f) = disk[f]
      BY <2>1, <2>5 DEF FileAsCommitted
    <3>2. f \in RequestOf(c).targets => f \in written[c]
      BY <2>2, <2>3, <2>5
    <3>3. f \in RequestOf(c).targets => disk[f] = Fresh(f, call[c].op)
      BY <1>2, <3>2 DEF IntentInv, WrittenIsFresh
    <3>4. QED
      BY <3>1, <3>3 DEF FilesBar, CommittedFile
  <2>6. QED
    BY <2>4, <2>5
<1>3. QED
  BY <1>1, <1>2 DEF FilesAsOne

PlansTyped == PlanBar \in [Calls -> SUBSET Atomic!Plans]

LEMMA PlanTypes == WriteInv => PlansTyped
<1> SUFFICES ASSUME WriteInv, NEW c \in Calls, Asked(c) PROVE PlanOf(c) \subseteq Atomic!Plans
  BY DEF PlansTyped, PlanBar, PlanOf
<1>1. call[c].op \in Ops
  BY DEF WriteInv, RequestInv, Asked
<1>2. request[call[c].op] \in Requests
  BY <1>1 DEF WriteInv, TypeOK
<1>3. [f \in Files |-> Fresh(f, call[c].op)] \in [Files -> Versions]
  BY <1>1 DEF Fresh, Versions
<1>4. QED
  BY <1>2, <1>3 DEF PlanOf, Atomic!Plans, Requests, RequestOf

AtomicInv == WriteInv /\ IntentInv /\ (~overtaken => FilesAsOne) /\ PlansTyped

LEMMA FilesSame ==
    ASSUME AtomicInv, AtomicInv', [Next]_vars, ~overtaken', UNCHANGED disk,
           \A c \in Calls : txn'[c].state = "intent" <=> txn[c].state = "intent"
    PROVE  FilesBar' = FilesBar
<1>1. FilesAsOne
  BY OvertakenStays DEF AtomicInv, WriteInv
<1>2. FilesAsOne'
  BY DEF AtomicInv
<1>3. ASSUME NEW f \in Files PROVE FilesBar'[f] = FilesBar[f]
  <2>1. CASE \A c \in Calls : txn[c].state # "intent"
    BY <1>1, <1>2, <2>1 DEF FilesAsOne
  <2>2. ASSUME NEW c \in Calls, txn[c].state = "intent" PROVE FilesBar'[f] = FilesBar[f]
    <3>1. call[c].at # "idle"
      BY <2>2 DEF AtomicInv, WriteInv, FolderInv, FolderHolds, FolderOf
    <3>2. CommittedFile(c, f)' = CommittedFile(c, f)
      BY <3>1, RequestsKept, FreshKept DEF AtomicInv, CommittedFile
    <3>3. QED
      BY <1>1, <1>2, <2>2, <3>2 DEF FilesAsOne
  <2>3. QED
    BY <2>1, <2>2
<1>4. QED
  BY <1>3 DEF FilesBar

LEMMA PublishSame ==
    ASSUME AtomicInv, AtomicInv', [Next]_vars, ~overtaken',
           NEW c \in Calls, NEW g \in Files, PublishTarget(c, g),
           \/ call[c].at = "publish"
           \/ \E p \in Procs : Recovers(p) /\ proc[p].folder = c
    PROVE  FilesBar' = FilesBar /\ HappenedBar' = HappenedBar
<1>0. ~overtaken
  BY OvertakenStays DEF AtomicInv, WriteInv
<1>1. FilesAsOne
  BY <1>0 DEF AtomicInv
<1>2. FilesAsOne'
  BY DEF AtomicInv
<1>3. /\ txn[c].state = "intent" /\ call[c].op \in Ops /\ call[c].at # "idle"
      /\ g \in RequestOf(c).targets
  BY Publishers DEF AtomicInv
<1>4. /\ txn'[c].state = "intent" /\ \A d \in Calls \ {c} : txn'[d] = txn[d] /\ written'[d] = written[d]
      /\ \A f \in Files \ {g} : disk'[f] = disk[f]
  BY <1>3, PublishMoves DEF AtomicInv, WriteInv
<1>5. ASSUME NEW f \in Files PROVE FilesBar'[f] = FilesBar[f]
  <2>1. RequestOf(c)' = RequestOf(c) /\ Fresh(f, call[c].op)' = Fresh(f, call[c].op)
    BY <1>3, RequestsKept, FreshKept DEF AtomicInv
  <2>2. CommittedFile(c, f)' = CommittedFile(c, f)
    BY <1>3, <1>4, <2>1 DEF CommittedFile
  <2>3. QED
    BY <1>1, <1>2, <1>3, <1>4, <2>2 DEF FilesAsOne
<1>6. HappenedBar' = HappenedBar
  BY <1>3, <1>4 DEF HappenedBar
<1>7. QED
  BY <1>5, <1>6 DEF FilesBar

LEMMA PublishedSame ==
    ASSUME AtomicInv, AtomicInv', [Next]_vars, ~overtaken', NEW c \in Calls,
           txn[c].state = "intent", RequestOf(c).targets \subseteq written[c],
           TxnMoves(c, "none", {}), UNCHANGED <<disk, written>>
    PROVE  FilesBar' = FilesBar /\ HappenedBar' = HappenedBar
<1>0. ~overtaken
  BY OvertakenStays DEF AtomicInv, WriteInv
<1>1. FilesAsOne
  BY <1>0 DEF AtomicInv
<1>2. FilesAsOne'
  BY DEF AtomicInv
<1>3. \A d \in Calls : txn'[d].state # "intent"
  BY <1>0 DEF AtomicInv, IntentInv, OneIntent, TxnMoves
<1>4. ASSUME NEW f \in Files PROVE FilesBar'[f] = FilesBar[f]
  <2>1. FilesBar'[f] = disk[f]
    BY <1>2, <1>3 DEF FilesAsOne
  <2>2. FilesBar[f] = CommittedFile(c, f)
    BY <1>1 DEF FilesAsOne
  <2>3. f \in RequestOf(c).targets => disk[f] = Fresh(f, call[c].op)
    BY <1>0 DEF AtomicInv, IntentInv, WrittenIsFresh
  <2>4. QED
    BY <2>1, <2>2, <2>3 DEF CommittedFile
<1>5. written[c] # {}
  BY DEF AtomicInv, WriteInv, FolderInv, FolderHolds, FolderOf, RequestInv
<1>6. HappenedBar' = HappenedBar
  BY <1>5 DEF HappenedBar, TxnMoves
<1>7. QED
  BY <1>4, <1>6 DEF FilesBar

LEMMA PlansSame ==
    ASSUME WriteInv, [Next]_vars, \A c \in Calls : ~Ask(c)
    PROVE  PlanBar' = PlanBar
<1>1. ASSUME NEW c \in Calls PROVE PlanOf(c)' = PlanOf(c)
  <2>1. call'[c].op = call[c].op /\ request' = request
    BY RequestsStay
  <2>2. QED
    BY <2>1 DEF PlanOf, Asked, RequestOf, Fresh
<1>2. QED
  BY <1>1 DEF PlanBar

\* A call that asks proposes its edit.
LEMMA AskProposes ==
    ASSUME AtomicInv, AtomicInv', [Next]_vars, ~overtaken', NEW c \in Calls, Ask(c)
    PROVE  Atomic!Propose(c)
<1>1. /\ call[c].at = "idle" /\ UNCHANGED <<disk, txn, written>>
      /\ \A d \in Calls \ {c} :
           call'[d] = call[d] /\ (call[d].at # "idle" => RequestOf(d)' = RequestOf(d))
  BY OthersKeepRequests DEF AtomicInv, WriteInv
<1>2. FilesBar' = FilesBar /\ HappenedBar' = HappenedBar
  BY <1>1, FilesSame DEF HappenedBar
<1>3. PlanBar[c] = {}
  BY <1>1 DEF AtomicInv, WriteInv, RequestInv, PlanBar, PlanOf, Asked
<1>4. PlanBar' \in [Calls -> SUBSET Atomic!Plans]
  BY DEF AtomicInv, PlansTyped
<1>5. ASSUME NEW d \in Calls \ {c} PROVE PlanBar'[d] = PlanBar[d]
  <2>1. CASE call[d].at = "idle"
    BY <1>1, <2>1 DEF AtomicInv, WriteInv, RequestInv, PlanBar, PlanOf, Asked
  <2>2. CASE call[d].at # "idle"
    <3>1. call'[d] = call[d] /\ RequestOf(d)' = RequestOf(d)
      BY <1>1, <2>2
    <3>2. \A f \in Files : Fresh(f, call[d].op)' = Fresh(f, call[d].op)
      BY <2>2, FreshKept DEF AtomicInv
    <3>3. [f \in Files |-> Fresh(f, call[d].op)]' = [f \in Files |-> Fresh(f, call[d].op)]
      BY <3>2
    <3>4. PlanOf(d)' = PlanOf(d)
      BY <3>1, <3>3 DEF PlanOf, Asked
    <3>5. QED
      BY <3>4 DEF PlanBar
  <2>3. QED
    BY <2>1, <2>2
<1>6. QED
  BY <1>2, <1>3, <1>4, <1>5 DEF Atomic!Propose, FilesBar, PlanBar, HappenedBar

\* An edit happens when its intent is in place.
LEMMA CommitHappens ==
    ASSUME AtomicInv, AtomicInv', [Next]_vars, ~overtaken', NEW c \in Calls, Commits(c)
    PROVE  Atomic!Happen(c)
<1>0. ~overtaken
  BY OvertakenStays DEF AtomicInv, WriteInv
<1>1. FilesAsOne
  BY <1>0 DEF AtomicInv
<1>2. FilesAsOne'
  BY DEF AtomicInv
<1>3. /\ call[c].at = "commit" /\ TxnMoves(c, "intent", txn[c].staged) /\ UNCHANGED <<disk, written>>
  BY DEF Commits
<1>4. txn[c].state = "staged" /\ written[c] = {} /\ ExpectsHold(c) /\ Asked(c)
  BY <1>0, <1>3
     DEF AtomicInv, WriteInv, FolderInv, FolderHolds, FolderOf, IntentInv, CheckedStands,
         RequestInv, Asked
<1>5. \A d \in Calls : txn[d].state # "intent"
  BY CommitsAlone DEF AtomicInv
<1>6. c \notin HappenedBar /\ HappenedBar' = HappenedBar \cup {c}
  BY <1>3, <1>4 DEF HappenedBar, TxnMoves
<1>7. PlanBar' = PlanBar
  <2>1. \A d \in Calls : ~Ask(d)
    BY <1>3, <1>4, OthersKeepRequests DEF AtomicInv, WriteInv, TxnMoves
  <2>2. QED
    BY <2>1, PlansSame DEF AtomicInv
<1> DEFINE makes == [f \in Files |-> Fresh(f, call[c].op)]
           plan == [targets |-> RequestOf(c).targets, expects |-> RequestOf(c).expects,
                    makes |-> makes]
<1>8. plan \in PlanBar[c]
  BY <1>4 DEF PlanBar, PlanOf
<1>9. \A f \in plan.targets : FilesBar[f] = plan.expects[f]
  <2>1. RequestOf(c).targets \subseteq Files
    BY <1>4 DEF AtomicInv, WriteInv, RequestInv, Asked, TypeOK, RequestOf, Requests
  <2>2. QED
    BY <1>1, <1>4, <1>5, <2>1 DEF FilesAsOne, ExpectsHold
<1>10. ASSUME NEW f \in Files
       PROVE  FilesBar'[f] = IF f \in plan.targets THEN plan.makes[f] ELSE FilesBar[f]
  <2>1. RequestOf(c)' = RequestOf(c) /\ Fresh(f, call[c].op)' = Fresh(f, call[c].op)
    BY <1>3, RequestsKept, FreshKept DEF AtomicInv
  <2>2. FilesBar'[f] = CommittedFile(c, f)'
    BY <1>2, <1>3 DEF FilesAsOne, TxnMoves
  <2>3. FilesBar[f] = disk[f]
    BY <1>1, <1>5 DEF FilesAsOne
  <2>4. QED
    BY <1>3, <2>1, <2>2, <2>3 DEF CommittedFile
<1> HIDE DEF plan
<1>11. FilesBar' = [f \in Files |-> IF f \in plan.targets THEN plan.makes[f] ELSE FilesBar[f]]
  BY <1>10 DEF FilesBar
<1>12. QED
  BY <1>6, <1>7, <1>8, <1>9, <1>11 DEF Atomic!Happen, FilesBar, PlanBar, HappenedBar

\* All else leaves the atomic edits as they are.
LEMMA OthersLeaveEdits ==
    ASSUME AtomicInv, AtomicInv', [Next]_vars, ~overtaken',
           \A c \in Calls : ~Ask(c) /\ ~Commits(c)
    PROVE  UNCHANGED <<FilesBar, PlanBar, HappenedBar>>
<1> DEFINE Same == FilesBar' = FilesBar /\ HappenedBar' = HappenedBar
<1>1. PlanBar' = PlanBar
  BY PlansSame DEF AtomicInv
<1>2. ASSUME UNCHANGED <<disk, written>>,
             \A c \in Calls : txn'[c].state = "intent" <=> txn[c].state = "intent"
      PROVE  Same
  BY <1>2, FilesSame DEF HappenedBar
<1>3. ASSUME NEW c \in Calls, Stage(c) PROVE Same
  <2>1. /\ call[c].at = "stage" /\ UNCHANGED <<disk, written>>
        /\ TxnMoves(c, "staged", RequestOf(c).targets \ RequestOf(c).deletes)
    BY <1>3, StageMoves DEF AtomicInv, WriteInv
  <2>2. txn[c].state = "none"
    BY <2>1 DEF AtomicInv, WriteInv, FolderInv, FolderHolds, FolderOf
  <2>3. QED
    BY <1>2, <2>1, <2>2 DEF TxnMoves
<1>4. ASSUME NEW c \in Calls, CallPublishes(c) PROVE Same
  BY <1>4, PublishSame DEF CallPublishes
<1>5. ASSUME NEW c \in Calls, CallPublished(c) PROVE Same
  <2>1. /\ call[c].at = "publish" /\ todo[c] = {} /\ UNCHANGED <<disk, written>>
        /\ TxnMoves(c, "none", {})
    BY <1>5, CallPublishedMoves DEF AtomicInv, WriteInv
  <2>2. txn[c].state = "intent" /\ RequestOf(c).targets \subseteq written[c]
    BY <2>1 DEF AtomicInv, WriteInv, FolderInv, FolderHolds, FolderOf
  <2>3. QED
    BY <2>1, <2>2, PublishedSame
<1>6. ASSUME NEW p \in Procs, OpenFolder(p) PROVE Same
  <2>1. PICK c \in proc[p].folders :
          txn' = txn \/ (txn[c].state # "intent" /\ TxnMoves(c, "none", {}))
    BY <1>6, OpenFolderMoves DEF AtomicInv, WriteInv
  <2>2. UNCHANGED <<disk, written>>
    BY <1>6 DEF OpenFolder
  <2>3. QED
    BY <1>2, <2>1, <2>2 DEF TxnMoves
<1>7. ASSUME NEW p \in Procs, RecoveryPublishes(p) PROVE Same
  <2>1. PICK c \in Calls : \E f \in Files : c = proc[p].folder /\ PublishTarget(c, f)
    BY <1>7 DEF RecoveryPublishes, AtomicInv, WriteInv, TypeOK, ProcStates
  <2>2. QED
    BY <1>7, <2>1, PublishSame DEF RecoveryPublishes
<1>8. ASSUME NEW p \in Procs, RecoveryPublished(p) PROVE Same
  <2>1. PICK c \in Calls : c = proc[p].folder /\ c # NoTxn
    BY <1>8 DEF RecoveryPublished, AtomicInv, WriteInv, TypeOK, ProcStates
  <2>2. TxnMoves(c, "none", {}) /\ UNCHANGED <<disk, written>> /\ todo[c] = {}
    BY <1>8, <2>1, RecoveryPublishedMoves DEF AtomicInv, WriteInv
  <2>3. txn[c].state = "intent" /\ RequestOf(c).targets \subseteq written[c]
    BY <2>1, <2>2 DEF AtomicInv, WriteInv, RecoveryInv, RecoveryHolds
  <2>4. QED
    BY <2>2, <2>3, PublishedSame
<1>9. ASSUME UNCHANGED <<disk, txn, written>> PROVE Same
  BY <1>2, <1>9
<1>10. ASSUME NEW c \in Calls, CommitIntent(c) \/ WriteFails(c) PROVE Same
  <2>1. UNCHANGED <<disk, written>>
    BY <1>10 DEF CommitIntent, WriteFails
  <2>2. \A d \in Calls : txn'[d].state = "intent" => txn[d].state = "intent"
    BY IntentsPut DEF AtomicInv
  <2>3. \A d \in Calls : txn[d].state = "intent" => txn'[d].state = "intent"
    BY <1>10, CommitIntentMoves, WriteFailsMoves DEF AtomicInv, WriteInv, TxnMoves
  <2>4. QED
    BY <1>2, <2>1, <2>2, <2>3
<1> HIDE DEF Same
<1>11. Same
  BY <1>3, <1>4, <1>5, <1>6, <1>7, <1>8, <1>9, <1>10
     DEF Next, CallStep, ProcStep, TakeLock, Busy, Check, Record, Crash, Exit, Ends, Launch,
         RecoveryIsBusy, Start, Serve, RecoveryFails, vars, durable
<1>12. QED
  BY <1>1, <1>11 DEF Same

LEMMA AtomicInvHolds == Spec => []AtomicInv
<1>1. Spec => []IntentInv
  BY IntentInit, IntentStep, WriteInvHolds, PTL DEF Spec
<1>2. WriteInv /\ IntentInv => AtomicInv
  BY FilesAre, PlanTypes DEF AtomicInv
<1>3. QED
  BY <1>1, <1>2, WriteInvHolds, PTL

-----------------------------------------------------------------------------
(* Who may be overtaken *)

LEMMA ServedInit == Init => ServedInv
<1> SUFFICES ASSUME Init PROVE \A c \in Calls : txn[c].state = "none"
  BY DEF ServedInv
<1>1. QED
  BY DEF Init, NoFolder

\* What a step of the only server does to its hold of the intents.
LEMMA ServedStep ==
    ASSUME WriteInv, ServedInv, [Next]_vars
    PROVE  ServedInv'
<1> SUFFICES ASSUME OneServer, faults' = 0, NEW c \in Calls, NEW p \in Procs,
                    txn'[c].state = "intent"
             PROVE  /\ proc'[p].at = "up" => lock' = c
                    /\ proc'[p].at = "recovering" => c \in proc'[p].folders
  BY DEF ServedInv, OneServer
<1> USE DEF WriteInv
<1> DEFINE Held == /\ proc'[p].at = "up" => lock' = c
                   /\ proc'[p].at = "recovering" => c \in proc'[p].folders
<1>0. faults = 0 /\ \A d \in Calls : ~WriteFails(d)
  BY FaultsStay, WriteFailsMoves
<1>a. txn[c].state = "intent" =>
        /\ proc[p].at = "up" => lock = c
        /\ proc[p].at = "recovering" => c \in proc[p].folders
  BY <1>0 DEF ServedInv
<1>b. \A q \in Procs : q = p
  BY DEF OneServer
<1>c. FolderHolds(c) /\ c \notin Procs
  BY DEF FolderInv
<1>1. ASSUME UNCHANGED <<lock, proc>>, txn[c].state = "intent" PROVE Held
  BY <1>1, <1>a
\* Who gives the lock back has no intent.
<1>2. ASSUME UNCHANGED proc, txn[c].state = "intent", lock # c,
             NEW d \in Calls, lock = d \/ lock = Nobody
      PROVE  Held
  BY <1>2, <1>a DEF LockInv
<1>3. ASSUME NEW d \in Calls, CallStep(d) PROVE Held
  <2>1. CASE TakeLock(d)
    BY <1>2, <2>1, TakeLockMoves
  <2>2. CASE Check(d) \/ Record(d)
    <3>1. call[d].at \in {"check", "record"} /\ lock = d /\ UNCHANGED <<proc, txn>>
      BY <2>2, CheckMoves, RecordMoves DEF LockInv, Inside
    <3>2. lock # c
      BY <1>c, <3>1 DEF FolderHolds, FolderOf
    <3>3. QED
      BY <1>2, <3>1, <3>2
  <2>3. CASE Stage(d)
    BY <1>1, <2>3, StageMoves DEF TxnMoves
  <2>4. CASE CommitIntent(d)
    <3>1. lock = d /\ UNCHANGED <<lock, proc>> /\ TxnMoves(d, "intent", txn[d].staged)
      BY <2>4, CommitIntentMoves DEF LockInv, Inside
    <3>2. CASE c = d
      BY <3>1, <3>2 DEF LockInv
    <3>3. CASE c # d
      BY <1>1, <3>1, <3>3 DEF TxnMoves
    <3>4. QED
      BY <3>2, <3>3
  <2>5. CASE CallPublishes(d)
    BY <1>1, <2>5, AskedAnOp, PublishMoves DEF CallPublishes
  <2>6. CASE CallPublished(d)
    BY <1>1, <2>6, CallPublishedMoves DEF TxnMoves
  <2>7. QED
    BY <1>3, <2>1, <2>2, <2>3, <2>4, <2>5, <2>6 DEF CallStep
<1>4. ASSUME NEW d \in Calls, Ask(d) \/ Busy(d) PROVE Held
  BY <1>1, <1>4, OthersKeepRequests, BusyMoves
<1>5. ASSUME Ends(p) PROVE Held
  BY <1>5, EndsMoves
<1>6. ASSUME Launch(p) \/ RecoveryIsBusy(p) PROVE Held
  BY <1>6, TurnMoves DEF ProcMoves
<1>7. ASSUME Start(p) PROVE Held
  BY <1>7, StartMoves DEF ProcMoves, Folders
<1>8. ASSUME OpenFolder(p) PROVE Held
  <2>1. PICK d \in proc[p].folders :
          \/ txn' = txn /\ ProcMoves(p, "recovering", proc[p].folders, d)
          \/ TxnMoves(d, "none", {}) /\ ProcMoves(p, "recovering", proc[p].folders \ {d}, NoTxn)
    BY <1>8, OpenFolderMoves
  <2>2. proc[p].at = "recovering"
    BY <1>8, OpenFolderMoves
  <2>3. QED
    BY <1>a, <2>1, <2>2 DEF ProcMoves, TxnMoves
<1>9. ASSUME RecoveryPublishes(p) PROVE Held
  <2>1. PICK d \in Calls : \E f \in Files : d = proc[p].folder /\ PublishTarget(d, f)
    BY <1>9 DEF RecoveryPublishes, TypeOK, ProcStates
  <2>2. call[d].op \in Ops
    BY <1>9, <2>1, AskedAnOp DEF RecoveryInv, RecoveryHolds, RecoveryPublishes, Over
  <2>3. QED
    BY <1>1, <1>9, <2>1, <2>2, PublishMoves DEF RecoveryPublishes
<1>10. ASSUME RecoveryPublished(p) PROVE Held
  <2>1. PICK d \in Calls : d = proc[p].folder
    BY <1>10 DEF RecoveryPublished, TypeOK, ProcStates
  <2>2. /\ proc[p].at = "recovering" /\ TxnMoves(d, "none", {})
        /\ ProcMoves(p, "recovering", proc[p].folders \ {d}, NoTxn)
    BY <1>10, <2>1, RecoveryPublishedMoves
  <2>3. QED
    BY <1>a, <2>2 DEF ProcMoves, TxnMoves
<1>11. ASSUME Serve(p) PROVE Held
  BY <1>11, <1>a, ServeMoves DEF ProcMoves
<1>12. ASSUME RecoveryFails(p) PROVE Held
  BY <1>12, RecoveryFailsMoves
<1>13. ASSUME UNCHANGED vars PROVE Held
  BY <1>1, <1>13 DEF vars, volatile, durable
<1> HIDE DEF Held
<1>14. ASSUME NEW q \in Procs, Crash(q) \/ RecoveryFails(q) \/ RecoveryIsBusy(q) \/ ProcStep(q)
       PROVE  Held
  <2>1. Crash(p) \/ RecoveryFails(p) \/ RecoveryIsBusy(p) \/ ProcStep(p)
    BY <1>14, <1>b, Zenon
  <2>2. QED
    BY <2>1, <1>5, <1>6, <1>7, <1>8, <1>9, <1>10, <1>11, <1>12 DEF ProcStep, Crash, Exit
<1>15. Held
  BY <1>0, <1>3, <1>4, <1>13, <1>14 DEF Next
<1>16. QED
  BY <1>15 DEF Held

\* Who commits over an intent that waits is not served by a recovered server.
LEMMA ServedIsAlone ==
    ASSUME WriteInv, ServedInv, [Next]_vars, overtaken' # overtaken, OneServer, faults = 0,
           NEW c \in Calls, IntentOfServed(c)
    PROVE  FALSE
<1>1. PICK d \in Calls : Commits(d)
  BY IntentsPut
<1>2. c = d
  BY <1>1 DEF Commits, TxnMoves, IntentOfServed
<1>3. PICK e \in Calls \ {c} : txn[e].state = "intent"
  <2>1. overtaken \in BOOLEAN /\ PutIntent(c)
    BY <1>1, <1>2 DEF Commits, WriteInv, TypeOK
  <2>2. overtaken => overtaken' = overtaken
    BY <2>1, OvertakenStays DEF WriteInv
  <2>3. ~overtaken /\ overtaken'
    BY <2>1, <2>2, OvertakenStays DEF WriteInv
  <2>4. QED
    BY <2>1, <2>3, Zenon DEF PutIntent
<1>4. call[c].proc \in Procs /\ lock = c
  BY <1>1, <1>2 DEF Commits, WriteInv, LockInv, Inside, TypeOK, CallStates
<1>5. lock = e
  BY <1>3, <1>4 DEF ServedInv, IntentOfServed
<1>6. QED
  BY <1>3, <1>4, <1>5

(* Edits are atomic: for any number of servers, every edit happens at one instant,
   when its intent is in place, and finds its files as it expects them, through any
   crash, recovery and failing file operation, as long as none is committed over an
   intent that waits for its recovery; no edit is, of a call that the only server
   takes once it has recovered, as long as no file operation has failed. *)
THEOREM EditsHappenAtOnce == Spec => EditsAreAtomic
<1>1. Init => Atomic!AtomicInit
  <2> SUFFICES ASSUME Init PROVE Atomic!AtomicInit
    OBVIOUS
  <2>1. \A c \in Calls : txn[c].state = "none" /\ written[c] = {} /\ PlanOf(c) = {}
    BY DEF Init, NoFolder, PlanOf, Asked
  <2>2. FilesBar \in [Files -> Versions]
    BY <2>1 DEF FilesBar, FileAsCommitted, Overdue, Init, Versions
  <2>3. PlanBar = [c \in Calls |-> {}] /\ HappenedBar = {}
    BY <2>1 DEF PlanBar, HappenedBar
  <2>4. QED
    BY <2>2, <2>3 DEF Atomic!AtomicInit, FilesBar, PlanBar, HappenedBar
<1>2. AtomicInv /\ AtomicInv' /\ [Next]_vars =>
        [~overtaken' => [Atomic!AtomicNext]_(Atomic!atomicVars)]_vars
  <2> SUFFICES ASSUME AtomicInv, AtomicInv', [Next]_vars, ~overtaken'
               PROVE  Atomic!AtomicNext \/ UNCHANGED <<FilesBar, PlanBar, HappenedBar>>
    BY DEF Atomic!atomicVars, FilesBar, PlanBar, HappenedBar
  <2>1. ASSUME NEW c \in Calls, Ask(c) PROVE Atomic!AtomicNext
    BY <2>1, AskProposes DEF Atomic!AtomicNext
  <2>2. ASSUME NEW c \in Calls, Commits(c) PROVE Atomic!AtomicNext
    BY <2>2, CommitHappens DEF Atomic!AtomicNext
  <2>3. QED
    BY <2>1, <2>2, OthersLeaveEdits
<1>3. Spec => []ServedInv
  BY ServedInit, ServedStep, WriteInvHolds, PTL DEF Spec
<1>4. WriteInv /\ ServedInv /\ [Next]_vars =>
        [overtaken' # overtaken /\ OneServer /\ faults = 0 =>
             ~\E c \in Calls : IntentOfServed(c)]_vars
  BY ServedIsAlone
<1>5. QED
  BY <1>1, <1>2, <1>3, <1>4, AtomicInvHolds, WriteInvHolds, PTL DEF Spec, EditsAreAtomic

-----------------------------------------------------------------------------
(* The project lock as the file it is (WriteLock). It is exclusive for any number of
   contenders, until one dies and as long as no edit outlives its TTL; the run of
   WriteLockBroken shows what a death costs. *)

HIDE NamesAssumption

Owning(p) == at[p] = "made" \/ Holding(p)

(* Whoever has made the file and not given it back is named by it; nobody is
   about to break one. *)
Owned ==
    /\ \A p \in Contenders : Owning(p) => file.by = p
    /\ \A p \in Contenders : Holding(p) => file.says = "holder"
    /\ \A p \in Contenders : at[p] # "break"
    /\ ~file.old

SteadyInv == LockTypeOK /\ (NobodyDied => Owned)

LEMMA SteadyInit == LockInit => SteadyInv
BY ContenderAssumption DEF LockInit, SteadyInv, LockTypeOK, NobodyDied, Owned, Owning,
   Holding, NoFile, LockFiles, Steps

(* No step of any process disturbs the owner of the file. *)
LEMMA SteadyStep ==
    ASSUME Slow = FALSE
    PROVE  SteadyInv /\ [LockNext]_lockVars => SteadyInv'
<1> SUFFICES ASSUME SteadyInv, [LockNext]_lockVars PROVE SteadyInv'
  OBVIOUS
<1> USE ContenderAssumption DEF SteadyInv, LockTypeOK, NobodyDied, Owned, Owning,
        Holding, NoFile, LockFiles, Steps, Goes
<1>1. CASE UNCHANGED lockVars
  BY <1>1 DEF lockVars
<1>2. ASSUME NEW p \in Contenders, Tries(p) PROVE SteadyInv'
  BY <1>2 DEF Tries
<1>3. ASSUME NEW p \in Contenders, Create(p) PROVE SteadyInv'
  BY <1>3 DEF Create, Free, FileOf
<1>4. ASSUME NEW p \in Contenders, CreateFails(p) PROVE SteadyInv'
  BY <1>4 DEF CreateFails
<1>5. ASSUME NEW p \in Contenders, WriteHolder(p) PROVE SteadyInv'
  BY <1>5 DEF WriteHolder
<1>6. ASSUME NEW p \in Contenders, ReadHolder(p) PROVE SteadyInv'
  BY <1>6 DEF ReadHolder, Stale
<1>7. ASSUME NEW p \in Contenders, DateFile(p) PROVE SteadyInv'
  BY <1>7 DEF DateFile, UnreadableExpired
<1>8. ASSUME NEW p \in Contenders, Break(p) PROVE SteadyInv'
  BY <1>8 DEF Break
<1>9. ASSUME NEW p \in Contenders, Poll(p) \/ GiveUp(p) PROVE SteadyInv'
  BY <1>9 DEF Poll, GiveUp
<1>10. ASSUME NEW p \in Contenders, Refresh(p) PROVE SteadyInv'
  BY <1>10 DEF Refresh, FileOf
<1>11. ASSUME NEW p \in Contenders, EndsEdit(p) PROVE SteadyInv'
  BY <1>11 DEF EndsEdit
<1>12. ASSUME NEW p \in Contenders, Release(p) PROVE SteadyInv'
  BY <1>12 DEF Release
<1>13. ASSUME NEW p \in Contenders, Unlink(p) PROVE SteadyInv'
  BY <1>13 DEF Unlink
<1>14. ASSUME NEW p \in Contenders, Dies(p) PROVE SteadyInv'
  BY <1>14 DEF Dies
<1>15. CASE Expire
  BY <1>15 DEF Expire
<1> QED
  BY <1>1, <1>2, <1>3, <1>4, <1>5, <1>6, <1>7, <1>8, <1>9, <1>10, <1>11, <1>12, <1>13,
     <1>14, <1>15 DEF LockNext, Acquires, Releases

(* The lock keeps its types, whoever dies and however long a file lives. *)
THEOREM LockTypes == LockSpec => []LockTypeOK
<1>1. LockInit => LockTypeOK
  BY DEF LockInit, LockTypeOK, LockFiles, Steps
<1>2. LockTypeOK /\ [LockNext]_lockVars => LockTypeOK'
  <2> SUFFICES ASSUME LockTypeOK, [LockNext]_lockVars PROVE LockTypeOK'
    OBVIOUS
  <2> USE DEF LockTypeOK, LockFiles, Steps, NoFile, Goes, FileOf
  <2>1. CASE UNCHANGED lockVars
    BY <2>1 DEF lockVars
  <2>2. ASSUME NEW p \in Contenders, Acquires(p) PROVE LockTypeOK'
    <3>1. CASE Create(p)
      BY <3>1 DEF Create
    <3>2. CASE WriteHolder(p)
      BY <3>2, ContenderAssumption DEF WriteHolder
    <3>3. CASE Break(p) \/ CreateFails(p) \/ Poll(p)
      BY <3>3 DEF Break, CreateFails, Poll
    <3>4. CASE ReadHolder(p) \/ DateFile(p)
      BY <3>4 DEF ReadHolder, DateFile
    <3> QED
      BY <2>2, <3>1, <3>2, <3>3, <3>4 DEF Acquires
  <2>3. ASSUME NEW p \in Contenders, Releases(p) PROVE LockTypeOK'
    <3>1. CASE Refresh(p)
      BY <3>1 DEF Refresh
    <3>2. CASE EndsEdit(p)
      BY <3>2 DEF EndsEdit
    <3>3. CASE Release(p)
      BY <3>3 DEF Release
    <3>4. CASE Unlink(p)
      BY <3>4 DEF Unlink
    <3> QED
      BY <2>3, <3>1, <3>2, <3>3, <3>4 DEF Releases
  <2>4. ASSUME NEW p \in Contenders, Tries(p) \/ GiveUp(p) \/ Dies(p) PROVE LockTypeOK'
    BY <2>4 DEF Tries, GiveUp, Dies
  <2>5. CASE Expire
    BY <2>5 DEF Expire
  <2> QED
    BY <2>1, <2>2, <2>3, <2>4, <2>5 DEF LockNext
<1> QED
  BY <1>1, <1>2, PTL DEF LockSpec

(* Two processes never hold the project lock at once (ProjectLock.acquire). *)
THEOREM LockIsExclusive ==
    ASSUME Slow = FALSE
    PROVE  LockSpec => []Exclusive
<1>1. SteadyInv => Exclusive
  BY DEF SteadyInv, Owned, Owning, Exclusive, OneHolder
<1>2. LockInit => SteadyInv
  BY SteadyInit
<1>3. SteadyInv /\ [LockNext]_lockVars => SteadyInv'
  BY SteadyStep
<1> QED
  BY <1>1, <1>2, <1>3, PTL DEF LockSpec

(* The lock file names its holder until the holder gives it back. *)
THEOREM HolderKeepsTheFile ==
    ASSUME Slow = FALSE
    PROVE  LockSpec => []HolderOwnsTheFile
<1>1. SteadyInv => HolderOwnsTheFile
  BY DEF SteadyInv, Owned, Owning, HolderOwnsTheFile
<1>2. LockInit => SteadyInv
  BY SteadyInit
<1>3. SteadyInv /\ [LockNext]_lockVars => SteadyInv'
  BY SteadyStep
<1> QED
  BY <1>1, <1>2, <1>3, PTL DEF LockSpec
=============================================================================
