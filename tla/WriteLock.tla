------------------------------- MODULE WriteLock -------------------------------
(****************************************************************************)
(* The project lock (write/lock.py): a file that at most one process can      *)
(* create, that names its holder, and that anyone may remove when the holder  *)
(* is dead or the file is older than its TTL. Reading the file and removing   *)
(* it are two steps. A writer's text goes to the file it created, which may   *)
(* have been removed and made anew by another meanwhile.                      *)
(****************************************************************************)
CONSTANTS
    Contenders,   \* the threads and processes that ask for the lock
    NoContender,  \* who made a file that is not there
    Mortal,       \* those of them that may die
    Slow          \* whether the edit of a living process may outlive its TTL

ASSUME ContenderAssumption == NoContender \notin Contenders
ASSUME HazardsAssumption == Mortal \subseteq Contenders /\ Slow \in BOOLEAN

VARIABLES
    at,        \* where each process is in acquire, its edit and release
    file       \* .aqven/lock: who made it, what it says, whether its TTL is over

lockVars == <<at, file>>

Steps == {"idle", "try", "read", "stat", "break", "poll",
          "made", "holds", "commits", "release", "unlink", "dead"}
NoFile == [by |-> NoContender, says |-> "nothing", old |-> FALSE]
LockFiles == [by : Contenders, says : {"blank", "holder"}, old : BOOLEAN] \cup {NoFile}
FileOf(p, text) == [by |-> p, says |-> text, old |-> FALSE]

LockInit ==
    /\ at = [p \in Contenders |-> "idle"]
    /\ file = NoFile

-----------------------------------------------------------------------------

Goes(p, from, to) == at[p] = from /\ at' = [at EXCEPT ![p] = to]

Tries(p) == Goes(p, "idle", "try") /\ UNCHANGED file

\* Slip: the file is created without O_EXCL.
AlwaysFree == TRUE
Free == file = NoFile

(* _try_acquire: the file is there, and blank until the holder is written. *)
Create(p) ==
    /\ Free
    /\ Goes(p, "try", "made")
    /\ file' = FileOf(p, "blank")

CreateFails(p) == ~Free /\ Goes(p, "try", "read") /\ UNCHANGED file

WriteHolder(p) ==
    /\ Goes(p, "made", "holds")
    /\ file' = IF file.by = p THEN [file EXCEPT !.says = "holder"] ELSE file

Stale == file.old \/ at[file.by] = "dead"

(* _break_stale reads the holder: a live one is left, a stale one is to go, and a
   file that names nobody is dated first. *)
ReadHolder(p) ==
    /\ \/ file.says = "holder" /\ ~Stale /\ Goes(p, "read", "poll")
       \/ file.says = "holder" /\ Stale /\ Goes(p, "read", "break")
       \/ file.says # "holder" /\ Goes(p, "read", "stat")
    /\ UNCHANGED file

\* Slip: a file that names nobody is always being written.
BeingWritten == FALSE
UnreadableExpired == file.old

DateFile(p) ==
    /\ Goes(p, "stat", IF UnreadableExpired THEN "break" ELSE "poll")
    /\ UNCHANGED file

Break(p) == Goes(p, "break", "poll") /\ file' = NoFile

Poll(p) == Goes(p, "poll", "try") /\ UNCHANGED file
GiveUp(p) == Goes(p, "poll", "idle") /\ UNCHANGED file

(* LockLease.refresh, which every commit begins with: the file is replaced, whoever
   made it. *)
Refresh(p) == Goes(p, "holds", "commits") /\ file' = FileOf(p, "holder")

EndsEdit(p) ==
    /\ Goes(p, "holds", "release") \/ Goes(p, "commits", "release")
    /\ UNCHANGED file

(* LockLease.release: a file of another holder is left. *)
Release(p) ==
    /\ Goes(p, "release", IF file.by = p /\ file.says = "holder" THEN "unlink" ELSE "idle")
    /\ UNCHANGED file
Unlink(p) == Goes(p, "unlink", "idle") /\ file' = NoFile

Dies(p) ==
    /\ p \in Mortal
    /\ at[p] # "dead"
    /\ at' = [at EXCEPT ![p] = "dead"]
    /\ UNCHANGED file

(* The TTL of the file is over. *)
Expire ==
    /\ file # NoFile
    /\ Slow \/ at[file.by] = "dead"
    /\ ~file.old
    /\ file' = [file EXCEPT !.old = TRUE]
    /\ UNCHANGED at

Acquires(p) ==
    \/ Create(p) \/ CreateFails(p) \/ WriteHolder(p)
    \/ ReadHolder(p) \/ DateFile(p) \/ Break(p) \/ Poll(p)
Releases(p) == Refresh(p) \/ EndsEdit(p) \/ Release(p) \/ Unlink(p)

LockNext ==
    \/ \E p \in Contenders : Tries(p) \/ Acquires(p) \/ GiveUp(p) \/ Releases(p) \/ Dies(p)
    \/ Expire

LockSpec == LockInit /\ [][LockNext]_lockVars

(* Threads run, edits end, time passes. Nobody has to ask or to give up. *)
FairLockSpec ==
    LockSpec /\ WF_lockVars(Expire) /\ \A p \in Contenders : WF_lockVars(Acquires(p)) /\ WF_lockVars(Releases(p))

-----------------------------------------------------------------------------

Holding(p) == at[p] \in {"holds", "commits", "release", "unlink"}

LockTypeOK ==
    /\ at \in [Contenders -> Steps]
    /\ file \in LockFiles

NobodyDied == \A p \in Contenders : at[p] # "dead"

(* Two processes never edit the project at once (ProjectLock.acquire). *)
OneHolder == \A p, q \in Contenders : Holding(p) /\ Holding(q) => p = q

(* The same, as long as no process has died. *)
Exclusive == NobodyDied => OneHolder

(* The file names the process that holds the lock, so that no other breaks it and
   its release removes it, as long as no process has died (LockLease.release). *)
HolderOwnsTheFile ==
    NobodyDied => \A p \in Contenders : Holding(p) => file.by = p /\ file.says = "holder"

Trying(p) == at[p] \in {"try", "read", "stat", "break", "poll"}

(* A lock left by a dead process goes as soon as another asks for long enough,
   also when its holder died before it wrote its name (_break_stale). *)
DeadLocksGo ==
    \A p, q \in Contenders :
        at[p] = "dead" /\ file.by = p /\ Trying(q) ~> file.by # p \/ ~Trying(q)
=============================================================================
