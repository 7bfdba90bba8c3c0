--------------------------- MODULE SeriesLifecycle ---------------------------
(****************************************************************************)
(* The life of one series record: the series workflow that gates, drives and *)
(* finalizes it (series/workflow.py), and the service calls that start,      *)
(* read, approve and cancel it (series/jobs.py), all writing one row of the  *)
(* series store (series/store.py).                                           *)
(*                                                                          *)
(* A step of the workflow and a call of the service await between their      *)
(* reads and their writes, so those are separate actions here. `store.update`*)
(* overwrites whatever the row holds; `store.settle` keeps a terminal row.   *)
(* DBOS, the durable workflow engine, is external: a workflow that is        *)
(* cancelled finishes the step it is in and starts no other; a crash repeats *)
(* the step that was not recorded; a message is sent once per key.           *)
(* What the drive does with its attempts is the subject of SeriesDrive.      *)
(****************************************************************************)
EXTENDS Integers, Sequences, FiniteSets

CONSTANTS
    Starters, Readers, Approvers, Cancellers,  \* the callers of the service
    StartCaps,   \* the caps a series may be created with
    WantedCaps,  \* the caps an approval may name
    MaxCap,      \* bound: a drive under this cap finishes without another pause
    MaxCrashes   \* bound: how often the server process dies

ASSUME CallersAssumption ==
    \A P, Q \in {Starters, Readers, Approvers, Cancellers} : P = Q \/ P \cap Q = {}
ASSUME CapsAssumption ==
    StartCaps \subseteq Nat \ {0} /\ WantedCaps \subseteq Nat \ {0} /\ MaxCap \in Nat
ASSUME CrashAssumption == MaxCrashes \in Nat

VARIABLES
    record,     \* the row of the series: its status, cap and pause reason
    wf,         \* the series workflow
    finding,    \* whether the finding's file is in the project
    topic,      \* the approvals sent and not yet received, oldest first
    sentKeys,   \* the idempotency keys the engine has seen
    graceOver,  \* UNSTARTED_GRACE_SECONDS have passed since the record was created
    callers,    \* the service calls in progress
    crashes

vars == <<record, wf, finding, topic, sentKeys, graceOver, callers, crashes>>

-----------------------------------------------------------------------------

Callers == Starters \cup Readers \cup Approvers \cup Cancellers
Caps == Nat \ {0}

Active == {"awaiting", "running"}
Terminal == {"done", "cancelled", "failed"}
Reasons == {"none", "cap_above_project", "spend_near_cap"}

Records == [status : Active \cup Terminal \cup {"absent"}, cap : Caps \cup {0}, reason : Reasons]
NoRecord == [status |-> "absent", cap |-> 0, reason |-> "none"]

Approvals == [key : Reasons \X Caps, cap : Caps]

WorkflowStatuses == {"none", "pending", "success", "error", "cancelled"}
WorkflowSteps == {"prepare", "gate", "recv", "mark", "mark_write", "drive", "pause",
                  "pause_write", "finalize", "publish", "final_write", "finish"}
\* `cap` is the cap the drive uses, `end` the closing status of its attempts.
Workflows == [status : WorkflowStatuses, at : WorkflowSteps, cap : Caps \cup {0},
              end : {"none", "done", "failed"}]

\* Where a call is: it read the record, settles a change, or holds the record it acts on.
Positions == {"idle", "read", "settling", "holding", "creating", "launching", "answered"}
CallerStates == [at : Positions, round : {1, 2}, seen : Records,
                 change : {"none", "cancelled", "failed"}]
Idle == [at |-> "idle", round |-> 1, seen |-> NoRecord, change |-> "none"]

-----------------------------------------------------------------------------
(* The store *)

Updated(change) == [k \in DOMAIN record |-> IF k \in DOMAIN change THEN change[k] ELSE record[k]]
Settled(change) == IF record.status \in Terminal THEN record ELSE Updated(change)

-----------------------------------------------------------------------------

Init ==
    /\ record = NoRecord
    /\ wf = [status |-> "none", at |-> "prepare", cap |-> 0, end |-> "none"]
    /\ finding = FALSE
    /\ topic = <<>>
    /\ sentKeys = {}
    /\ graceOver = FALSE
    /\ callers = [c \in Callers |-> Idle]
    /\ crashes = 0

-----------------------------------------------------------------------------
(* run_series. A workflow begins a step only while it is pending; the second
   half of a step (`_write`, `publish`) runs whatever happened meanwhile. *)

Begins(step) == wf.status = "pending" /\ wf.at = step
Continues(step) == wf.at = step
external == <<topic, sentKeys, graceOver, callers, crashes>>

PrepareSeries ==
    /\ Begins("prepare")
    /\ wf' = [wf EXCEPT !.at = "gate", !.cap = record.cap]
    /\ UNCHANGED <<record, finding, external>>

(* `approval_gate`: SeriesRun.needs_approval was fixed when the record was created.
   The announce step never writes: the status it wants is AWAITING_APPROVAL. *)
ApprovalGate ==
    /\ Begins("gate")
    /\ wf' = [wf EXCEPT !.at = IF record.reason = "cap_above_project" THEN "recv" ELSE "drive"]
    /\ UNCHANGED <<record, finding, external>>

(* `wait_for_approval`, the cap of the message being the cap of the drive. *)
ReceiveApproval ==
    /\ Begins("recv")
    /\ topic # <<>>
    /\ topic' = Tail(topic)
    /\ wf' = [wf EXCEPT !.at = "mark", !.cap = Head(topic).cap]
    /\ UNCHANGED <<record, finding, sentKeys, graceOver, callers, crashes>>

MarkApprovedReads ==
    /\ Begins("mark")
    /\ wf' = [wf EXCEPT !.at = IF record.status = "awaiting" THEN "mark_write" ELSE "drive"]
    /\ UNCHANGED <<record, finding, external>>

MarkApprovedWrites ==
    /\ Continues("mark_write")
    /\ record' = Updated([status |-> "running", cap |-> wf.cap])
    /\ wf' = [wf EXCEPT !.at = "drive"]
    /\ UNCHANGED <<finding, external>>

(* `drive_attempts` comes to its spend gate, or to its end with the closing
   status of the attempts. *)
DrivePauses ==
    /\ Begins("drive")
    /\ wf.cap < MaxCap
    /\ wf' = [wf EXCEPT !.at = "pause"]
    /\ UNCHANGED <<record, finding, external>>

DriveEnds ==
    /\ Begins("drive")
    /\ \E end \in {"done", "failed"} : wf' = [wf EXCEPT !.at = "finalize", !.end = end]
    /\ UNCHANGED <<record, finding, external>>

PauseSeriesReads ==
    /\ Begins("pause")
    /\ wf' = [wf EXCEPT !.at = IF record.status = "running" THEN "pause_write" ELSE "recv"]
    /\ UNCHANGED <<record, finding, external>>

PauseSeriesWrites ==
    /\ Continues("pause_write")
    /\ record' = Updated([status |-> "awaiting", reason |-> "spend_near_cap"])
    /\ wf' = [wf EXCEPT !.at = "recv"]
    /\ UNCHANGED <<finding, external>>

(* `finalize_series` reads the record and the attempts and analyses them. The
   status it found is not looked at again. *)
FinalizeReads ==
    /\ Begins("finalize")
    /\ wf' = [wf EXCEPT !.at = "publish"]
    /\ UNCHANGED <<record, finding, external>>

(* `published`: only a series whose attempts gave a verdict writes its finding. *)
FinalizePublishes ==
    /\ Continues("publish")
    /\ finding' \in {finding, wf.end = "done" \/ finding}
    /\ wf' = [wf EXCEPT !.at = "final_write"]
    /\ UNCHANGED <<record, external>>

FinalizeWrites ==
    /\ Continues("final_write")
    /\ record' = Updated([status |-> wf.end])
    /\ wf' = [wf EXCEPT !.at = "finish"]
    /\ UNCHANGED <<finding, external>>

WorkflowReturns ==
    /\ Begins("finish")
    /\ wf' = [wf EXCEPT !.status = "success"]
    /\ UNCHANGED <<record, finding, external>>

(* A step raises, or the engine gives up recovering the workflow. *)
WorkflowRaises ==
    /\ wf.status = "pending"
    /\ wf' = [wf EXCEPT !.status = "error", !.at = "finish"]
    /\ UNCHANGED <<record, finding, external>>

WorkflowStep ==
    \/ PrepareSeries \/ ApprovalGate \/ ReceiveApproval
    \/ MarkApprovedReads \/ MarkApprovedWrites
    \/ DriveEnds \/ PauseSeriesReads \/ PauseSeriesWrites
    \/ FinalizeReads \/ FinalizePublishes \/ FinalizeWrites
    \/ WorkflowReturns

-----------------------------------------------------------------------------
(* SeriesService._reconciled, which every call but `start` begins with. *)

Move(c, next) == callers' = [callers EXCEPT ![c] = next]
engineOnly == <<finding, topic, sentKeys, graceOver, crashes>>

\* A call that finds the record ended is refused, or only reads it.
Holding(c, r) ==
    IF r.status \in Active \/ callers[c].round = 2
    THEN [callers[c] EXCEPT !.at = "holding", !.seen = r, !.change = "none"]
    ELSE Idle

ReadRecord(c) ==
    /\ c \notin Starters
    /\ callers[c].at = "idle"
    /\ record.status # "absent"
    /\ Move(c, IF record.status \in Active
               THEN [callers[c] EXCEPT !.at = "read", !.seen = record]
               ELSE Holding(c, record))
    /\ UNCHANGED <<record, wf, engineOnly>>

\* Slip: no rule for a workflow that was never started.
StartedReconciliation ==
    CASE wf.status = "error"     -> "failed"
      [] wf.status = "cancelled" -> "cancelled"
      [] OTHER                   -> "none"

\* RECONCILE_RULES: what the workflow's status makes of an active record.
Reconciliation ==
    CASE wf.status = "error"                  -> "failed"
      [] wf.status = "cancelled"              -> "cancelled"
      [] wf.status = "none" /\ graceOver      -> "failed"
      [] OTHER                                -> "none"

LookAtWorkflow(c) ==
    /\ callers[c].at = "read"
    /\ Move(c, IF Reconciliation = "none"
               THEN Holding(c, callers[c].seen)
               ELSE [callers[c] EXCEPT !.at = "settling", !.change = Reconciliation])
    /\ UNCHANGED <<record, wf, engineOnly>>

SettleReconciled(c) ==
    /\ callers[c].at = "settling"
    /\ record' = Settled([status |-> callers[c].change])
    /\ Move(c, Holding(c, record'))
    /\ UNCHANGED <<wf, engineOnly>>

ReturnRead(c) ==
    /\ c \in Readers
    /\ callers[c].at = "holding"
    /\ Move(c, Idle)
    /\ UNCHANGED <<record, wf, engineOnly>>

-----------------------------------------------------------------------------
(* SeriesService.approve *)

\* pause_reason: a record without a pause is taken to wait at the start.
PauseReason(r) == IF r.reason = "none" THEN "cap_above_project" ELSE r.reason
DefaultCap(r) == IF PauseReason(r) = "spend_near_cap" THEN 2 * r.cap ELSE r.cap
ApprovedCaps(r) ==
    {cap \in {DefaultCap(r)} \cup WantedCaps :
        PauseReason(r) = "spend_near_cap" => cap > r.cap}
ApprovalKey(r) == <<PauseReason(r), r.cap>>

\* Slip: every click sends a message.
SendEveryApproval(c) ==
    /\ c \in Approvers
    /\ callers[c].at = "holding"
    /\ callers[c].seen.status = "awaiting"
    /\ LET key == ApprovalKey(callers[c].seen) IN
       \E cap \in ApprovedCaps(callers[c].seen) :
         /\ topic' = Append(topic, [key |-> key, cap |-> cap])
         /\ sentKeys' = sentKeys \cup {key}
    /\ Move(c, Idle)
    /\ UNCHANGED <<record, wf, finding, graceOver, crashes>>

(* The message is dropped when its key was sent before: `send_async` with an
   idempotency key. *)
SendApproval(c) ==
    /\ c \in Approvers
    /\ callers[c].at = "holding"
    /\ callers[c].seen.status = "awaiting"
    /\ LET key == ApprovalKey(callers[c].seen) IN
       \E cap \in ApprovedCaps(callers[c].seen) :
         /\ topic' = IF key \in sentKeys THEN topic ELSE Append(topic, [key |-> key, cap |-> cap])
         /\ sentKeys' = sentKeys \cup {key}
    /\ Move(c, Idle)
    /\ UNCHANGED <<record, wf, finding, graceOver, crashes>>

RefuseApproval(c) ==
    /\ c \in Approvers
    /\ callers[c].at = "holding"
    /\ \/ callers[c].seen.status # "awaiting"
       \/ ApprovedCaps(callers[c].seen) = {}
    /\ Move(c, Idle)
    /\ UNCHANGED <<record, wf, engineOnly>>

-----------------------------------------------------------------------------
(* SeriesService.cancel: reconcile, cancel the workflow, reconcile again, and
   settle the record if it is still active. *)

RefuseCancel(c) ==
    /\ c \in Cancellers
    /\ callers[c].at = "holding"
    /\ callers[c].seen.status \in {"done", "failed"}
    /\ Move(c, Idle)
    /\ UNCHANGED <<record, wf, engineOnly>>

CancelWorkflow(c) ==
    /\ c \in Cancellers
    /\ callers[c].at = "holding" /\ callers[c].round = 1
    /\ callers[c].seen.status \in Active
    /\ wf' = IF wf.status = "pending" THEN [wf EXCEPT !.status = "cancelled"] ELSE wf
    /\ Move(c, [Idle EXCEPT !.round = 2])
    /\ UNCHANGED <<record, engineOnly>>

MarkCancelled(c) ==
    /\ c \in Cancellers
    /\ callers[c].at = "holding" /\ callers[c].round = 2
    /\ callers[c].seen.status \in Active
    /\ record' = Settled([status |-> "cancelled"])
    /\ Move(c, [callers[c] EXCEPT !.seen = record'])
    /\ UNCHANGED <<wf, engineOnly>>

\* The call returns a summary of a record it saw cancelled.
AnswerCancelled(c) ==
    /\ c \in Cancellers
    /\ callers[c].at = "holding" /\ callers[c].round = 2
    /\ callers[c].seen.status = "cancelled"
    /\ Move(c, [callers[c] EXCEPT !.at = "answered"])
    /\ UNCHANGED <<record, wf, engineOnly>>

-----------------------------------------------------------------------------
(* SeriesService.start, called again with the same client_op_id as well: it
   creates the record unless it is there, and launches the workflow, which is
   one however often it is launched. Prices are warmed in between. *)

StartReads(c) ==
    /\ c \in Starters
    /\ callers[c].at = "idle"
    /\ Move(c, [Idle EXCEPT !.at = IF record.status = "absent" THEN "creating" ELSE "launching"])
    /\ UNCHANGED <<record, wf, engineOnly>>

CreateRecord(c) ==
    /\ callers[c].at = "creating"
    /\ IF record.status = "absent"
       THEN \E cap \in StartCaps, needsApproval \in BOOLEAN :
              record' = IF needsApproval
                        THEN [status |-> "awaiting", cap |-> cap, reason |-> "cap_above_project"]
                        ELSE [status |-> "running", cap |-> cap, reason |-> "none"]
       ELSE UNCHANGED record
    /\ Move(c, [callers[c] EXCEPT !.at = "launching"])
    /\ UNCHANGED <<wf, engineOnly>>

LaunchSeries(c) ==
    /\ callers[c].at = "launching"
    /\ wf' = IF wf.status = "none" THEN [wf EXCEPT !.status = "pending"] ELSE wf
    /\ Move(c, Idle)
    /\ UNCHANGED <<record, engineOnly>>

-----------------------------------------------------------------------------

GraceEnds ==
    /\ record.status # "absent"
    /\ ~graceOver
    /\ graceOver' = TRUE
    /\ UNCHANGED <<record, wf, finding, topic, sentKeys, callers, crashes>>

\* The step a workflow repeats when it is recovered.
StepStart ==
    CASE wf.at = "mark_write"                  -> "mark"
      [] wf.at = "pause_write"                 -> "pause"
      [] wf.at \in {"publish", "final_write"}  -> "finalize"
      [] OTHER                                 -> wf.at

(* The server process dies and starts again: calls are lost, and the workflow
   resumes at the first step that was not recorded. *)
Crash ==
    /\ crashes < MaxCrashes
    /\ crashes' = crashes + 1
    /\ callers' = [c \in Callers |-> IF callers[c].at = "answered" THEN callers[c] ELSE Idle]
    /\ wf' = [wf EXCEPT !.at = StepStart]
    /\ UNCHANGED <<record, finding, topic, sentKeys, graceOver>>

Reconcile(c) == ReadRecord(c) \/ LookAtWorkflow(c) \/ SettleReconciled(c)
ReaderStep(c) == c \in Readers /\ (Reconcile(c) \/ ReturnRead(c))
ApproverStep(c) == c \in Approvers /\ (Reconcile(c) \/ SendApproval(c) \/ RefuseApproval(c))
CancellerStep(c) ==
    c \in Cancellers /\ (Reconcile(c) \/ RefuseCancel(c) \/ CancelWorkflow(c)
                            \/ MarkCancelled(c) \/ AnswerCancelled(c))
StarterStep(c) == StartReads(c) \/ CreateRecord(c) \/ LaunchSeries(c)

Next ==
    \/ WorkflowStep \/ DrivePauses \/ WorkflowRaises
    \/ \E c \in Callers :
         ReaderStep(c) \/ ApproverStep(c) \/ CancellerStep(c) \/ StarterStep(c)
    \/ GraceEnds
    \/ Crash

Spec == Init /\ [][Next]_vars

(* The engine runs a pending workflow, time passes, a client polls the series
   while it is open, and a person continues it when it pauses. Nothing makes
   anyone cancel or start it again, and a pause or an error may never come. *)
Fairness ==
    /\ WF_vars(WorkflowStep)
    /\ WF_vars(GraceEnds)
    /\ \A c \in Readers : WF_vars(ReaderStep(c))
    /\ \A c \in Approvers : WF_vars(ApproverStep(c))
FairSpec == Spec /\ Fairness

-----------------------------------------------------------------------------

TypeOK ==
    /\ record \in Records
    /\ wf \in Workflows
    /\ finding \in BOOLEAN
    /\ topic \in Seq(Approvals)
    /\ sentKeys \in SUBSET (Reasons \X Caps)
    /\ graceOver \in BOOLEAN
    /\ callers \in [Callers -> CallerStates]
    /\ crashes \in 0 .. MaxCrashes

(* An approval reaches the pause it was given at. A second click, or a person
   who looked at an earlier pause, cannot continue a later one nor change its
   cap: at most one message waits, and it names the pause the workflow waits at
   (approval_key, send_async, wait_for_approval). *)
ApprovalsMeetTheirPause ==
    /\ Len(topic) <= 1
    /\ wf.at = "recv" /\ topic # <<>> =>
         /\ Head(topic).key = <<record.reason, wf.cap>>

(* Once someone has started a series its record ends for good, also when its
   workflow was cancelled or failed in the middle of a step. *)
SeriesEnds == record.status # "absent" ~> [](record.status \in Terminal)

(* A series that a person stopped ends cancelled: what the call answered is not
   taken back. *)
StoppedSeriesStaysCancelled ==
    (\E c \in Cancellers : callers[c].at = "answered") => record.status = "cancelled"
=============================================================================
