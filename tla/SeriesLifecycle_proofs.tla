-------------------------- MODULE SeriesLifecycle_proofs --------------------------
(****************************************************************************)
(* Theorems about SeriesLifecycle, for any callers, caps and number of        *)
(* crashes: what is sent to a paused series is for the pause it waits at. The *)
(* invariant follows what people have seen: a pause that someone could still  *)
(* continue is the one the record shows, before any message of it was sent.   *)
(****************************************************************************)
EXTENDS SeriesLifecycle, SequenceTheorems, TLAPS

USE CapsAssumption, CrashAssumption

-----------------------------------------------------------------------------

\* The key of the pause that the record shows.
Key == <<record.reason, record.cap>>

\* Where the workflow may have a pause before it that nobody has continued yet.
Waiting == {"prepare", "gate", "recv", "finish"}

RecordInv ==
    /\ record.status = "absent" =>
         record = NoRecord /\ wf.status = "none" /\ topic = <<>> /\ sentKeys = {}
    /\ record.status # "absent" => record.cap # 0
    /\ record.status = "awaiting" => record.reason # "none"
    /\ wf.status = "none" => wf.at = "prepare"

\* What the workflow goes by: its cap, the pause it is at, and the message of that pause.
FlowInv ==
    /\ wf.at \in {"prepare", "gate"} =>
         /\ record.reason \in {"none", "cap_above_project"}
         /\ record.reason = "none" => record.status # "awaiting"
         /\ record.reason # "none" => record.status # "running"
    /\ wf.at \in {"gate", "pause_write"} => wf.cap = record.cap
    /\ wf.at \in {"drive", "pause"} /\ record.status = "running" => wf.cap = record.cap
    /\ wf.at \in {"recv", "drive", "pause"} /\ wf.cap # record.cap =>
         Key \in sentKeys /\ topic = <<>>
    /\ wf.at \in {"recv", "mark", "mark_write"} => record.status # "running"
    /\ wf.at \in {"mark", "mark_write"} => Key \in sentKeys /\ wf.cap # 0
    /\ wf.at \in {"finalize", "publish", "final_write"} => wf.end # "none"
    /\ wf.at \notin Waiting \cup {"mark", "mark_write"} => record.status # "awaiting"

TopicInv ==
    /\ Len(topic) <= 1
    /\ topic # <<>> => /\ Head(topic).key = Key /\ Key \in sentKeys
                       /\ wf.at \in Waiting
    /\ \A key \in sentKeys : key[1] # "none"

\* Who has seen a pause can only continue it, and only if nobody has.
Sees(s) ==
    /\ s.seen.status = "awaiting" =>
         /\ s.seen.reason # "none" /\ s.seen.cap # 0
         /\ \/ ApprovalKey(s.seen) \in sentKeys
            \/ ApprovalKey(s.seen) = Key /\ wf.at \in Waiting
    /\ s.at = "settling" => s.change # "none"
    /\ s.at \notin {"idle", "creating"} => record.status # "absent"
SeenInv == \A c \in Callers : Sees(callers[c])

PauseInv == TypeOK /\ RecordInv /\ FlowInv /\ TopicInv /\ SeenInv

-----------------------------------------------------------------------------
(* How the parts of the state may change *)

LEMMA Idles == Idle \in CallerStates /\ Idle.at = "idle" /\ Sees(Idle)
BY DEF Idle, CallerStates, Positions, NoRecord, Records, Active, Terminal, Reasons, Sees

LEMMA PauseInit == Init => PauseInv
<1> SUFFICES ASSUME Init PROVE PauseInv
  OBVIOUS
<1>1. TypeOK
  <2>1. record \in Records
    BY DEF Init, NoRecord, Records, Active, Terminal, Reasons
  <2>2. wf \in Workflows
    BY DEF Init, Workflows, WorkflowStatuses, WorkflowSteps
  <2>3. topic \in Seq(Approvals) /\ crashes \in 0 .. MaxCrashes
    BY DEF Init
  <2>4. callers \in [Callers -> CallerStates]
    BY Idles DEF Init
  <2> QED
    BY <2>1, <2>2, <2>3, <2>4 DEF Init, TypeOK
<1>2. RecordInv /\ FlowInv /\ TopicInv
  BY DEF Init, NoRecord, RecordInv, FlowInv, TopicInv, Waiting
<1>3. SeenInv
  BY Idles DEF Init, SeenInv
<1> QED
  BY <1>1, <1>2, <1>3 DEF PauseInv

(* The workflow moves on, the record and the messages as they are. *)
LEMMA WorkflowMoves ==
    ASSUME PauseInv, wf' \in Workflows, finding' \in BOOLEAN,
           UNCHANGED <<record, topic, sentKeys, graceOver, callers, crashes>>,
           FlowInv', wf.status = "none" => wf' = wf, wf.status # "none" => wf'.status # "none",
           wf.at \in Waiting => wf'.at \in Waiting \/ record.reason = "none"
    PROVE  PauseInv'
<1>1. TypeOK'
  BY DEF PauseInv, TypeOK
<1>2. RecordInv'
  BY DEF PauseInv, RecordInv, Key
<1>3. TopicInv'
  BY DEF PauseInv, TopicInv, Key
<1>4. SeenInv'
  <2> SUFFICES ASSUME NEW c \in Callers PROVE Sees(callers[c])'
    BY DEF SeenInv
  <2>1. Sees(callers[c]) /\ (\A key \in sentKeys : key[1] # "none")
    BY DEF PauseInv, SeenInv, TopicInv
  <2>2. ApprovalKey(callers[c].seen) = Key /\ record.reason = "none"
            => callers[c].seen.reason = "none" \/ callers[c].seen.status # "awaiting"
    BY <2>1 DEF ApprovalKey, PauseReason, Key, Sees
  <2> QED
    BY <2>1, <2>2 DEF Sees, Key, ApprovalKey, PauseReason
<1> QED
  BY <1>1, <1>2, <1>3, <1>4 DEF PauseInv

-----------------------------------------------------------------------------
(* The steps of the workflow *)

LEMMA PrepareSeriesKeeps == PauseInv /\ PrepareSeries => PauseInv'
<1> SUFFICES ASSUME PauseInv, PrepareSeries PROVE PauseInv'
  OBVIOUS
<1>1. /\ wf' \in Workflows /\ finding' \in BOOLEAN /\ wf.status # "none" /\ wf'.status # "none"
      /\ wf'.at = "gate" /\ wf'.cap = record.cap
  BY DEF PrepareSeries, Begins, PauseInv, RecordInv, TypeOK, Records, Workflows,
      WorkflowStatuses, WorkflowSteps
<1>2. UNCHANGED <<record, topic, sentKeys, graceOver, callers, crashes>>
  BY DEF PrepareSeries, external
<1>3. FlowInv'
  BY <1>1, <1>2 DEF PrepareSeries, Begins, Continues, PauseInv, FlowInv, TopicInv,
      RecordInv, Key, Waiting
<1>4. wf.at \in Waiting => wf'.at \in Waiting \/ record.reason = "none"
  BY <1>1 DEF PrepareSeries, Begins, Continues, PauseInv, FlowInv, Waiting
<1> QED
  BY <1>1, <1>2, <1>3, <1>4, WorkflowMoves

LEMMA ApprovalGateKeeps == PauseInv /\ ApprovalGate => PauseInv'
<1> SUFFICES ASSUME PauseInv, ApprovalGate PROVE PauseInv'
  OBVIOUS
<1>1. /\ wf' \in Workflows /\ finding' \in BOOLEAN /\ wf.status # "none" /\ wf'.status # "none"
      /\ wf'.cap = wf.cap
      /\ wf'.at = IF record.reason = "cap_above_project" THEN "recv" ELSE "drive"
  BY DEF ApprovalGate, Begins, Continues, PauseInv, RecordInv, TypeOK, Workflows,
      WorkflowStatuses, WorkflowSteps
<1>2. UNCHANGED <<record, topic, sentKeys, graceOver, callers, crashes>>
  BY DEF ApprovalGate, external
<1>3. FlowInv'
  BY <1>1, <1>2 DEF ApprovalGate, Begins, Continues, PauseInv, FlowInv, TopicInv,
      RecordInv, Key, Waiting
<1>4. wf.at \in Waiting => wf'.at \in Waiting \/ record.reason = "none"
  BY <1>1 DEF ApprovalGate, Begins, Continues, PauseInv, FlowInv, Waiting
<1> QED
  BY <1>1, <1>2, <1>3, <1>4, WorkflowMoves

LEMMA MarkApprovedReadsKeeps == PauseInv /\ MarkApprovedReads => PauseInv'
<1> SUFFICES ASSUME PauseInv, MarkApprovedReads PROVE PauseInv'
  OBVIOUS
<1>1. /\ wf' \in Workflows /\ finding' \in BOOLEAN /\ wf.status # "none" /\ wf'.status # "none"
      /\ wf'.cap = wf.cap
      /\ wf'.at = IF record.status = "awaiting" THEN "mark_write" ELSE "drive"
  BY DEF MarkApprovedReads, Begins, Continues, PauseInv, RecordInv, TypeOK, Workflows,
      WorkflowStatuses, WorkflowSteps
<1>2. UNCHANGED <<record, topic, sentKeys, graceOver, callers, crashes>>
  BY DEF MarkApprovedReads, external
<1>3. FlowInv'
  BY <1>1, <1>2 DEF MarkApprovedReads, Begins, Continues, PauseInv, FlowInv, TopicInv,
      RecordInv, Key, Waiting
<1>4. wf.at \in Waiting => wf'.at \in Waiting \/ record.reason = "none"
  BY <1>1 DEF MarkApprovedReads, Begins, Continues, PauseInv, FlowInv, Waiting
<1> QED
  BY <1>1, <1>2, <1>3, <1>4, WorkflowMoves

LEMMA DrivePausesKeeps == PauseInv /\ DrivePauses => PauseInv'
<1> SUFFICES ASSUME PauseInv, DrivePauses PROVE PauseInv'
  OBVIOUS
<1>1. /\ wf' \in Workflows /\ finding' \in BOOLEAN /\ wf.status # "none" /\ wf'.status # "none"
      /\ wf'.at = "pause" /\ wf'.cap = wf.cap
  BY DEF DrivePauses, Begins, Continues, PauseInv, RecordInv, TypeOK, Workflows,
      WorkflowStatuses, WorkflowSteps
<1>2. UNCHANGED <<record, topic, sentKeys, graceOver, callers, crashes>>
  BY DEF DrivePauses, external
<1>3. FlowInv'
  BY <1>1, <1>2 DEF DrivePauses, Begins, Continues, PauseInv, FlowInv, TopicInv,
      RecordInv, Key, Waiting
<1>4. wf.at \in Waiting => wf'.at \in Waiting \/ record.reason = "none"
  BY <1>1 DEF DrivePauses, Begins, Continues, PauseInv, FlowInv, Waiting
<1> QED
  BY <1>1, <1>2, <1>3, <1>4, WorkflowMoves

LEMMA DriveEndsKeeps == PauseInv /\ DriveEnds => PauseInv'
<1> SUFFICES ASSUME PauseInv, DriveEnds PROVE PauseInv'
  OBVIOUS
<1>1. /\ wf' \in Workflows /\ finding' \in BOOLEAN /\ wf.status # "none" /\ wf'.status # "none"
      /\ wf'.at = "finalize" /\ wf'.cap = wf.cap
  BY DEF DriveEnds, Begins, Continues, PauseInv, RecordInv, TypeOK, Workflows,
      WorkflowStatuses, WorkflowSteps
<1>2. UNCHANGED <<record, topic, sentKeys, graceOver, callers, crashes>>
  BY DEF DriveEnds, external
<1>3. FlowInv'
  BY <1>1, <1>2 DEF DriveEnds, Begins, Continues, PauseInv, FlowInv, TopicInv,
      RecordInv, Key, Waiting
<1>4. wf.at \in Waiting => wf'.at \in Waiting \/ record.reason = "none"
  BY <1>1 DEF DriveEnds, Begins, Continues, PauseInv, FlowInv, Waiting
<1> QED
  BY <1>1, <1>2, <1>3, <1>4, WorkflowMoves

LEMMA PauseSeriesReadsKeeps == PauseInv /\ PauseSeriesReads => PauseInv'
<1> SUFFICES ASSUME PauseInv, PauseSeriesReads PROVE PauseInv'
  OBVIOUS
<1>1. /\ wf' \in Workflows /\ finding' \in BOOLEAN /\ wf.status # "none" /\ wf'.status # "none"
      /\ wf'.cap = wf.cap
      /\ wf'.at = IF record.status = "running" THEN "pause_write" ELSE "recv"
  BY DEF PauseSeriesReads, Begins, Continues, PauseInv, RecordInv, TypeOK, Workflows,
      WorkflowStatuses, WorkflowSteps
<1>2. UNCHANGED <<record, topic, sentKeys, graceOver, callers, crashes>>
  BY DEF PauseSeriesReads, external
<1>3. FlowInv'
  BY <1>1, <1>2 DEF PauseSeriesReads, Begins, Continues, PauseInv, FlowInv, TopicInv,
      RecordInv, Key, Waiting
<1>4. wf.at \in Waiting => wf'.at \in Waiting \/ record.reason = "none"
  BY <1>1 DEF PauseSeriesReads, Begins, Continues, PauseInv, FlowInv, Waiting
<1> QED
  BY <1>1, <1>2, <1>3, <1>4, WorkflowMoves

LEMMA FinalizeReadsKeeps == PauseInv /\ FinalizeReads => PauseInv'
<1> SUFFICES ASSUME PauseInv, FinalizeReads PROVE PauseInv'
  OBVIOUS
<1>1. /\ wf' \in Workflows /\ finding' \in BOOLEAN /\ wf.status # "none" /\ wf'.status # "none"
      /\ wf'.at = "publish" /\ wf'.cap = wf.cap
  BY DEF FinalizeReads, Begins, Continues, PauseInv, RecordInv, TypeOK, Workflows,
      WorkflowStatuses, WorkflowSteps
<1>2. UNCHANGED <<record, topic, sentKeys, graceOver, callers, crashes>>
  BY DEF FinalizeReads, external
<1>3. FlowInv'
  BY <1>1, <1>2 DEF FinalizeReads, Begins, Continues, PauseInv, FlowInv, TopicInv,
      RecordInv, Key, Waiting
<1>4. wf.at \in Waiting => wf'.at \in Waiting \/ record.reason = "none"
  BY <1>1 DEF FinalizeReads, Begins, Continues, PauseInv, FlowInv, Waiting
<1> QED
  BY <1>1, <1>2, <1>3, <1>4, WorkflowMoves

LEMMA FinalizePublishesKeeps == PauseInv /\ FinalizePublishes => PauseInv'
<1> SUFFICES ASSUME PauseInv, FinalizePublishes PROVE PauseInv'
  OBVIOUS
<1>1. /\ wf' \in Workflows /\ finding' \in BOOLEAN /\ wf.status # "none" /\ wf'.status # "none"
      /\ wf'.at = "final_write" /\ wf'.cap = wf.cap
  BY DEF FinalizePublishes, Begins, Continues, PauseInv, RecordInv, TypeOK, Workflows,
      WorkflowStatuses, WorkflowSteps
<1>2. UNCHANGED <<record, topic, sentKeys, graceOver, callers, crashes>>
  BY DEF FinalizePublishes, external
<1>3. FlowInv'
  BY <1>1, <1>2 DEF FinalizePublishes, Begins, Continues, PauseInv, FlowInv, TopicInv,
      RecordInv, Key, Waiting
<1>4. wf.at \in Waiting => wf'.at \in Waiting \/ record.reason = "none"
  BY <1>1 DEF FinalizePublishes, Begins, Continues, PauseInv, FlowInv, Waiting
<1> QED
  BY <1>1, <1>2, <1>3, <1>4, WorkflowMoves

LEMMA WorkflowReturnsKeeps == PauseInv /\ WorkflowReturns => PauseInv'
<1> SUFFICES ASSUME PauseInv, WorkflowReturns PROVE PauseInv'
  OBVIOUS
<1>1. /\ wf' \in Workflows /\ finding' \in BOOLEAN /\ wf.status # "none" /\ wf'.status # "none"
      /\ wf'.at = "finish" /\ wf'.cap = wf.cap
  BY DEF WorkflowReturns, Begins, Continues, PauseInv, RecordInv, TypeOK, Workflows,
      WorkflowStatuses, WorkflowSteps
<1>2. UNCHANGED <<record, topic, sentKeys, graceOver, callers, crashes>>
  BY DEF WorkflowReturns, external
<1>3. FlowInv'
  BY <1>1, <1>2 DEF WorkflowReturns, Begins, Continues, PauseInv, FlowInv, TopicInv,
      RecordInv, Key, Waiting
<1>4. wf.at \in Waiting => wf'.at \in Waiting \/ record.reason = "none"
  BY <1>1 DEF WorkflowReturns, Begins, Continues, PauseInv, FlowInv, Waiting
<1> QED
  BY <1>1, <1>2, <1>3, <1>4, WorkflowMoves

LEMMA WorkflowRaisesKeeps == PauseInv /\ WorkflowRaises => PauseInv'
<1> SUFFICES ASSUME PauseInv, WorkflowRaises PROVE PauseInv'
  OBVIOUS
<1>1. /\ wf' \in Workflows /\ finding' \in BOOLEAN /\ wf.status # "none" /\ wf'.status # "none"
      /\ wf'.at = "finish" /\ wf'.cap = wf.cap
  BY DEF WorkflowRaises, Begins, Continues, PauseInv, RecordInv, TypeOK, Workflows,
      WorkflowStatuses, WorkflowSteps
<1>2. UNCHANGED <<record, topic, sentKeys, graceOver, callers, crashes>>
  BY DEF WorkflowRaises, external
<1>3. FlowInv'
  BY <1>1, <1>2 DEF WorkflowRaises, Begins, Continues, PauseInv, FlowInv, TopicInv,
      RecordInv, Key, Waiting
<1>4. wf.at \in Waiting => wf'.at \in Waiting \/ record.reason = "none"
  BY <1>1 DEF WorkflowRaises, Begins, Continues, PauseInv, FlowInv, Waiting
<1> QED
  BY <1>1, <1>2, <1>3, <1>4, WorkflowMoves

(* The record keeps the fields that a change does not name. *)
LEMMA UpdatedFields ==
    ASSUME TypeOK
    PROVE  /\ record = [status |-> record.status, cap |-> record.cap, reason |-> record.reason]
           /\ \A status : Updated([status |-> status]) =
                 [status |-> status, cap |-> record.cap, reason |-> record.reason]
           /\ \A status, cap : Updated([status |-> status, cap |-> cap]) =
                 [status |-> status, cap |-> cap, reason |-> record.reason]
           /\ \A status, reason : Updated([status |-> status, reason |-> reason]) =
                 [status |-> status, cap |-> record.cap, reason |-> reason]
  BY DEF Updated, TypeOK, Records

(* The pause is over: its message has been received. *)
LEMMA ReceiveApprovalKeeps == PauseInv /\ ReceiveApproval => PauseInv'
<1> SUFFICES ASSUME PauseInv, ReceiveApproval PROVE PauseInv'
  OBVIOUS
<1>1. /\ topic \in Seq(Approvals) /\ topic # <<>> /\ Len(topic) <= 1
      /\ Head(topic).key = Key /\ Key \in sentKeys
  BY DEF PauseInv, TypeOK, TopicInv, ReceiveApproval
<1>2. Head(topic) \in Approvals /\ topic' = <<>>
  <2>1. Len(topic) = 1
    <3>1. Len(topic) # 0 /\ Len(topic) \in Nat
      BY <1>1, EmptySeq
    <3>2. Len(topic) <= 1
      BY <1>1
    <3>3. \A n \in Nat : n # 0 /\ n <= 1 => n = 1
      OBVIOUS
    <3> QED
      BY <3>1, <3>2, <3>3
  <2> QED
    BY <1>1, <2>1 DEF ReceiveApproval
<1>3. /\ wf' \in Workflows /\ wf.status # "none" /\ wf'.status # "none"
      /\ wf.at = "recv" /\ wf'.at = "mark" /\ wf'.cap # 0
  BY <1>2 DEF ReceiveApproval, Begins, PauseInv, TypeOK, Workflows, WorkflowSteps, Approvals,
      Caps
<1>4. UNCHANGED <<record, finding, sentKeys, graceOver, callers, crashes>>
  BY DEF ReceiveApproval
<1>5. TypeOK'
  BY <1>2, <1>3, <1>4 DEF PauseInv, TypeOK
<1>6. RecordInv' /\ FlowInv' /\ TopicInv'
  BY <1>1, <1>2, <1>3, <1>4 DEF PauseInv, RecordInv, FlowInv, TopicInv, Key, Waiting
<1>7. SeenInv'
  BY <1>1, <1>4 DEF PauseInv, SeenInv, Sees, Key, ApprovalKey, PauseReason
<1> QED
  BY <1>5, <1>6, <1>7 DEF PauseInv

(* A step of the workflow writes the record, when every pause there was is over. *)
LEMMA WorkflowWrites ==
    ASSUME PauseInv, wf.at \notin Waiting,
           record' \in Records, wf' \in Workflows, wf'.status = wf.status,
           record'.status # "absent", record'.cap # 0,
           record'.status = "awaiting" => record'.reason # "none",
           UNCHANGED <<finding, topic, sentKeys, graceOver, callers, crashes>>, FlowInv'
    PROVE  PauseInv'
<1>1. wf.status # "none" /\ topic = <<>>
  BY DEF PauseInv, RecordInv, TopicInv, Waiting
<1>2. TypeOK'
  BY DEF PauseInv, TypeOK
<1>3. RecordInv' /\ TopicInv'
  BY <1>1 DEF PauseInv, RecordInv, TopicInv
<1>4. SeenInv'
  <2> SUFFICES ASSUME NEW c \in Callers PROVE Sees(callers[c])'
    BY DEF SeenInv
  <2>1. Sees(callers[c]) /\ callers'[c] = callers[c] /\ sentKeys' = sentKeys
    BY DEF PauseInv, SeenInv
  <2>2. callers[c].seen.status = "awaiting" =>
            /\ callers[c].seen.reason # "none" /\ callers[c].seen.cap # 0
            /\ ApprovalKey(callers[c].seen) \in sentKeys
    BY <2>1 DEF Sees
  <2> QED
    BY <2>1, <2>2 DEF Sees, ApprovalKey, PauseReason
<1> QED
  BY <1>2, <1>3, <1>4 DEF PauseInv

LEMMA MarkApprovedWritesKeeps == PauseInv /\ MarkApprovedWrites => PauseInv'
<1> SUFFICES ASSUME PauseInv, MarkApprovedWrites PROVE PauseInv'
  OBVIOUS
<1>1. TypeOK /\ record' = [status |-> "running", cap |-> wf.cap, reason |-> record.reason]
  BY UpdatedFields DEF PauseInv, MarkApprovedWrites
<1>2. wf.at = "mark_write" /\ wf'.at = "drive" /\ wf'.cap = wf.cap /\ wf'.status = wf.status
      /\ wf' \in Workflows
  BY <1>1 DEF TypeOK, MarkApprovedWrites, Continues, Workflows, WorkflowSteps
<1>3. wf.cap # 0
  BY <1>2 DEF PauseInv, FlowInv
<1>4. record' \in Records
  BY <1>1 DEF TypeOK, Records, Active, Workflows
<1>5. UNCHANGED <<finding, topic, sentKeys, graceOver, callers, crashes>>
  BY DEF MarkApprovedWrites, external
<1>6. FlowInv'
  BY <1>1, <1>2 DEF FlowInv, Waiting
<1> QED
  BY <1>1, <1>2, <1>3, <1>4, <1>5, <1>6, WorkflowWrites DEF Waiting

LEMMA PauseSeriesWritesKeeps == PauseInv /\ PauseSeriesWrites => PauseInv'
<1> SUFFICES ASSUME PauseInv, PauseSeriesWrites PROVE PauseInv'
  OBVIOUS
<1>1. TypeOK /\ record' = [status |-> "awaiting", cap |-> record.cap, reason |-> "spend_near_cap"]
  BY UpdatedFields DEF PauseInv, PauseSeriesWrites
<1>2. wf.at = "pause_write" /\ wf'.at = "recv" /\ wf'.cap = wf.cap /\ wf'.status = wf.status
      /\ wf' \in Workflows
  BY <1>1 DEF TypeOK, PauseSeriesWrites, Continues, Workflows, WorkflowSteps
<1>3. record.cap # 0 /\ wf.cap = record.cap
  BY <1>2 DEF PauseInv, FlowInv, RecordInv
<1>4. record' \in Records
  BY <1>1 DEF TypeOK, Records, Active, Reasons
<1>5. UNCHANGED <<finding, topic, sentKeys, graceOver, callers, crashes>>
  BY DEF PauseSeriesWrites, external
<1>6. FlowInv'
  BY <1>1, <1>2, <1>3 DEF FlowInv, Waiting
<1> QED
  BY <1>1, <1>2, <1>3, <1>4, <1>5, <1>6, WorkflowWrites DEF Waiting

LEMMA FinalizeWritesKeeps == PauseInv /\ FinalizeWrites => PauseInv'
<1> SUFFICES ASSUME PauseInv, FinalizeWrites PROVE PauseInv'
  OBVIOUS
<1>1. TypeOK /\ record' = [status |-> wf.end, cap |-> record.cap, reason |-> record.reason]
  BY UpdatedFields DEF PauseInv, FinalizeWrites
<1>2. wf.at = "final_write" /\ wf'.at = "finish" /\ wf'.cap = wf.cap /\ wf'.status = wf.status
      /\ wf' \in Workflows
  BY <1>1 DEF TypeOK, FinalizeWrites, Continues, Workflows, WorkflowSteps
<1>3. wf.end \in {"done", "failed"} /\ record.cap # 0
  BY <1>1, <1>2 DEF PauseInv, FlowInv, RecordInv, TypeOK, Workflows
<1>4. record' \in Records
  BY <1>1, <1>3 DEF TypeOK, Records, Terminal
<1>5. UNCHANGED <<finding, topic, sentKeys, graceOver, callers, crashes>>
  BY DEF FinalizeWrites, external
<1>6. FlowInv'
  BY <1>1, <1>2 DEF FlowInv, Waiting
<1> QED
  BY <1>1, <1>2, <1>3, <1>4, <1>5, <1>6, WorkflowWrites DEF Waiting

-----------------------------------------------------------------------------
(* The calls of the service *)

(* A call goes on. It may end the record, and cancel or launch the workflow. *)
LEMMA CallMoves ==
    ASSUME PauseInv, NEW c \in Callers, NEW s \in CallerStates, Move(c, s), Sees(s),
           record' \in Records, record'.cap = record.cap, record'.reason = record.reason,
           record' = record \/ (record.status # "absent" /\ record'.status \in Terminal),
           wf' \in Workflows, wf'.at = wf.at, wf'.cap = wf.cap, wf'.end = wf.end,
           wf' = wf \/ (record.status # "absent" /\ wf'.status # "none"),
           UNCHANGED engineOnly
    PROVE  PauseInv'
<1>1. UNCHANGED <<finding, topic, sentKeys, graceOver, crashes>> /\ Key' = Key
  BY DEF engineOnly, Key
<1>2. TypeOK'
  BY <1>1 DEF PauseInv, TypeOK, Move
<1>3. record'.status = record.status \/ record'.status \in Terminal
  OBVIOUS
<1>4. RecordInv'
  BY <1>1 DEF PauseInv, RecordInv, Terminal
<1>5. FlowInv'
  BY <1>1, <1>3 DEF PauseInv, FlowInv, Terminal
<1>6. TopicInv'
  BY <1>1 DEF PauseInv, TopicInv
<1>7. SeenInv'
  <2> SUFFICES ASSUME NEW d \in Callers PROVE Sees(callers[d])'
    BY DEF SeenInv
  <2>1. Sees(callers[d]) /\ callers \in [Callers -> CallerStates]
    BY DEF PauseInv, SeenInv, TypeOK
  <2>2. callers'[d] = IF d = c THEN s ELSE callers[d]
    BY <2>1 DEF Move
  <2>3. PICK t : t = callers'[d] /\ Sees(t)
    BY <2>1, <2>2
  <2>4. record.status # "absent" => record'.status # "absent"
    BY DEF Terminal
  <2> QED
    BY <1>1, <2>3, <2>4 DEF Sees
<1> QED
  BY <1>2, <1>4, <1>5, <1>6, <1>7 DEF PauseInv

\* A call as it is.
LEMMA CallTypes ==
    ASSUME PauseInv, NEW c \in Callers
    PROVE  /\ callers[c] \in CallerStates /\ callers[c].seen \in Records /\ Sees(callers[c])
           /\ record \in Records /\ wf \in Workflows
  BY DEF PauseInv, TypeOK, SeenInv, CallerStates

(* A call goes on and changes nothing else. *)
LEMMA CallGoesOn ==
    ASSUME PauseInv, NEW c \in Callers, NEW s \in CallerStates, Move(c, s), Sees(s),
           UNCHANGED <<record, wf, engineOnly>>
    PROVE  PauseInv'
<1>1. record' = record /\ wf' = wf /\ UNCHANGED engineOnly
  OBVIOUS
<1>2. /\ record' \in Records /\ record'.cap = record.cap /\ record'.reason = record.reason
      /\ wf' \in Workflows /\ wf'.at = wf.at /\ wf'.cap = wf.cap /\ wf'.end = wf.end
  BY <1>1, CallTypes
<1> QED
  BY <1>1, <1>2, CallMoves

(* What a call holds of a record it has read. *)
LEMMA Holds ==
    ASSUME PauseInv, NEW c \in Callers, NEW r \in Records, record.status # "absent",
           Sees([callers[c] EXCEPT !.at = "read", !.seen = r])
    PROVE  Holding(c, r) \in CallerStates /\ Sees(Holding(c, r))
<1>1. callers[c] \in CallerStates
  BY CallTypes
<1>2. CASE r.status \in Active \/ callers[c].round = 2
  <2>1. Holding(c, r) = [callers[c] EXCEPT !.at = "holding", !.seen = r, !.change = "none"]
    BY <1>2 DEF Holding
  <2>2. /\ Holding(c, r) \in CallerStates /\ Holding(c, r).at = "holding"
        /\ Holding(c, r).seen = r
    BY <1>1, <2>1 DEF CallerStates, Positions
  <2>3. [callers[c] EXCEPT !.at = "read", !.seen = r].seen = r
    BY <1>1 DEF CallerStates
  <2> QED
    BY <2>2, <2>3 DEF Sees
<1>3. CASE ~(r.status \in Active \/ callers[c].round = 2)
  BY <1>3, Idles DEF Holding
<1> QED
  BY <1>2, <1>3

(* Whoever reads the record now sees a pause that is there. *)
LEMMA ReadingSees ==
    ASSUME PauseInv, NEW c \in Callers, record.status # "absent"
    PROVE  /\ [callers[c] EXCEPT !.at = "read", !.seen = record] \in CallerStates
           /\ Sees([callers[c] EXCEPT !.at = "read", !.seen = record])
<1> DEFINE s == [callers[c] EXCEPT !.at = "read", !.seen = record]
<1>1. callers[c] \in CallerStates /\ record \in Records
  BY CallTypes
<1>2. s \in CallerStates /\ s.at = "read" /\ s.seen = record
  BY <1>1 DEF CallerStates, Positions
<1> HIDE DEF s
<1>3. record.status = "awaiting" =>
          /\ record.reason # "none" /\ record.cap # 0 /\ ApprovalKey(record) = Key
          /\ Key \in sentKeys \/ wf.at \in Waiting
  BY DEF PauseInv, RecordInv, FlowInv, Waiting, ApprovalKey, PauseReason, Key
<1>4. Sees(s)
  BY <1>2, <1>3 DEF Sees
<1> QED
  BY <1>2, <1>4 DEF s

LEMMA ReadRecordKeeps == ASSUME NEW c \in Callers PROVE PauseInv /\ ReadRecord(c) => PauseInv'
<1> SUFFICES ASSUME PauseInv, ReadRecord(c) PROVE PauseInv'
  OBVIOUS
<1> DEFINE s == IF record.status \in Active
                THEN [callers[c] EXCEPT !.at = "read", !.seen = record]
                ELSE Holding(c, record)
<1>1. record.status # "absent" /\ Move(c, s) /\ UNCHANGED <<record, wf, engineOnly>>
  BY DEF ReadRecord
<1>2. s \in CallerStates /\ Sees(s)
  BY <1>1, CallTypes, ReadingSees, Holds
<1> HIDE DEF s
<1> QED
  BY <1>1, <1>2, CallGoesOn

LEMMA LookAtWorkflowKeeps ==
    ASSUME NEW c \in Callers PROVE PauseInv /\ LookAtWorkflow(c) => PauseInv'
<1> SUFFICES ASSUME PauseInv, LookAtWorkflow(c) PROVE PauseInv'
  OBVIOUS
<1>1. callers[c].at = "read" /\ record.status # "absent" /\ UNCHANGED <<record, wf, engineOnly>>
  BY CallTypes DEF LookAtWorkflow, Sees
<1>2. CASE Reconciliation = "none"
  <2> DEFINE s == [callers[c] EXCEPT !.at = "read", !.seen = callers[c].seen]
             t == Holding(c, callers[c].seen)
  <2>1. s = callers[c]
    BY <1>1, CallTypes DEF CallerStates
  <2>2. Move(c, t)
    BY <1>2 DEF LookAtWorkflow
  <2>3. t \in CallerStates /\ Sees(t)
    BY <1>1, <2>1, CallTypes, Holds
  <2> HIDE DEF t
  <2> QED
    BY <1>1, <2>2, <2>3, CallGoesOn
<1>3. CASE Reconciliation # "none"
  <2> DEFINE s == [callers[c] EXCEPT !.at = "settling", !.change = Reconciliation]
  <2>1. Move(c, s)
    BY <1>3 DEF LookAtWorkflow
  <2>2. /\ s \in CallerStates /\ s.at = "settling" /\ s.seen = callers[c].seen
        /\ s.change # "none"
    BY <1>3, CallTypes DEF CallerStates, Positions, Reconciliation
  <2> HIDE DEF s
  <2>3. Sees(s)
    BY <1>1, <2>2, CallTypes DEF Sees
  <2> QED
    BY <1>1, <2>1, <2>2, <2>3, CallGoesOn
<1> QED
  BY <1>2, <1>3

(* A record that is settled ends, unless it has. *)
LEMMA Settles ==
    ASSUME PauseInv, NEW status \in Terminal, record.status # "absent",
           record' = Settled([status |-> status])
    PROVE  /\ record' \in Records /\ record'.cap = record.cap /\ record'.reason = record.reason
           /\ record' = record \/ record'.status \in Terminal
           /\ record'.status \in Terminal
<1>1. record \in Records /\ Updated([status |-> status]) =
          [status |-> status, cap |-> record.cap, reason |-> record.reason]
  BY UpdatedFields DEF PauseInv, TypeOK
<1>2. CASE record.status \in Terminal
  BY <1>1, <1>2 DEF Settled
<1>3. CASE record.status \notin Terminal
  <2>1. record' = [status |-> status, cap |-> record.cap, reason |-> record.reason]
    BY <1>1, <1>3 DEF Settled
  <2> QED
    BY <1>1, <2>1 DEF Records
<1> QED
  BY <1>2, <1>3

(* A call that holds a record that has ended sees no pause. *)
LEMMA EndedSees ==
    ASSUME PauseInv, NEW c \in Callers, NEW r \in Records, r.status \in Terminal,
           record.status # "absent"
    PROVE  /\ [callers[c] EXCEPT !.at = "read", !.seen = r] \in CallerStates
           /\ Sees([callers[c] EXCEPT !.at = "read", !.seen = r])
           /\ [callers[c] EXCEPT !.seen = r] \in CallerStates
           /\ callers[c].at = "holding" => Sees([callers[c] EXCEPT !.seen = r])
<1> DEFINE s == [callers[c] EXCEPT !.at = "read", !.seen = r]
           t == [callers[c] EXCEPT !.seen = r]
<1>1. /\ s \in CallerStates /\ s.at = "read" /\ s.seen = r
      /\ t \in CallerStates /\ t.at = callers[c].at /\ t.seen = r
  BY CallTypes DEF CallerStates, Positions
<1> HIDE DEF s, t
<1>2. Sees(s) /\ (callers[c].at = "holding" => Sees(t))
  BY <1>1 DEF Sees, Terminal
<1> QED
  BY <1>1, <1>2 DEF s, t

LEMMA SettleReconciledKeeps ==
    ASSUME NEW c \in Callers PROVE PauseInv /\ SettleReconciled(c) => PauseInv'
<1> SUFFICES ASSUME PauseInv, SettleReconciled(c) PROVE PauseInv'
  OBVIOUS
<1>1. callers[c].change \in Terminal /\ record.status # "absent"
  BY CallTypes DEF SettleReconciled, Sees, CallerStates, Terminal
<1>2. /\ record' \in Records /\ record'.cap = record.cap /\ record'.reason = record.reason
      /\ record'.status \in Terminal
  BY <1>1, Settles DEF SettleReconciled
<1> DEFINE s == Holding(c, record')
<1>3. s \in CallerStates /\ Sees(s)
  BY <1>1, <1>2, EndedSees, Holds
<1>4. Move(c, s) /\ wf' = wf /\ UNCHANGED engineOnly
  BY DEF SettleReconciled
<1> HIDE DEF s
<1>5. wf' \in Workflows /\ wf'.at = wf.at /\ wf'.cap = wf.cap /\ wf'.end = wf.end
  BY <1>4, CallTypes
<1> QED
  BY <1>1, <1>2, <1>3, <1>4, <1>5, CallMoves

(* A call is over, and comes from nowhere. *)
LEMMA EndedCallKeeps ==
    ASSUME NEW c \in Callers,
           ReturnRead(c) \/ RefuseApproval(c) \/ RefuseCancel(c)
    PROVE  PauseInv => PauseInv'
<1> SUFFICES ASSUME PauseInv PROVE PauseInv'
  OBVIOUS
<1>1. Move(c, Idle) /\ UNCHANGED <<record, wf, engineOnly>>
  BY DEF ReturnRead, RefuseApproval, RefuseCancel
<1> QED
  BY <1>1, Idles, CallGoesOn

LEMMA CancelWorkflowKeeps ==
    ASSUME NEW c \in Callers PROVE PauseInv /\ CancelWorkflow(c) => PauseInv'
<1> SUFFICES ASSUME PauseInv, CancelWorkflow(c) PROVE PauseInv'
  OBVIOUS
<1> DEFINE s == [Idle EXCEPT !.round = 2]
<1>1. s \in CallerStates /\ s.at = "idle" /\ s.seen = NoRecord
  BY Idles DEF CallerStates, Idle
<1>2. Move(c, s) /\ UNCHANGED engineOnly /\ record' = record
  BY DEF CancelWorkflow
<1> HIDE DEF s
<1>3. Sees(s)
  BY <1>1 DEF Sees, NoRecord
<1>4. /\ wf' \in Workflows /\ wf'.at = wf.at /\ wf'.cap = wf.cap /\ wf'.end = wf.end
      /\ wf' = wf \/ (record.status # "absent" /\ wf'.status # "none")
  <2>1. record.status # "absent"
    BY CallTypes DEF CancelWorkflow, Sees
  <2> QED
    BY <2>1, CallTypes DEF CancelWorkflow, Workflows, WorkflowStatuses
<1>5. record' \in Records /\ record'.cap = record.cap /\ record'.reason = record.reason
  BY <1>2, CallTypes
<1> QED
  BY <1>1, <1>2, <1>3, <1>4, <1>5, CallMoves

LEMMA MarkCancelledKeeps ==
    ASSUME NEW c \in Callers PROVE PauseInv /\ MarkCancelled(c) => PauseInv'
<1> SUFFICES ASSUME PauseInv, MarkCancelled(c) PROVE PauseInv'
  OBVIOUS
<1>1. callers[c].at = "holding" /\ record.status # "absent"
  BY CallTypes DEF MarkCancelled, Sees
<1>2. /\ record' \in Records /\ record'.cap = record.cap /\ record'.reason = record.reason
      /\ record'.status \in Terminal
  BY <1>1, Settles DEF MarkCancelled, Terminal
<1> DEFINE s == [callers[c] EXCEPT !.seen = record']
<1>3. s \in CallerStates /\ Sees(s)
  BY <1>1, <1>2, EndedSees
<1>4. Move(c, s) /\ wf' = wf /\ UNCHANGED engineOnly
  BY DEF MarkCancelled
<1> HIDE DEF s
<1>5. wf' \in Workflows /\ wf'.at = wf.at /\ wf'.cap = wf.cap /\ wf'.end = wf.end
  BY <1>4, CallTypes
<1> QED
  BY <1>1, <1>2, <1>3, <1>4, <1>5, CallMoves

LEMMA AnswerCancelledKeeps ==
    ASSUME NEW c \in Callers PROVE PauseInv /\ AnswerCancelled(c) => PauseInv'
<1> SUFFICES ASSUME PauseInv, AnswerCancelled(c) PROVE PauseInv'
  OBVIOUS
<1> DEFINE s == [callers[c] EXCEPT !.at = "answered"]
<1>1. /\ s \in CallerStates /\ s.at = "answered" /\ s.seen = callers[c].seen
      /\ callers[c].at = "holding" /\ Sees(callers[c])
  BY CallTypes DEF AnswerCancelled, CallerStates, Positions
<1>2. Move(c, s) /\ UNCHANGED <<record, wf, engineOnly>>
  BY DEF AnswerCancelled
<1> HIDE DEF s
<1>3. Sees(s)
  BY <1>1 DEF Sees
<1> QED
  BY <1>1, <1>2, <1>3, CallGoesOn

LEMMA StartReadsKeeps ==
    ASSUME NEW c \in Callers PROVE PauseInv /\ StartReads(c) => PauseInv'
<1> SUFFICES ASSUME PauseInv, StartReads(c) PROVE PauseInv'
  OBVIOUS
<1> DEFINE s == [Idle EXCEPT !.at = IF record.status = "absent" THEN "creating" ELSE "launching"]
<1>1. /\ s \in CallerStates /\ s.seen = NoRecord
      /\ s.at = IF record.status = "absent" THEN "creating" ELSE "launching"
  BY Idles DEF CallerStates, Idle, Positions
<1>2. Move(c, s) /\ UNCHANGED <<record, wf, engineOnly>>
  BY DEF StartReads
<1> HIDE DEF s
<1>3. Sees(s)
  BY <1>1 DEF Sees, NoRecord
<1> QED
  BY <1>1, <1>2, <1>3, CallGoesOn

LEMMA LaunchSeriesKeeps ==
    ASSUME NEW c \in Callers PROVE PauseInv /\ LaunchSeries(c) => PauseInv'
<1> SUFFICES ASSUME PauseInv, LaunchSeries(c) PROVE PauseInv'
  OBVIOUS
<1>1. record.status # "absent"
  BY CallTypes DEF LaunchSeries, Sees
<1>2. Move(c, Idle) /\ UNCHANGED engineOnly /\ record' = record
  BY DEF LaunchSeries
<1>3. /\ wf' \in Workflows /\ wf'.at = wf.at /\ wf'.cap = wf.cap /\ wf'.end = wf.end
      /\ wf' = wf \/ (record.status # "absent" /\ wf'.status # "none")
  BY <1>1, CallTypes DEF LaunchSeries, Workflows, WorkflowStatuses
<1>4. record' \in Records /\ record'.cap = record.cap /\ record'.reason = record.reason
  BY <1>2, CallTypes
<1> QED
  BY <1>1, <1>2, <1>3, <1>4, Idles, CallMoves

(* Nobody has seen a pause of a series that was not created. *)
LEMMA CreateRecordKeeps ==
    ASSUME NEW c \in Callers PROVE PauseInv /\ CreateRecord(c) => PauseInv'
<1> SUFFICES ASSUME PauseInv, CreateRecord(c) PROVE PauseInv'
  OBVIOUS
<1> DEFINE s == [callers[c] EXCEPT !.at = "launching"]
<1>1. /\ s \in CallerStates /\ s.at = "launching" /\ s.seen = callers[c].seen
      /\ callers[c].at = "creating" /\ Sees(callers[c])
  BY CallTypes DEF CreateRecord, CallerStates, Positions
<1>2. Move(c, s) /\ UNCHANGED <<wf, engineOnly>>
  BY DEF CreateRecord
<1> HIDE DEF s
<1>3. CASE record.status # "absent"
  <2>1. record' = record
    BY <1>3 DEF CreateRecord
  <2>2. Sees(s)
    BY <1>1, <1>3 DEF Sees
  <2> QED
    BY <1>1, <1>2, <2>1, <2>2, CallGoesOn
<1>4. CASE record.status = "absent"
  <2>1. /\ record = NoRecord /\ wf.status = "none" /\ wf.at = "prepare"
        /\ topic = <<>> /\ sentKeys = {}
    BY <1>4 DEF PauseInv, RecordInv
  <2>2. PICK cap \in StartCaps, needsApproval \in BOOLEAN :
            record' = IF needsApproval
                      THEN [status |-> "awaiting", cap |-> cap, reason |-> "cap_above_project"]
                      ELSE [status |-> "running", cap |-> cap, reason |-> "none"]
    BY <1>4 DEF CreateRecord
  <2>3. /\ record' \in Records /\ record'.status # "absent" /\ record'.cap # 0
        /\ \/ record'.status = "awaiting" /\ record'.reason = "cap_above_project"
           \/ record'.status = "running" /\ record'.reason = "none"
    BY <2>2 DEF Records, Active, Reasons, Caps
  <2>4. UNCHANGED <<finding, topic, sentKeys, graceOver, crashes>>
    BY <1>2 DEF engineOnly
  <2>5. TypeOK'
    BY <1>1, <1>2, <2>3, <2>4 DEF PauseInv, TypeOK, Move
  <2>6. RecordInv' /\ FlowInv' /\ TopicInv'
    BY <1>2, <2>1, <2>3, <2>4 DEF RecordInv, FlowInv, TopicInv, Waiting
  <2>7. SeenInv'
    <3> SUFFICES ASSUME NEW d \in Callers PROVE Sees(callers[d])'
      BY DEF SeenInv
    <3>1. Sees(callers[d]) /\ callers \in [Callers -> CallerStates]
      BY DEF PauseInv, SeenInv, TypeOK
    <3>2. callers'[d].seen = callers[d].seen /\ callers'[d].at # "settling"
      BY <1>1, <1>2, <1>4, <3>1 DEF Move, Sees
    <3>3. callers[d].seen.status # "awaiting"
      BY <2>1, <3>1 DEF Sees, Key, NoRecord, ApprovalKey, PauseReason
    <3> QED
      BY <2>3, <3>2, <3>3 DEF Sees
  <2> QED
    BY <2>5, <2>6, <2>7 DEF PauseInv
<1> QED
  BY <1>3, <1>4

(* What a person names is a cap. *)
LEMMA ApprovedCapsAreCaps ==
    ASSUME NEW r \in Records, r.cap # 0, NEW cap \in ApprovedCaps(r)
    PROVE  cap \in Caps
  BY DEF ApprovedCaps, DefaultCap, Records, Caps

(* Only a pause that nobody has continued gets a message, and it is its first. *)
LEMMA SendApprovalKeeps ==
    ASSUME NEW c \in Callers PROVE PauseInv /\ SendApproval(c) => PauseInv'
<1> SUFFICES ASSUME PauseInv, SendApproval(c) PROVE PauseInv'
  OBVIOUS
<1> DEFINE r == callers[c].seen
           key == ApprovalKey(r)
<1>1. PICK cap \in ApprovedCaps(r) :
          /\ topic' = IF key \in sentKeys THEN topic ELSE Append(topic, [key |-> key, cap |-> cap])
          /\ sentKeys' = sentKeys \cup {key}
  BY DEF SendApproval
<1>2. /\ r \in Records /\ Sees(callers[c]) /\ r.status = "awaiting"
      /\ record.status # "absent"
      /\ Move(c, Idle) /\ UNCHANGED <<record, wf, finding, graceOver, crashes>>
  BY CallTypes DEF SendApproval, Sees
<1>3. /\ r.reason # "none" /\ r.cap # 0 /\ key = <<r.reason, r.cap>>
      /\ key \in sentKeys \/ (key = Key /\ wf.at \in Waiting)
  BY <1>2 DEF Sees, ApprovalKey, PauseReason
<1>4. cap \in Caps /\ key \in Reasons \X Caps /\ key[1] # "none"
  BY <1>2, <1>3, ApprovedCapsAreCaps DEF Records
<1> HIDE DEF key, r
<1>5. /\ topic \in Seq(Approvals) /\ sentKeys \in SUBSET (Reasons \X Caps)
      /\ callers \in [Callers -> CallerStates]
  BY DEF PauseInv, TypeOK
<1>6. key \notin sentKeys => topic = <<>>
  BY <1>3 DEF PauseInv, TopicInv
<1> DEFINE message == [key |-> key, cap |-> cap]
<1>7. message \in Approvals /\ message.key = key
  BY <1>4 DEF Approvals
<1> HIDE DEF message
<1>8. \/ key \in sentKeys /\ topic' = topic
      \/ key \notin sentKeys /\ topic' = <<message>> /\ key = Key /\ wf.at \in Waiting
  <2>1. CASE key \in sentKeys
    BY <1>1, <2>1
  <2>2. CASE key \notin sentKeys
    <3>1. topic' = Append(topic, message) /\ topic = <<>>
      BY <1>1, <1>6, <2>2 DEF message
    <3>2. Append(<<>>, message) = <<message>>
      OBVIOUS
    <3> QED
      BY <1>3, <2>2, <3>1, <3>2
  <2> QED
    BY <2>1, <2>2
<1>9. callers' \in [Callers -> CallerStates] /\ callers' = [callers EXCEPT ![c] = Idle]
  <2>1. callers' = [callers EXCEPT ![c] = Idle] /\ Idle \in CallerStates
    BY <1>2, Idles DEF Move
  <2>2. callers \in [Callers -> CallerStates]
    BY <1>5
  <2> QED
    BY <2>1, <2>2
<1>10. TypeOK'
  <2>1. topic' \in Seq(Approvals)
    <3>1. <<message>> \in Seq(Approvals)
      BY <1>7
    <3>2. topic \in Seq(Approvals)
      BY <1>5
    <3> QED
      BY <1>8, <3>1, <3>2
  <2>2. sentKeys' \in SUBSET (Reasons \X Caps)
    BY <1>1, <1>4, <1>5
  <2> QED
    BY <1>2, <1>9, <2>1, <2>2 DEF PauseInv, TypeOK
<1>11. Key' = Key /\ sentKeys \subseteq sentKeys'
  BY <1>1, <1>2 DEF Key
<1>12. RecordInv'
  BY <1>2 DEF PauseInv, RecordInv
<1>13. FlowInv'
  <2>1. wf.at \in {"recv", "drive", "pause"} /\ wf.cap # record.cap =>
            Key \in sentKeys' /\ topic' = <<>>
    BY <1>8, <1>11 DEF PauseInv, FlowInv
  <2> QED
    BY <1>2, <1>11, <2>1 DEF PauseInv, FlowInv
<1>14. TopicInv'
  <2>1. \A k \in sentKeys' : k[1] # "none"
    BY <1>1, <1>4 DEF PauseInv, TopicInv
  <2>2. CASE key \in sentKeys /\ topic' = topic
    BY <1>2, <1>11, <2>1, <2>2 DEF PauseInv, TopicInv
  <2>3. CASE topic' = <<message>> /\ key = Key /\ wf.at \in Waiting
    <3>1. Len(topic') = 1 /\ Head(topic') = message /\ key \in sentKeys'
      BY <1>1, <2>3
    <3> QED
      BY <1>2, <1>7, <1>11, <2>1, <2>3, <3>1 DEF TopicInv
  <2> QED
    BY <1>8, <2>2, <2>3
<1>15. SeenInv'
  <2> SUFFICES ASSUME NEW d \in Callers PROVE Sees(callers[d])'
    BY DEF SeenInv
  <2>1. PICK t : t = callers'[d] /\ Sees(t)
    BY <1>5, <1>9, Idles DEF PauseInv, SeenInv
  <2> QED
    BY <1>2, <1>11, <2>1 DEF Sees
<1> QED
  BY <1>10, <1>12, <1>13, <1>14, <1>15 DEF PauseInv

-----------------------------------------------------------------------------
(* The server dies, and time passes *)

LEMMA CrashKeeps == PauseInv /\ Crash => PauseInv'
<1> SUFFICES ASSUME PauseInv, Crash PROVE PauseInv'
  OBVIOUS
<1>1. /\ UNCHANGED <<record, finding, topic, sentKeys, graceOver>> /\ Key' = Key
      /\ crashes' \in 0 .. MaxCrashes
  BY DEF Crash, Key, PauseInv, TypeOK
<1>2. /\ wf' \in Workflows /\ wf'.at = StepStart /\ wf'.cap = wf.cap /\ wf'.status = wf.status
      /\ wf'.end = wf.end
  BY DEF Crash, PauseInv, TypeOK, Workflows, WorkflowSteps, StepStart
<1>3. \A d \in Callers : callers'[d] \in {Idle, callers[d]}
  BY DEF Crash
<1>4. callers' \in [Callers -> CallerStates]
  BY <1>3, Idles DEF Crash, PauseInv, TypeOK
<1>5. TypeOK'
  BY <1>1, <1>2, <1>4 DEF PauseInv, TypeOK
<1>6. RecordInv' /\ TopicInv'
  BY <1>1, <1>2 DEF PauseInv, RecordInv, TopicInv, Waiting, StepStart
<1>7. FlowInv'
  BY <1>1, <1>2 DEF PauseInv, FlowInv, TopicInv, Waiting, StepStart
<1>8. SeenInv'
  <2> SUFFICES ASSUME NEW d \in Callers PROVE Sees(callers[d])'
    BY DEF SeenInv
  <2>1. PICK t : t = callers'[d] /\ Sees(t)
    BY <1>3, Idles DEF PauseInv, SeenInv
  <2> QED
    BY <1>1, <1>2, <2>1 DEF Sees, Waiting, StepStart
<1> QED
  BY <1>5, <1>6, <1>7, <1>8 DEF PauseInv

LEMMA NothingMoves ==
    ASSUME PauseInv, UNCHANGED <<record, wf, finding, topic, sentKeys, callers, crashes>>,
           graceOver' \in BOOLEAN
    PROVE  PauseInv'
<1>1. TypeOK'
  BY DEF PauseInv, TypeOK
<1>2. RecordInv' /\ FlowInv' /\ TopicInv' /\ SeenInv'
  BY DEF PauseInv, RecordInv, FlowInv, TopicInv, SeenInv, Sees, Key
<1> QED
  BY <1>1, <1>2 DEF PauseInv

LEMMA PauseStep == PauseInv /\ [Next]_vars => PauseInv'
<1> SUFFICES ASSUME PauseInv, [Next]_vars PROVE PauseInv'
  OBVIOUS
<1>1. CASE UNCHANGED vars \/ GraceEnds
  BY <1>1, NothingMoves DEF vars, GraceEnds, PauseInv, TypeOK
<1>2. CASE WorkflowStep \/ DrivePauses \/ WorkflowRaises
  BY <1>2, PrepareSeriesKeeps, ApprovalGateKeeps, ReceiveApprovalKeeps, MarkApprovedReadsKeeps,
     MarkApprovedWritesKeeps, DrivePausesKeeps, DriveEndsKeeps, PauseSeriesReadsKeeps,
     PauseSeriesWritesKeeps, FinalizeReadsKeeps, FinalizePublishesKeeps, FinalizeWritesKeeps,
     WorkflowReturnsKeeps, WorkflowRaisesKeeps DEF WorkflowStep
<1>3. ASSUME NEW c \in Callers,
             ReaderStep(c) \/ ApproverStep(c) \/ CancellerStep(c) \/ StarterStep(c)
      PROVE  PauseInv'
  <2>1. CASE Reconcile(c)
    BY <2>1, ReadRecordKeeps, LookAtWorkflowKeeps, SettleReconciledKeeps DEF Reconcile
  <2>2. CASE ReturnRead(c) \/ RefuseApproval(c) \/ RefuseCancel(c)
    BY <2>2, EndedCallKeeps
  <2>3. CASE SendApproval(c) \/ CancelWorkflow(c) \/ MarkCancelled(c) \/ AnswerCancelled(c)
    BY <2>3, SendApprovalKeeps, CancelWorkflowKeeps, MarkCancelledKeeps, AnswerCancelledKeeps
  <2>4. CASE StarterStep(c)
    BY <2>4, StartReadsKeeps, CreateRecordKeeps, LaunchSeriesKeeps DEF StarterStep
  <2> QED
    BY <1>3, <2>1, <2>2, <2>3, <2>4 DEF ReaderStep, ApproverStep, CancellerStep
<1>4. CASE Crash
  BY <1>4, CrashKeeps
<1> QED
  BY <1>1, <1>2, <1>3, <1>4 DEF Next

-----------------------------------------------------------------------------

(* The record, the workflow and the calls keep their types (series/store.py). *)
THEOREM LifecycleTypes == Spec => []TypeOK
<1>1. PauseInv => TypeOK
  BY DEF PauseInv
<1> QED
  BY <1>1, PauseInit, PauseStep, PTL DEF Spec

(* An approval reaches the pause it was given at, whoever clicks how often and whatever
   pause he looked at (approval_key, send_async, wait_for_approval). *)
THEOREM ApprovalsReachTheirPause == Spec => []ApprovalsMeetTheirPause
<1>1. PauseInv => ApprovalsMeetTheirPause
  <2> SUFFICES ASSUME PauseInv PROVE ApprovalsMeetTheirPause
    OBVIOUS
  <2>1. wf.at = "recv" /\ topic # <<>> => wf.cap = record.cap
    BY DEF PauseInv, FlowInv
  <2> QED
    BY <2>1 DEF PauseInv, TopicInv, ApprovalsMeetTheirPause, Key
<1> QED
  BY <1>1, PauseInit, PauseStep, PTL DEF Spec
=============================================================================
