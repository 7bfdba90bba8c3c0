--------------------------- MODULE LlmNode_proofs ---------------------------
(****************************************************************************)
(* Proofs about LlmNode for any chain of models, number of retries, set of    *)
(* tools and policy, through deferrals and crashes. Four of them:             *)
(*  - the budget of answers: what an output was asked for is paid for by the   *)
(*    models the slot has passed, by what the slot has spent, and by what the  *)
(*    segment has had rejected;                                               *)
(*  - the calls: each stands where its verdict, its result or its turn put it; *)
(*  - the history: the answers of the node are those before the segment and    *)
(*    those of it, and the failures are of the answers it numbers;             *)
(*  - the announced actions: the slot keeps what the failures promised.        *)
(****************************************************************************)
EXTENDS LlmNode, ApprovalRounds, FiniteSetTheorems, SequenceTheorems, TLAPS

Slots == [index : Models, spent : 0 .. Retries]

\* What the records hold; what they hold otherwise does not matter here.
Types ==
    /\ DOMAIN node = {"at", "result"}
    /\ DOMAIN state = {"offset", "round", "slot", "results"} /\ state.slot \in Slots
    /\ DOMAIN segment = {"answered", "rejected", "called", "granted"}
    /\ segment.answered \in Nat /\ segment.rejected \in Seq(Nat)
    /\ DOMAIN ledger = {"paid", "judged", "crashes"} /\ ledger.judged \in Int

\* The budgets of the models the node has passed.
Passed(slot) == slot.index * (Retries + 1)

\* The last answer of a node is counted, but belongs to no slot.
Budget ==
    /\ state.slot.spent + Len(segment.rejected) <= Retries
    /\ ledger.judged <= Passed(state.slot) + state.slot.spent + Len(segment.rejected)
                          + (IF node.at = "ended" THEN 1 ELSE 0)

IInv == Types /\ Budget

----------------------------------------------------------------------------
(* A model further down the chain is worth a whole budget more. *)
LEMMA LaterModelIsWorthMore ==
    ASSUME NEW i \in Nat, NEW j \in Nat, NEW r \in Nat, i < j
    PROVE  i * (r + 1) \in Nat /\ j * (r + 1) \in Nat /\ j * (r + 1) >= i * (r + 1) + (r + 1)
<1>1. PICK d \in Nat : j = i + 1 + d
  <2>1. j - i - 1 \in Nat /\ j = i + 1 + (j - i - 1)
    OBVIOUS
  <2> QED
    BY <2>1
<1>2. j * (r + 1) = i * (r + 1) + (r + 1) + d * (r + 1)
  BY <1>1
<1>3. d * (r + 1) \in Nat /\ i * (r + 1) \in Nat /\ j * (r + 1) \in Nat
  OBVIOUS
<1> QED
  BY <1>2, <1>3

LEMMA Numbers ==
    ASSUME Types
    PROVE  /\ Retries \in Nat /\ LastPosition \in Nat
           /\ state.slot \in Slots
           /\ state.slot.index \in Nat /\ state.slot.index <= LastPosition
           /\ state.slot.spent \in Nat /\ state.slot.spent <= Retries
           /\ Len(segment.rejected) \in Nat
           /\ ledger.judged \in Int
BY LlmAssumption DEF Types, Slots, Models

LEMMA PassedOrNot ==
    ASSUME NEW a \in Slots, NEW b \in Slots
    PROVE  /\ Passed(a) \in Nat
           /\ a.index = b.index => Passed(a) = Passed(b)
           /\ a.index < b.index => Passed(b) >= Passed(a) + (Retries + 1)
<1>1. a.index \in Nat /\ b.index \in Nat /\ Retries \in Nat
  BY LlmAssumption DEF Slots, Models
<1>2. Passed(a) \in Nat /\ (a.index = b.index => Passed(a) = Passed(b))
  BY <1>1 DEF Passed
<1>3. a.index < b.index => Passed(b) >= Passed(a) + (Retries + 1)
  BY <1>1, LaterModelIsWorthMore DEF Passed
<1> QED
  BY <1>2, <1>3

(* What was asked for so far is within the budgets of the models up to the slot's. *)
LEMMA BudgetIsBounded ==
    ASSUME IInv
    PROVE  AnswersAreBounded
<1> DEFINE i == state.slot.index
           R == Retries
<1>1. /\ R \in Nat /\ LastPosition \in Nat /\ i \in Nat /\ i < LastPosition + 1
      /\ ledger.judged \in Int
  BY Numbers DEF IInv
<1>2. ledger.judged <= Passed(state.slot) + (R + 1) /\ Passed(state.slot) \in Nat
  <2> DEFINE last == IF node.at = "ended" THEN 1 ELSE 0
  <2>1. /\ ledger.judged <= Passed(state.slot) + state.slot.spent + Len(segment.rejected) + last
        /\ state.slot.spent + Len(segment.rejected) <= R
    BY DEF IInv, Budget
  <2>2. /\ ledger.judged \in Int /\ Passed(state.slot) \in Nat /\ R \in Nat
        /\ state.slot.spent \in Nat /\ Len(segment.rejected) \in Nat /\ last \in 0 .. 1
    BY Numbers, PassedOrNot DEF IInv
  <2> HIDE DEF last
  <2> QED
    BY <2>1, <2>2
<1>3. /\ (LastPosition + 1) * (R + 1) \in Nat
      /\ (LastPosition + 1) * (R + 1) >= Passed(state.slot) + (R + 1)
  BY <1>1, LaterModelIsWorthMore DEF Passed
<1>4. (LastPosition + 1) * (R + 1) >= ledger.judged
  <2> DEFINE all == (LastPosition + 1) * (R + 1)
  <2>1. all \in Nat /\ all >= Passed(state.slot) + (R + 1)
    BY <1>3
  <2> HIDE DEF all
  <2>2. all >= ledger.judged
    BY <1>1, <1>2, <2>1
  <2> QED
    BY <2>2 DEF all
<1> QED
  BY <1>4, <1>1 DEF AnswersAreBounded

(* A step that leaves the slot and the rejected answers alone may count one answer
   if it ends the node. *)
LEMMA SlotStands ==
    ASSUME IInv, node.at # "ended", Types',
           state'.slot = state.slot, Len(segment'.rejected) = Len(segment.rejected),
           \/ ledger'.judged = ledger.judged
           \/ ledger'.judged = ledger.judged + 1 /\ node'.at = "ended"
    PROVE  IInv'
<1>1. ledger'.judged <= Passed(state.slot) + state.slot.spent + Len(segment.rejected)
                        + (IF node'.at = "ended" THEN 1 ELSE 0)
  <2>1. ledger.judged <= Passed(state.slot) + state.slot.spent + Len(segment.rejected) + 0
    BY DEF IInv, Budget
  <2>2. /\ ledger.judged \in Int /\ Passed(state.slot) \in Nat
        /\ state.slot.spent \in Nat /\ Len(segment.rejected) \in Nat
    BY Numbers, PassedOrNot DEF IInv
  <2> QED
    BY <2>1, <2>2
<1> QED
  BY <1>1 DEF IInv, Budget, Passed

LEMMA CountsJudges ==
    ASSUME Types, NEW judged \in Nat, Counts(judged)
    PROVE  /\ DOMAIN ledger' = {"paid", "judged", "crashes"}
           /\ ledger'.judged = ledger.judged + judged
BY DEF Counts, Types

LEMMA EndsAtEnded == ASSUME NEW result, Ends(result)
                     PROVE  node'.at = "ended" /\ DOMAIN node' = {"at", "result"}
BY DEF Ends

LEMMA NewSegmentIsEmpty ==
    /\ DOMAIN NewSegment = {"answered", "rejected", "called", "granted"}
    /\ NewSegment.answered = 0 /\ NewSegment.rejected = <<>>
BY DEF NewSegment

----------------------------------------------------------------------------
LEMMA InitIInv == Init => IInv
<1> SUFFICES ASSUME Init PROVE IInv
  OBVIOUS
<1>1. Types
  BY LlmAssumption, NewSegmentIsEmpty DEF Init, Types, Slots, FirstSlot, Models
<1>2. Budget
  BY LlmAssumption, NewSegmentIsEmpty DEF Init, Budget, Passed, FirstSlot
<1> QED
  BY <1>1, <1>2 DEF IInv

(* Steps that give the node its end, and count an answer at most. *)
LEMMA EndingStepKeepsIInv ==
    ASSUME IInv, node.at # "ended", NEW result, Ends(result),
           state' = state, segment' = segment,
           Counts(1) \/ Counts(0) \/ ledger' = ledger
    PROVE  IInv'
<1>1. /\ DOMAIN ledger' = {"paid", "judged", "crashes"}
      /\ ledger'.judged = ledger.judged \/ ledger'.judged = ledger.judged + 1
  BY CountsJudges, Numbers DEF IInv, Types
<1>2. node'.at = "ended" /\ Types'
  BY <1>1, EndsAtEnded, Numbers DEF IInv, Types
<1> QED
  BY <1>1, <1>2, SlotStands

LEMMA RejectsKeepsIInv == ASSUME NEW p PROVE IInv /\ Rejects(p) => IInv'
<1> SUFFICES ASSUME IInv, Rejects(p) PROVE IInv'
  OBVIOUS
<1>1. node.at = "asking" /\ state' = state
  BY DEF Rejects, Asks
<1> DEFINE rejected == Append(segment.rejected, segment.answered + 1)
<1>2. CASE /\ Len(segment.rejected) < OutputRetries
           /\ segment' = [segment EXCEPT !.answered = @ + 1, !.rejected = rejected]
           /\ Counts(1)
           /\ UNCHANGED <<node, failures>>
  <2>1. rejected \in Seq(Nat) /\ Len(rejected) = Len(segment.rejected) + 1
    BY DEF IInv, Types
  <2>2. /\ segment'.rejected = rejected /\ segment'.answered \in Nat
        /\ DOMAIN segment' = DOMAIN segment
        /\ ledger'.judged = ledger.judged + 1 /\ DOMAIN ledger' = DOMAIN ledger
    BY <1>2, CountsJudges DEF IInv, Types
  <2>3. Types'
    BY <1>1, <1>2, <2>1, <2>2 DEF IInv, Types
  <2>4. state.slot.spent + Len(segment.rejected) + 1 <= Retries
    BY <1>2, Numbers DEF IInv, OutputRetries
  <2>5. ledger'.judged <= Passed(state.slot) + state.slot.spent + Len(rejected)
    <3>1. ledger.judged <= Passed(state.slot) + state.slot.spent + Len(segment.rejected) + 0
      BY <1>1 DEF IInv, Budget
    <3>2. /\ ledger.judged \in Int /\ Passed(state.slot) \in Nat
          /\ state.slot.spent \in Nat /\ Len(segment.rejected) \in Nat
      BY Numbers, PassedOrNot DEF IInv
    <3> QED
      BY <2>1, <2>2, <3>1, <3>2
  <2>6. /\ Passed(state'.slot) = Passed(state.slot) /\ state'.slot.spent = state.slot.spent
        /\ node'.at # "ended"
    BY <1>1, <1>2 DEF Passed
  <2>7. state'.slot.spent + Len(segment'.rejected) <= Retries
    BY <2>1, <2>2, <2>4, <2>6, Numbers DEF IInv
  <2>8. ledger'.judged <= Passed(state'.slot) + state'.slot.spent + Len(segment'.rejected) + 0
    BY <2>1, <2>2, <2>5, <2>6, Numbers, PassedOrNot DEF IInv
  <2> QED
    BY <2>3, <2>6, <2>7, <2>8 DEF IInv, Budget
<1>3. CASE Ends("failed") /\ Counts(1) /\ segment' = segment
  BY <1>1, <1>3, EndingStepKeepsIInv
<1> QED
  BY <1>2, <1>3 DEF Rejects

(* A request made again, to the same model or another: the answer that is dropped is
   paid for by the slot, or by the model that is left. *)
LEMMA DropsKeepsIInv == ASSUME NEW p, NEW outcome PROVE IInv /\ Drops(p, outcome) => IInv'
<1> SUFFICES ASSUME IInv, Drops(p, outcome) PROVE IInv'
  OBVIOUS
<1> DEFINE i == state.slot.index
           R == Retries
           n == Len(segment.rejected)
           slot == AnsweredSlot(p)
           step == OutcomeStep(p, outcome)
<1>1. node.at = "asking" /\ p \in Nat /\ i <= p /\ p <= LastPosition
  BY Numbers DEF IInv, Drops, Asks
<1>2. CASE step.action = "none"
  BY <1>1, <1>2, EndingStepKeepsIInv DEF Drops
<1>3. CASE step.action # "none"
  <2>1. /\ state' = [state EXCEPT !.offset = NextOffset, !.slot = step.slot, !.results = 0]
        /\ segment' = NewSegment /\ node' = node /\ Counts(1)
    BY <1>3 DEF Drops
  <2>2. ledger'.judged = ledger.judged + 1 /\ DOMAIN ledger' = {"paid", "judged", "crashes"}
    BY <2>1, CountsJudges DEF IInv
  <2>3. /\ slot.index = p /\ slot.spent \in Nat /\ slot.spent <= R
        /\ p = i => slot.spent = n + state.slot.spent
        /\ p # i => slot.spent = n
    BY Numbers DEF IInv, Budget, AnsweredSlot
  <2>4. \/ slot.spent < R /\ step.slot.index = p /\ step.slot.spent = slot.spent + 1
           /\ step.slot \in Slots
        \/ p < LastPosition /\ step.slot.index = p + 1 /\ step.slot.spent = 0
           /\ step.slot \in Slots
    <3>1. CASE policy[outcome] = "retry" /\ slot.spent < R
      <4>1. step.slot = [slot EXCEPT !.spent = @ + 1]
        BY <3>1 DEF OutcomeStep
      <4>2. step.slot = [index |-> p, spent |-> slot.spent + 1]
        BY <4>1 DEF AnsweredSlot
      <4>3. p \in Models /\ slot.spent + 1 \in 0 .. Retries
        BY <3>1, <1>1, <2>3, Numbers DEF IInv, Models
      <4> QED
        BY <3>1, <4>2, <4>3 DEF Slots
    <3>2. CASE policy[outcome] = "fallback" /\ slot.index < LastPosition
      <4>1. step.slot = [index |-> p + 1, spent |-> 0]
        BY <3>2, <2>3 DEF OutcomeStep
      <4> QED
        BY <3>2, <4>1, <1>1, <2>3, Numbers DEF IInv, Slots, Models
    <3> QED
      BY <3>1, <3>2, <1>3 DEF OutcomeStep
  <2>5. Types'
    BY <2>1, <2>2, <2>4, NewSegmentIsEmpty, Numbers DEF IInv, Types
  <2>6. state'.slot = step.slot /\ segment'.rejected = <<>>
    BY <2>1, NewSegmentIsEmpty DEF IInv, Types
  <2>7. ledger'.judged <= Passed(state.slot) + state.slot.spent + n + 1
        /\ state.slot.spent + n <= R /\ ledger'.judged \in Int
    <3>1. ledger.judged <= Passed(state.slot) + state.slot.spent + n + 0
      BY <1>1 DEF IInv, Budget
    <3>2. /\ ledger.judged \in Int /\ Passed(state.slot) \in Nat
          /\ state.slot.spent \in Nat /\ n \in Nat /\ state.slot.spent + n <= R
      BY Numbers, PassedOrNot DEF IInv, Budget
    <3> HIDE DEF n
    <3> QED
      BY <2>2, <3>1, <3>2
  <2>8. step.slot.spent \in Nat /\ step.slot.spent <= R /\ step.slot \in Slots
    BY <2>3, <2>4, Numbers DEF IInv
  <2>9. ledger'.judged <= Passed(step.slot) + step.slot.spent
    <3>1. CASE p = i /\ step.slot.index = p
      <4>1. step.slot.spent = n + state.slot.spent + 1
        BY <3>1, <2>3, <2>4, <1>1
      <4>2. Passed(step.slot) = Passed(state.slot) /\ Passed(state.slot) \in Nat
        BY <3>1, <2>8, Numbers, PassedOrNot DEF IInv
      <4> HIDE DEF step
      <4> QED
        BY <4>1, <4>2, <2>7, Numbers DEF IInv
    <3>2. CASE i < step.slot.index
      <4>1. Passed(step.slot) >= Passed(state.slot) + (R + 1) /\ Passed(state.slot) \in Nat
            /\ Passed(step.slot) \in Nat
        BY <3>2, <2>8, Numbers, PassedOrNot DEF IInv
      <4>2. ledger'.judged <= Passed(state.slot) + (R + 1)
        <5>1. n \in Nat /\ state.slot.spent \in Nat /\ R \in Nat
          BY Numbers DEF IInv
        <5> HIDE DEF n, R
        <5> QED
          BY <4>1, <5>1, <2>7
      <4>3. ledger'.judged <= Passed(step.slot)
        BY <4>1, <4>2, <2>7, Numbers DEF IInv
      <4> HIDE DEF step
      <4> QED
        BY <4>1, <4>3, <2>7, <2>8
    <3> QED
      BY <3>1, <3>2, <1>1, <2>4, Numbers DEF IInv
  <2>10. Budget'
    <3>1. state'.slot.spent + Len(segment'.rejected) <= Retries
      BY <2>6, <2>8, Numbers DEF IInv
    <3>2. ledger'.judged <= Passed(state'.slot) + state'.slot.spent + Len(segment'.rejected)
      BY <2>6, <2>8, <2>9, PassedOrNot
    <3>3. node'.at # "ended"
      BY <1>1, <2>1
    <3> HIDE DEF step
    <3>4. Passed(state'.slot) \in Nat /\ state'.slot.spent \in Nat /\ Len(segment'.rejected) = 0
      BY <2>6, <2>8, PassedOrNot
    <3> QED
      BY <3>1, <3>2, <3>3, <3>4 DEF Budget
  <2> QED
    BY <2>5, <2>10 DEF IInv
<1> QED
  BY <1>2, <1>3

LEMMA CallsToolsKeepsIInv == ASSUME NEW p, NEW called PROVE IInv /\ CallsTools(p, called) => IInv'
<1> SUFFICES ASSUME IInv, CallsTools(p, called) PROVE IInv'
  OBVIOUS
<1>1. node.at = "asking"
  BY DEF CallsTools, Asks
<1>2. CASE /\ segment' = [segment EXCEPT !.answered = @ + 1, !.called = @ + Cardinality(called)]
           /\ Counts(0)
           /\ UNCHANGED <<node, state, failures>>
  <2>1. Types' /\ segment'.rejected = segment.rejected /\ ledger'.judged = ledger.judged
    BY <1>2, CountsJudges DEF IInv, Types
  <2> QED
    BY <1>1, <1>2, <2>1, SlotStands
<1>3. CASE Defers(called)
  <2>1. /\ DOMAIN node' = DOMAIN node /\ node'.at # "ended"
        /\ DOMAIN state' = DOMAIN state /\ state'.slot = state.slot
        /\ segment' = NewSegment
        /\ DOMAIN ledger' = DOMAIN ledger /\ ledger'.judged = 0
    BY <1>3 DEF Defers, IInv, Types
  <2>2. Types'
    BY <2>1, NewSegmentIsEmpty DEF IInv, Types
  <2> QED
    BY <2>1, <2>2, NewSegmentIsEmpty, Numbers, PassedOrNot DEF IInv, Budget
<1> QED
  BY <1>2, <1>3 DEF CallsTools

(* The death of the process takes back what the segment had counted. *)
LEMMA DiesKeepsIInv == IInv /\ Dies => IInv'
<1> SUFFICES ASSUME IInv, Dies PROVE IInv'
  OBVIOUS
<1>1. /\ node' = node /\ state' = state /\ segment' = NewSegment /\ node.at = "asking"
      /\ DOMAIN ledger' = DOMAIN ledger
      /\ ledger'.judged = ledger.judged - Len(segment.rejected)
  BY DEF Dies, IInv, Types
<1>2. Types'
  BY <1>1, NewSegmentIsEmpty, Numbers DEF IInv, Types
<1> QED
  BY <1>1, <1>2, NewSegmentIsEmpty, Numbers, PassedOrNot DEF IInv, Budget

(* Between segments nothing is asked, and the calls a segment was granted cost it no
   answer. *)
LEMMA BetweenSegmentsKeepsIInv ==
    IInv /\ ((\E granted : Decides(granted)) \/ (\E i : Invokes(i) \/ DiesInCall(i))
             \/ Resumes \/ RunsGranted) => IInv'
<1> SUFFICES ASSUME IInv, (\E granted : Decides(granted)) \/ (\E i : Invokes(i) \/ DiesInCall(i))
                           \/ Resumes \/ RunsGranted
             PROVE  IInv'
  OBVIOUS
<1>1. CASE (\E granted : Decides(granted)) \/ (\E i : Invokes(i) \/ DiesInCall(i)) \/ Resumes
  <2>1. node.at # "ended" /\ UNCHANGED <<state, segment>>
    BY <1>1 DEF Decides, Invokes, DiesInCall, Resumes
  <2>2. DOMAIN node' = DOMAIN node
    BY <1>1 DEF Decides, Invokes, DiesInCall, Resumes
  <2>3. DOMAIN ledger' = DOMAIN ledger /\ ledger'.judged = ledger.judged
    BY <1>1 DEF Decides, Invokes, DiesInCall, Resumes, IInv, Types
  <2>4. Types'
    BY <2>1, <2>2, <2>3 DEF IInv, Types
  <2> QED
    BY <2>1, <2>3, <2>4, SlotStands
<1>2. CASE RunsGranted
  <2>1. /\ node.at # "ended" /\ DOMAIN node' = DOMAIN node /\ ledger' = ledger
        /\ DOMAIN state' = DOMAIN state /\ state'.slot = state.slot
    BY <1>2 DEF RunsGranted, IInv, Types
  <2>2. DOMAIN segment' = DOMAIN segment /\ segment'.rejected = segment.rejected
        /\ segment'.answered = segment.answered
    BY <1>2 DEF RunsGranted, IInv, Types
  <2>3. Types'
    BY <2>1, <2>2 DEF IInv, Types
  <2> QED
    BY <2>1, <2>2, <2>3, SlotStands
<1> QED
  BY <1>1, <1>2

LEMMA IInvIsInductive == IInv /\ [Next]_vars => IInv'
<1> SUFFICES ASSUME IInv, [Next]_vars PROVE IInv'
  OBVIOUS
<1>1. CASE UNCHANGED vars
  BY <1>1 DEF vars, IInv, Types, Budget
<1>2. ASSUME NEW p \in Models, Answered(p) PROVE IInv'
  <2>1. CASE Completes(p)
    BY <2>1, EndingStepKeepsIInv DEF Completes, Asks
  <2>2. CASE Rejects(p)
    BY <2>2, RejectsKeepsIInv
  <2>3. CASE \E outcome \in Outcomes : Drops(p, outcome)
    BY <2>3, DropsKeepsIInv
  <2>4. ASSUME NEW called,
               CallsTools(p, called) \/ CallsTooManyTools(p, called) \/ ToolRaises(p, called)
        PROVE IInv'
    <3>1. CASE CallsTools(p, called)
      BY <3>1, CallsToolsKeepsIInv
    <3>2. CASE CallsTooManyTools(p, called)
      BY <3>2, EndingStepKeepsIInv DEF CallsTooManyTools, Asks
    <3>3. CASE ToolRaises(p, called)
      BY <3>3, EndingStepKeepsIInv DEF ToolRaises, Asks
    <3> QED
      BY <2>4, <3>1, <3>2, <3>3
  <2> QED
    BY <1>2, <2>1, <2>2, <2>3, <2>4 DEF Answered
<1>3. ASSUME NEW i, Called(i) PROVE IInv'
  BY <1>3, EndingStepKeepsIInv, BetweenSegmentsKeepsIInv DEF Called, CallRaises
<1>4. CASE NobodyDecides
  BY <1>4, EndingStepKeepsIInv DEF NobodyDecides
<1>5. CASE CallFails
  BY <1>5, EndingStepKeepsIInv DEF CallFails
<1>6. CASE Dies
  BY <1>6, DiesKeepsIInv
<1>7. CASE (\E granted : Decides(granted)) \/ Resumes \/ RunsGranted
  BY <1>7, BetweenSegmentsKeepsIInv
<1> QED
  BY <1>1, <1>2, <1>3, <1>4, <1>5, <1>6, <1>7 DEF Next

----------------------------------------------------------------------------
(* For any chain of models, any retries, any policies and any crashes, repairs, retries
   and fallbacks together ask for an output at most once for each model and each of
   its retries, from one deferral to the next (output_retries, answered_slot,
   retry_outcome, fallback_outcome). *)
THEOREM AnswersStayBounded == Spec => []AnswersAreBounded
<1>1. IInv => AnswersAreBounded
  BY BudgetIsBounded
<1> QED
  BY <1>1, InitIInv, IInvIsInductive, PTL DEF Spec

----------------------------------------------------------------------------
(* The tool calls *)

Call == [tool : Tools, approved : BOOLEAN, at : {"waits", "due", "cleared", "settled"}, runs : Nat]

\* What has become of a call by the place it is in. It is run once before it leaves its
\* place, unless the process dies there.
InOrder(c, crashes, ended) ==
    /\ c.runs <= 1 + crashes
    /\ c.tool \in Guarded /\ c.runs > 0 => c.approved
    /\ c.at = "waits" => c.runs = 0 /\ ~c.approved /\ c.tool \in Guarded
    /\ c.at \in {"due", "cleared"} =>
          (c.approved \/ c.tool \notin Guarded) /\ (ended \/ c.runs <= crashes)
    /\ c.at = "cleared" => c.approved
    /\ c.at = "settled" => (c.runs > 0 <=> c.approved \/ c.tool \notin Guarded)

CallsInOrder ==
    /\ ledger.crashes \in Nat /\ calls \in Seq(Call)
    /\ \A i \in DOMAIN calls : InOrder(calls[i], ledger.crashes, node.at = "ended")

\* What the segment was granted it has run, and would run again.
GrantedAreRun ==
    \A i \in segment.granted :
        i \in DOMAIN calls /\ calls[i].at = "settled" /\ calls[i].approved

CInv == CallsInOrder /\ GrantedAreRun

(* A call that is run and leaves its place is the same call otherwise. *)
LEMMA LeavesItsPlace ==
    ASSUME NEW c \in Call, NEW d,
           \/ d = [c EXCEPT !.runs = @ + 1, !.at = "settled"]
           \/ d = [c EXCEPT !.at = "settled", !.runs = @ + 1]
    PROVE  /\ d \in Call
           /\ d.tool = c.tool /\ d.approved = c.approved /\ d.at = "settled"
           /\ d.runs = c.runs + 1
<1> DEFINE r == c.runs + 1
<1>1. r \in Nat /\ c.runs + 1 = r
  BY DEF Call
<1> HIDE DEF r
<1>2. d = [c EXCEPT !.runs = r, !.at = "settled"] \/ d = [c EXCEPT !.at = "settled", !.runs = r]
  BY <1>1
<1>3. /\ d.tool = c.tool /\ d.approved = c.approved /\ d.at = "settled" /\ d.runs = r
  BY <1>2 DEF Call
<1>4. d \in Call
  BY <1>1, <1>2 DEF Call
<1> QED
  BY <1>1, <1>3, <1>4

(* The tools a model calls, in some order. *)
LEMMA NewCallsAreInOrder ==
    ASSUME NEW called \in SUBSET Tools, NEW crashes \in Nat, NEW ended \in BOOLEAN
    PROVE  /\ NewCalls(called) \in Seq(Call)
           /\ \A i \in DOMAIN NewCalls(called) :
                 /\ InOrder(NewCalls(called)[i], crashes, ended)
                 /\ NewCalls(called)[i].at # "cleared"
<1> DEFINE tools == SetToSeq(called)
           n == Cardinality(called)
<1>1. IsFiniteSet(called)
  BY LlmAssumption, FS_Subset
<1>2. n \in Nat /\ ExistsBijection(1 .. n, called)
  BY <1>1, FS_CardinalityType
<1>3. \E f \in [1 .. n -> called] : IsInjective(f)
  BY <1>2 DEF ExistsBijection, Bijection, Injection
<1>4. tools \in [1 .. n -> called]
  BY <1>3 DEF SetToSeq
<1> HIDE DEF tools
<1>5. \A tool \in Tools : /\ NewCall(tool) \in Call
                          /\ NewCall(tool).at # "cleared"
                          /\ InOrder(NewCall(tool), crashes, ended)
  BY LlmAssumption DEF NewCall, Call, InOrder
<1>6. NewCalls(called) = [i \in 1 .. n |-> NewCall(tools[i])]
  BY <1>4 DEF NewCalls, tools
<1>7. \A i \in 1 .. n : NewCall(tools[i]) \in Call
  BY <1>4, <1>5
<1>8. NewCalls(called) \in Seq(Call)
  BY <1>2, <1>6, <1>7, IsASeq
<1> QED
  BY <1>4, <1>5, <1>6, <1>8

(* A step that leaves the calls alone, and no new ones granted. *)
LEMMA CallsUndisturbed ==
    ASSUME CInv, calls' = calls, segment'.granted \in {segment.granted, {}},
           ledger'.crashes \in Nat, ledger'.crashes >= ledger.crashes,
           node.at # "ended" \/ node'.at = "ended"
    PROVE  CInv'
<1>1. ASSUME NEW i \in DOMAIN calls
      PROVE  InOrder(calls'[i], ledger'.crashes, node'.at = "ended")
  <2>1. InOrder(calls[i], ledger.crashes, node.at = "ended") /\ calls[i] \in Call
        /\ ledger.crashes \in Nat
    BY DEF CInv, CallsInOrder
  <2> QED
    BY <2>1 DEF InOrder, Call
<1>2. CallsInOrder'
  BY <1>1 DEF CInv, CallsInOrder
<1>3. GrantedAreRun'
  BY DEF CInv, GrantedAreRun
<1> QED
  BY <1>2, <1>3 DEF CInv

(* A step that adds calls. *)
LEMMA CallsAreAdded ==
    ASSUME CInv, NEW called \in SUBSET Tools, calls' = calls \o NewCalls(called),
           segment'.granted \in {segment.granted, {}}, ledger'.crashes = ledger.crashes,
           node.at # "ended"
    PROVE  CInv'
<1>1. /\ NewCalls(called) \in Seq(Call)
      /\ \A i \in DOMAIN NewCalls(called) :
            InOrder(NewCalls(called)[i], ledger.crashes, node'.at = "ended")
  BY NewCallsAreInOrder DEF CInv, CallsInOrder
<1> DEFINE new == NewCalls(called)
<1> HIDE DEF new
<1>2. /\ calls' \in Seq(Call)
      /\ \A i \in DOMAIN calls' :
            \/ i \in DOMAIN calls /\ calls'[i] = calls[i]
            \/ i - Len(calls) \in DOMAIN new /\ calls'[i] = new[i - Len(calls)]
      /\ \A i \in DOMAIN calls : i \in DOMAIN calls' /\ calls'[i] = calls[i]
  <2>1. calls \in Seq(Call) /\ new \in Seq(Call) /\ calls' = calls \o new
    BY <1>1 DEF CInv, CallsInOrder, new
  <2> QED
    BY <2>1, ConcatProperties
<1>3. ASSUME NEW i \in DOMAIN calls' PROVE InOrder(calls'[i], ledger'.crashes, node'.at = "ended")
  <2>1. CASE i \in DOMAIN calls /\ calls'[i] = calls[i]
    BY <2>1 DEF CInv, CallsInOrder, InOrder
  <2>2. CASE i - Len(calls) \in DOMAIN new /\ calls'[i] = new[i - Len(calls)]
    BY <2>2, <1>1 DEF new
  <2> QED
    BY <1>2, <2>1, <2>2
<1>4. GrantedAreRun'
  BY <1>2 DEF CInv, GrantedAreRun
<1> QED
  BY <1>2, <1>3, <1>4 DEF CInv, CallsInOrder

(* A step that does something about the calls there are. *)
LEMMA CallsAreChanged ==
    ASSUME CInv, ledger'.crashes \in Nat, calls' = [i \in DOMAIN calls |-> calls'[i]],
           \A i \in DOMAIN calls :
               calls'[i] \in Call /\ InOrder(calls'[i], ledger'.crashes, node'.at = "ended")
    PROVE  CallsInOrder'
<1>1. DOMAIN calls = 1 .. Len(calls) /\ Len(calls) \in Nat
  BY DEF CInv, CallsInOrder
<1>2. calls' \in Seq(Call)
  <2>1. calls' = [i \in 1 .. Len(calls) |-> calls'[i]]
    BY <1>1
  <2>2. \A i \in 1 .. Len(calls) : calls'[i] \in Call
    BY <1>1
  <2>3. [i \in 1 .. Len(calls) |-> calls'[i]] \in Seq(Call)
    BY <1>1, <2>2, IsASeq
  <2> QED
    BY <2>1, <2>3
<1> QED
  BY <1>2 DEF CallsInOrder

LEMMA InitCInv == Init => CInv
BY LlmAssumption DEF Init, CInv, CallsInOrder, GrantedAreRun, NewSegment

(* Each call that waits is told whether it is run, and no other changes. *)
LEMMA DecidesKeepsCInv == ASSUME NEW granted PROVE CInv /\ Decides(granted) => CInv'
<1> SUFFICES ASSUME CInv, Decides(granted) PROVE CInv'
  OBVIOUS
<1>1. calls' = [i \in DOMAIN calls |-> calls'[i]] /\ ledger' = ledger /\ segment' = segment
      /\ node.at # "ended"
  BY DEF Decides, Verdicts
<1>2. ASSUME NEW i \in DOMAIN calls
      PROVE  /\ calls'[i] \in Call
             /\ InOrder(calls'[i], ledger'.crashes, node'.at = "ended")
             /\ calls[i].at # "waits" => calls'[i] = calls[i]
  <2>1. calls[i] \in Call /\ InOrder(calls[i], ledger.crashes, node.at = "ended")
        /\ ledger.crashes \in Nat
    BY DEF CInv, CallsInOrder
  <2>2. CASE calls[i].at # "waits"
    <3>1. calls'[i] = calls[i]
      BY <2>2 DEF Decides, Verdicts
    <3> QED
      BY <1>1, <2>1, <3>1 DEF InOrder
  <2>3. CASE calls[i].at = "waits"
    <3>1. CASE i \in granted
      <4>1. calls'[i] = [calls[i] EXCEPT !.at = "cleared", !.approved = TRUE]
        BY <2>3, <3>1 DEF Decides, Verdicts
      <4>2. /\ calls'[i] \in Call /\ calls'[i].tool = calls[i].tool
            /\ calls'[i].approved /\ calls'[i].at = "cleared"
            /\ calls'[i].runs = calls[i].runs
        BY <2>1, <4>1 DEF Call
      <4> QED
        BY <1>1, <2>1, <2>3, <4>2 DEF InOrder
    <3>2. CASE i \notin granted
      <4>1. calls'[i] = [calls[i] EXCEPT !.at = "settled"] /\ ~calls[i].approved
        BY <2>1, <2>3, <3>2 DEF Decides, Verdicts, InOrder
      <4>2. /\ calls'[i] \in Call /\ calls'[i].tool = calls[i].tool
            /\ ~calls'[i].approved /\ calls'[i].at = "settled"
            /\ calls'[i].runs = calls[i].runs
        BY <2>1, <4>1 DEF Call
      <4> QED
        BY <1>1, <2>1, <2>3, <4>2 DEF InOrder
    <3> QED
      BY <3>1, <3>2
  <2> QED
    BY <2>2, <2>3
<1>3. CallsInOrder'
  <2>1. ledger'.crashes \in Nat
    BY <1>1 DEF CInv, CallsInOrder
  <2> QED
    BY <1>1, <1>2, <2>1, CallsAreChanged
<1>4. GrantedAreRun'
  BY <1>1, <1>2 DEF CInv, GrantedAreRun
<1> QED
  BY <1>3, <1>4 DEF CInv

(* A call between segments is one that is due, and has run as often as its process died. *)
LEMMA CalledKeepsCInv == ASSUME NEW i PROVE CInv /\ Types /\ Called(i) => CInv'
<1> SUFFICES ASSUME CInv, Types, Called(i) PROVE CInv'
  OBVIOUS
<1>1. /\ i \in DOMAIN calls /\ calls[i].at = "due" /\ node.at # "ended" /\ segment' = segment
      /\ calls' = [j \in DOMAIN calls |-> calls'[j]]
      /\ \A j \in DOMAIN calls : j # i => calls'[j] = calls[j]
  BY DEF Called, Invokes, DiesInCall, CallRaises, CallsAt
<1>2. /\ calls[i] \in Call /\ InOrder(calls[i], ledger.crashes, FALSE) /\ ledger.crashes \in Nat
  BY <1>1 DEF CInv, CallsInOrder, InOrder
<1>3. /\ calls'[i].tool = calls[i].tool /\ calls'[i].approved = calls[i].approved
      /\ calls'[i].runs = calls[i].runs + 1 /\ calls'[i] \in Call
      /\ \/ calls'[i].at = "settled" /\ ledger' = ledger
         \/ calls'[i].at = "due" /\ ledger'.crashes = ledger.crashes + 1
         \/ calls'[i].at = "due" /\ node'.at = "ended" /\ ledger' = ledger
  <2>1. CASE Invokes(i)
    <3>1. calls'[i] = [calls[i] EXCEPT !.runs = @ + 1, !.at = "settled"]
      BY <1>1, <2>1 DEF Invokes
    <3> QED
      BY <1>2, <3>1, <2>1, LeavesItsPlace DEF Invokes
  <2>2. CASE DiesInCall(i)
    <3>1. calls'[i] = [calls[i] EXCEPT !.runs = @ + 1]
      BY <1>1, <2>2 DEF DiesInCall
    <3>2. ledger'.crashes = ledger.crashes + 1
      BY <2>2 DEF DiesInCall, Types
    <3> QED
      BY <1>1, <1>2, <3>1, <3>2 DEF Call
  <2>3. CASE CallRaises(i)
    <3>1. calls'[i] = [calls[i] EXCEPT !.runs = @ + 1]
      BY <1>1, <2>3 DEF CallRaises
    <3>2. node'.at = "ended"
      BY <2>3 DEF CallRaises, Ends
    <3> QED
      BY <1>1, <1>2, <3>1, <3>2, <2>3 DEF CallRaises, Call
  <2> QED
    BY <2>1, <2>2, <2>3 DEF Called
<1>4. ledger'.crashes \in Nat /\ ledger'.crashes >= ledger.crashes
  BY <1>2, <1>3
<1>5. InOrder(calls'[i], ledger'.crashes, node'.at = "ended")
  <2>1. /\ calls[i].runs \in Nat /\ calls[i].runs <= ledger.crashes
        /\ calls[i].approved \/ calls[i].tool \notin Guarded
    BY <1>1, <1>2 DEF InOrder, Call
  <2> QED
    BY <1>2, <1>3, <1>4, <2>1 DEF InOrder
<1>6. ASSUME NEW j \in DOMAIN calls, j # i
      PROVE  calls'[j] \in Call /\ InOrder(calls'[j], ledger'.crashes, node'.at = "ended")
  <2>1. calls[j] \in Call /\ InOrder(calls[j], ledger.crashes, FALSE) /\ calls'[j] = calls[j]
    BY <1>1, <1>6 DEF CInv, CallsInOrder, InOrder
  <2> QED
    BY <2>1, <1>2, <1>4 DEF InOrder, Call
<1>7. CallsInOrder'
  BY <1>1, <1>3, <1>4, <1>5, <1>6, CallsAreChanged
<1>8. GrantedAreRun'
  BY <1>1 DEF CInv, GrantedAreRun
<1> QED
  BY <1>7, <1>8 DEF CInv

LEMMA RunsGrantedKeepsCInv == CInv /\ Types /\ RunsGranted => CInv'
<1> SUFFICES ASSUME CInv, Types, RunsGranted PROVE CInv'
  OBVIOUS
<1>1. calls' = [i \in DOMAIN calls |-> calls'[i]] /\ ledger' = ledger /\ node.at # "ended"
  BY DEF RunsGranted
<1>2. ASSUME NEW i \in DOMAIN calls
      PROVE  /\ calls'[i] \in Call
             /\ InOrder(calls'[i], ledger'.crashes, node'.at = "ended")
             /\ calls[i].at # "cleared" => calls'[i] = calls[i]
             /\ calls[i].at = "cleared" /\ calls[i].tool \notin External
                   => calls'[i].at = "settled" /\ calls'[i].approved
  <2>1. /\ calls[i] \in Call /\ InOrder(calls[i], ledger.crashes, FALSE)
        /\ ledger.crashes \in Nat /\ calls'[i] = Cleared(i)
    BY <1>1 DEF CInv, CallsInOrder, RunsGranted, InOrder
  <2>2. CASE calls[i].at # "cleared"
    BY <1>1, <2>1, <2>2 DEF Cleared, InOrder
  <2>3. CASE calls[i].at = "cleared" /\ calls[i].tool \in External
    <3>1. calls'[i] = [calls[i] EXCEPT !.at = "due"]
      BY <2>1, <2>3 DEF Cleared
    <3>2. calls'[i] \in Call /\ calls'[i].at = "due" /\ calls'[i].runs = calls[i].runs
          /\ calls'[i].approved = calls[i].approved /\ calls'[i].tool = calls[i].tool
      BY <2>1, <3>1 DEF Call
    <3> QED
      BY <1>1, <2>1, <2>3, <3>2 DEF InOrder
  <2>4. CASE calls[i].at = "cleared" /\ calls[i].tool \notin External
    <3>1. calls'[i] = [calls[i] EXCEPT !.at = "settled", !.runs = @ + 1]
      BY <2>1, <2>4 DEF Cleared
    <3>2. calls'[i] \in Call /\ calls'[i].at = "settled" /\ calls'[i].runs = calls[i].runs + 1
          /\ calls'[i].approved = calls[i].approved /\ calls'[i].tool = calls[i].tool
      BY <2>1, <3>1, LeavesItsPlace
    <3>3. calls[i].runs \in Nat /\ calls[i].runs <= ledger.crashes /\ calls[i].approved
      BY <2>1, <2>4 DEF InOrder, Call
    <3> QED
      BY <1>1, <2>1, <2>4, <3>2, <3>3 DEF InOrder
  <2> QED
    BY <2>2, <2>3, <2>4
<1>3. CallsInOrder'
  <2>1. ledger'.crashes \in Nat
    BY <1>1 DEF CInv, CallsInOrder
  <2> QED
    BY <1>1, <1>2, <2>1, CallsAreChanged
<1>4. GrantedAreRun'
  <2>1. CASE segment' = segment
    BY <2>1, <1>1, <1>2 DEF CInv, GrantedAreRun
  <2>2. CASE /\ \A i \in CallsAt({"cleared"}) : calls[i].tool \notin External
             /\ segment' = [segment EXCEPT !.granted = CallsAt({"cleared"})]
    <3>1. segment'.granted = CallsAt({"cleared"})
      BY <2>2 DEF Types
    <3> QED
      BY <3>1, <2>2, <1>1, <1>2 DEF GrantedAreRun, CallsAt
  <2> QED
    BY <2>1, <2>2 DEF RunsGranted
<1> QED
  BY <1>3, <1>4 DEF CInv

(* The death of the process leaves what the segment had run to be run once more. *)
LEMMA DiesKeepsCInv == CInv /\ Types /\ Dies => CInv'
<1> SUFFICES ASSUME CInv, Types, Dies PROVE CInv'
  OBVIOUS
<1>1. /\ calls' = [i \in DOMAIN calls |-> calls'[i]] /\ node.at # "ended"
      /\ segment'.granted = {} /\ ledger'.crashes = ledger.crashes + 1 /\ ledger.crashes \in Nat
  BY DEF Dies, NewSegment, Types, CInv, CallsInOrder
<1>2. ASSUME NEW i \in DOMAIN calls
      PROVE  calls'[i] \in Call /\ InOrder(calls'[i], ledger'.crashes, node'.at = "ended")
  <2>1. calls[i] \in Call /\ InOrder(calls[i], ledger.crashes, FALSE)
    BY <1>1 DEF CInv, CallsInOrder, InOrder
  <2>2. CASE i \in segment.granted
    <3>1. calls'[i] = [calls[i] EXCEPT !.at = "cleared"]
      BY <2>2 DEF Dies
    <3>2. calls'[i] \in Call /\ calls'[i].at = "cleared" /\ calls'[i].runs = calls[i].runs
          /\ calls'[i].approved = calls[i].approved /\ calls'[i].tool = calls[i].tool
      BY <2>1, <3>1 DEF Call
    <3>3. calls[i].approved /\ calls[i].runs \in Nat /\ calls[i].runs <= 1 + ledger.crashes
      BY <2>1, <2>2 DEF CInv, GrantedAreRun, InOrder, Call
    <3> QED
      BY <1>1, <3>2, <3>3 DEF InOrder
  <2>3. CASE i \notin segment.granted
    <3>1. calls'[i] = calls[i]
      BY <2>3 DEF Dies
    <3> QED
      BY <1>1, <2>1, <3>1 DEF InOrder, Call
  <2> QED
    BY <2>2, <2>3
<1>3. CallsInOrder'
  BY <1>1, <1>2, CallsAreChanged
<1> QED
  BY <1>1, <1>3 DEF CInv, GrantedAreRun

LEMMA CrashesStand ==
    ASSUME Types, NEW judged, Counts(judged)
    PROVE  ledger'.crashes = ledger.crashes
BY DEF Types, Counts

LEMMA AnsweredKeepsCInv ==
    ASSUME NEW p PROVE CInv /\ Types /\ Answered(p) => CInv'
<1> SUFFICES ASSUME CInv, Types, Answered(p) PROVE CInv'
  OBVIOUS
<1>0. node.at # "ended" /\ ledger.crashes \in Nat
  BY DEF Answered, Completes, Rejects, Drops, CallsTools, CallsTooManyTools, ToolRaises, Asks,
     CInv, CallsInOrder
<1>1. CASE \/ Completes(p) \/ Rejects(p) \/ \E outcome \in Outcomes : Drops(p, outcome)
           \/ \E called : CallsTooManyTools(p, called)
  <2>1. calls' = calls /\ ledger'.crashes = ledger.crashes
    BY <1>1, CrashesStand DEF Completes, Rejects, Drops, CallsTooManyTools
  <2>2. segment'.granted \in {segment.granted, {}}
    <3>1. NewSegment.granted = {}
      BY DEF NewSegment
    <3>2. CASE Rejects(p)
      BY <3>2 DEF Rejects, Types
    <3>3. ASSUME NEW outcome, Drops(p, outcome) PROVE segment' \in {segment, NewSegment}
      BY <3>3 DEF Drops
    <3>4. CASE Completes(p) \/ \E called : CallsTooManyTools(p, called)
      BY <3>4 DEF Completes, CallsTooManyTools
    <3> QED
      BY <1>1, <3>1, <3>2, <3>3, <3>4
  <2> QED
    BY <1>0, <2>1, <2>2, CallsUndisturbed
<1>2. ASSUME NEW called \in SUBSET Tools, CallsTools(p, called) \/ ToolRaises(p, called)
      PROVE  CInv'
  <2>1. calls' = calls \o NewCalls(called)
    BY <1>2 DEF CallsTools, ToolRaises
  <2>2. ledger'.crashes = ledger.crashes
    BY <1>2, CrashesStand DEF CallsTools, ToolRaises, Defers, Types
  <2>3. segment'.granted \in {segment.granted, {}}
    <3>1. CASE segment' = [segment EXCEPT !.answered = @ + 1, !.called = @ + Cardinality(called)]
      BY <3>1 DEF Types
    <3>2. CASE Defers(called)
      BY <3>2 DEF Defers, NewSegment
    <3> QED
      BY <1>2, <3>1, <3>2 DEF CallsTools, ToolRaises
  <2> QED
    BY <1>0, <2>1, <2>2, <2>3, CallsAreAdded
<1> QED
  BY <1>1, <1>2 DEF Answered

LEMMA CInvIsInductive == CInv /\ Types /\ [Next]_vars => CInv'
<1> SUFFICES ASSUME CInv, Types, [Next]_vars PROVE CInv'
  OBVIOUS
<1>0. ledger.crashes \in Nat
  BY DEF CInv, CallsInOrder
<1>1. CASE UNCHANGED vars
  BY <1>0, <1>1, CallsUndisturbed DEF vars
<1>2. CASE \E p \in Models : Answered(p)
  BY <1>2, AnsweredKeepsCInv
<1>3. CASE \E granted \in SUBSET DOMAIN calls : Decides(granted)
  BY <1>3, DecidesKeepsCInv
<1>4. CASE \E i \in DOMAIN calls : Called(i)
  BY <1>4, CalledKeepsCInv
<1>5. CASE NobodyDecides \/ Resumes \/ CallFails
  <2>1. node.at # "ended" /\ UNCHANGED <<calls, segment, ledger>>
    BY <1>5 DEF NobodyDecides, Resumes, CallFails
  <2> QED
    BY <1>0, <2>1, CallsUndisturbed
<1>6. CASE RunsGranted
  BY <1>6, RunsGrantedKeepsCInv
<1>7. CASE Dies
  BY <1>7, DiesKeepsCInv
<1> QED
  BY <1>1, <1>2, <1>3, <1>4, <1>5, <1>6, <1>7 DEF Next

(* For any tools, guarded or with effects in any combination, any decisions and any
   crashes, a call is run if and only if it was approved or needs no approval, and once
   more for each death of the process at most (ApprovalFilter, _resume, _call). *)
THEOREM CallsAreDecidedAndRun == Spec => []CallsMeetTheirDecision
<1>1. CInv => CallsMeetTheirDecision
  BY DEF CInv, CallsInOrder, InOrder, CallsMeetTheirDecision
<1>2. IInv => Types
  BY DEF IInv
<1> QED
  BY <1>1, <1>2, InitIInv, IInvIsInductive, InitCInv, CInvIsInductive, PTL DEF Spec

----------------------------------------------------------------------------
(* The answers, and what is reported of them *)

Answer == [model : Models, fate : Fates]
Failure == [attempt : Nat, cause : Fates, action : {"none", "repair", "retry", "fallback"}]

\* The rejected answers of a segment that has n answers, the first of them after the
\* first `offset` of the node's, are the invalid ones.
Tells(rejected, n, offset, list) ==
    /\ rejected \in Seq(Nat)
    /\ \A k \in DOMAIN rejected :
          rejected[k] \in 1 .. n /\ \A j \in 1 .. k - 1 : rejected[j] < rejected[k]
    /\ \A j \in 1 .. n :
          /\ list[offset + j].fate \notin Outcomes
          /\ list[offset + j].fate = "invalid" <=> \E k \in DOMAIN rejected : rejected[k] = j

\* The first half of what is to be shown, and the second.
FailuresAreSound ==
    \A k \in DOMAIN failures :
        /\ failures[k].attempt \in Failed
        /\ failures[k].cause = answers[failures[k].attempt].fate
        /\ \A j \in 1 .. k - 1 : failures[j].attempt < failures[k].attempt
        /\ \A i \in Failed : i < failures[k].attempt => Reported(i)
AllIsReported == \A i \in Failed : Reported(i)

\* While the node runs, what its finished segments had rejected has been reported, and
\* nothing of the segment that runs.
SegmentsAreReported ==
    /\ node.result = "none"
    /\ segment.answered \in Nat /\ Len(answers) = state.offset + segment.answered
    /\ Tells(segment.rejected, segment.answered, state.offset, answers)
    /\ \A k \in DOMAIN failures : failures[k].attempt <= state.offset
    /\ \A i \in Failed : i <= state.offset => Reported(i)
    /\ node.at # "asking" \/ CallsAt({"cleared"}) # {} => segment.answered = 0

HInv ==
    /\ answers \in Seq(Answer) /\ failures \in Seq(Failure) /\ state.offset \in Nat
    /\ FailuresAreSound
    /\ node.result \in {"succeeded", "failed"} => AllIsReported
    /\ node.at # "ended" => SegmentsAreReported

----------------------------------------------------------------------------
(* A segment that goes on has one more answer, rejected or not. *)
LEMMA OneMoreAnswer ==
    ASSUME NEW rejected, NEW n \in Nat, NEW offset \in Nat, NEW list \in Seq(Answer),
           Len(list) = offset + n, Tells(rejected, n, offset, list),
           NEW answer \in Answer, answer.fate \notin Outcomes
    PROVE  /\ answer.fate # "invalid" => Tells(rejected, n + 1, offset, Append(list, answer))
           /\ answer.fate = "invalid" =>
                 Tells(Append(rejected, n + 1), n + 1, offset, Append(list, answer))
<1> DEFINE more == Append(list, answer)
<1>1. /\ \A j \in 1 .. n : more[offset + j] = list[offset + j]
      /\ more[offset + (n + 1)] = answer
  BY AppendProperties
<1>2. ASSUME answer.fate # "invalid" PROVE Tells(rejected, n + 1, offset, more)
  <2>1. \A k \in DOMAIN rejected : rejected[k] # n + 1 /\ rejected[k] \in 1 .. n + 1
    BY DEF Tells
  <2>2. ASSUME NEW j \in 1 .. n + 1
        PROVE  /\ more[offset + j].fate \notin Outcomes
               /\ more[offset + j].fate = "invalid" <=> \E k \in DOMAIN rejected : rejected[k] = j
    <3>1. CASE j \in 1 .. n
      BY <1>1, <3>1 DEF Tells
    <3>2. CASE j = n + 1
      BY <1>1, <1>2, <2>1, <3>2
    <3> QED
      BY <3>1, <3>2
  <2> QED
    BY <2>1, <2>2 DEF Tells
<1>3. ASSUME answer.fate = "invalid" PROVE Tells(Append(rejected, n + 1), n + 1, offset, more)
  <2> DEFINE longer == Append(rejected, n + 1)
  <2>1. rejected \in Seq(Nat) /\ \A k \in DOMAIN rejected : rejected[k] \in 1 .. n
    BY DEF Tells
  <2>2. /\ longer \in Seq(Nat) /\ Len(longer) = Len(rejected) + 1
        /\ longer[Len(rejected) + 1] = n + 1
        /\ \A k \in DOMAIN rejected : k \in DOMAIN longer /\ longer[k] = rejected[k]
        /\ \A k \in DOMAIN longer : k \in DOMAIN rejected \/ k = Len(rejected) + 1
        /\ Len(rejected) + 1 \in DOMAIN longer
    BY <2>1, AppendProperties
  <2> HIDE DEF longer
  <2>3. ASSUME NEW k \in DOMAIN longer
        PROVE  longer[k] \in 1 .. n + 1 /\ \A j \in 1 .. k - 1 : longer[j] < longer[k]
    <3>1. CASE k \in DOMAIN rejected
      <4>1. \A j \in 1 .. k - 1 : j \in DOMAIN rejected
        BY <2>1, <3>1
      <4>2. /\ rejected[k] \in 1 .. n
            /\ \A j \in 1 .. k - 1 : rejected[j] < rejected[k]
        BY <3>1 DEF Tells
      <4>3. longer[k] = rejected[k] /\ \A j \in 1 .. k - 1 : longer[j] = rejected[j]
        BY <2>2, <3>1, <4>1
      <4> QED
        BY <4>2, <4>3
    <3>2. CASE k = Len(rejected) + 1
      <4>1. \A j \in 1 .. k - 1 : j \in DOMAIN rejected
        BY <2>1, <3>2
      <4> QED
        BY <2>1, <2>2, <3>2, <4>1
    <3> QED
      BY <2>2, <3>1, <3>2
  <2>4. ASSUME NEW j \in 1 .. n + 1
        PROVE  /\ more[offset + j].fate \notin Outcomes
               /\ more[offset + j].fate = "invalid" <=> \E k \in DOMAIN longer : longer[k] = j
    <3>1. CASE j \in 1 .. n
      <4>1. (\E k \in DOMAIN longer : longer[k] = j) <=> \E k \in DOMAIN rejected : rejected[k] = j
        BY <2>2, <3>1
      <4> QED
        BY <1>1, <3>1, <4>1 DEF Tells
    <3>2. CASE j = n + 1
      BY <1>1, <1>3, <2>2, <3>2
    <3> QED
      BY <3>1, <3>2
  <2> QED
    BY <2>2, <2>3, <2>4 DEF Tells, longer
<1> QED
  BY <1>2, <1>3

(* The events of a segment are its failed answers, in their order. *)
LEMMA EventsTell ==
    ASSUME NEW rejected, NEW n \in Nat, state.offset \in Nat, NEW list \in Seq(Answer),
           Len(list) >= state.offset + n, Tells(rejected, n, state.offset, list),
           NEW exhausted \in BOOLEAN
    PROVE  /\ Events(rejected, exhausted) \in Seq(Failure)
           /\ DOMAIN Events(rejected, exhausted) = DOMAIN rejected
           /\ \A k \in DOMAIN rejected :
                 LET e == Events(rejected, exhausted)[k] IN
                 /\ e.attempt = state.offset + rejected[k]
                 /\ e.attempt \in DOMAIN list /\ e.attempt <= state.offset + n
                 /\ list[e.attempt].fate = "invalid"
                 /\ e.cause = "invalid" /\ e.action \in {"none", "repair"}
<1> DEFINE E == Events(rejected, exhausted)
<1>1. /\ rejected \in Seq(Nat) /\ DOMAIN rejected = 1 .. Len(rejected) /\ Len(rejected) \in Nat
      /\ \A k \in DOMAIN rejected : rejected[k] \in 1 .. n
  BY DEF Tells
<1>2. /\ DOMAIN E = DOMAIN rejected
      /\ \A k \in DOMAIN rejected :
            /\ E[k].attempt = state.offset + rejected[k]
            /\ E[k].cause = "invalid" /\ E[k].action \in {"none", "repair"}
  BY DEF Events
<1>3. ASSUME NEW k \in DOMAIN rejected
      PROVE  /\ E[k] \in Failure /\ E[k].attempt \in DOMAIN list
             /\ E[k].attempt <= state.offset + n
             /\ list[E[k].attempt].fate = "invalid"
  <2>1. rejected[k] \in 1 .. n /\ list[state.offset + rejected[k]].fate = "invalid"
    BY <1>1 DEF Tells
  <2>2. /\ state.offset + rejected[k] \in Nat
        /\ state.offset + rejected[k] \in DOMAIN list
        /\ state.offset + rejected[k] <= state.offset + n
    BY <2>1
  <2>3. E[k] \in Failure
    BY <2>2 DEF Events, Failure, Fates
  <2> QED
    BY <1>2, <2>1, <2>2, <2>3
<1>4. E \in Seq(Failure)
  <2>1. E = [k \in 1 .. Len(rejected) |-> E[k]]
    BY <1>1 DEF Events
  <2> HIDE DEF E
  <2>2. [k \in 1 .. Len(rejected) |-> E[k]] \in Seq(Failure)
    BY <1>1, <1>3, IsASeq
  <2> QED
    BY <2>1, <2>2
<1> QED
  BY <1>2, <1>3, <1>4

\* What a step reports of the answers that follow the first `offset`: all that failed.
ReportsRest(E, offset, list) ==
    /\ E \in Seq(Failure)
    /\ \A k \in DOMAIN E :
          /\ E[k].attempt \in DOMAIN list /\ E[k].attempt > offset
          /\ list[E[k].attempt].fate \in Outcomes \cup {"invalid"}
          /\ E[k].cause = list[E[k].attempt].fate
          /\ \A j \in 1 .. k - 1 : E[j].attempt < E[k].attempt
    /\ \A i \in DOMAIN list :
          i > offset /\ list[i].fate \in Outcomes \cup {"invalid"}
              => \E k \in DOMAIN E : E[k].attempt = i

(* The events of a segment are all there is to report, if it has no other failure. *)
LEMMA EventsReportRest ==
    ASSUME NEW rejected, NEW n \in Nat, state.offset \in Nat, NEW list \in Seq(Answer),
           Len(list) = state.offset + n, Tells(rejected, n, state.offset, list),
           NEW exhausted \in BOOLEAN
    PROVE  ReportsRest(Events(rejected, exhausted), state.offset, list)
<1> DEFINE E == Events(rejected, exhausted)
<1>1. /\ E \in Seq(Failure) /\ DOMAIN E = DOMAIN rejected
      /\ \A k \in DOMAIN rejected :
            /\ E[k].attempt = state.offset + rejected[k] /\ E[k].attempt \in DOMAIN list
            /\ list[E[k].attempt].fate = "invalid" /\ E[k].cause = "invalid"
  BY EventsTell
<1> HIDE DEF E
<1>2. rejected \in Seq(Nat) /\ \A k \in DOMAIN rejected : rejected[k] \in 1 .. n
  BY DEF Tells
<1>3. ASSUME NEW k \in DOMAIN E, NEW j \in 1 .. k - 1 PROVE E[j].attempt < E[k].attempt
  <2>1. k \in DOMAIN rejected /\ j \in DOMAIN rejected
    BY <1>1, <1>2
  <2>2. rejected[j] < rejected[k]
    BY <2>1 DEF Tells
  <2>3. rejected[j] \in Nat /\ rejected[k] \in Nat
    BY <1>2, <2>1
  <2>4. E[j].attempt = state.offset + rejected[j] /\ E[k].attempt = state.offset + rejected[k]
    BY <1>1, <2>1
  <2> QED
    BY <2>2, <2>3, <2>4
<1>4. ASSUME NEW i \in DOMAIN list, i > state.offset,
             list[i].fate \in Outcomes \cup {"invalid"}
      PROVE  \E k \in DOMAIN E : E[k].attempt = i
  <2>1. i - state.offset \in 1 .. n /\ i = state.offset + (i - state.offset)
    BY <1>4
  <2>2. PICK k \in DOMAIN rejected : rejected[k] = i - state.offset
    BY <1>4, <2>1 DEF Tells
  <2> QED
    BY <1>1, <2>1, <2>2
<1>5. \A k \in DOMAIN E : E[k].attempt > state.offset
  BY <1>1, <1>2
<1> QED
  BY <1>1, <1>3, <1>4, <1>5 DEF ReportsRest, E

(* The answers there were are the answers there are. *)
Extends(list) == /\ list \in Seq(Answer) /\ Len(list) >= Len(answers)
                 /\ \A i \in DOMAIN answers : i \in DOMAIN list /\ list[i] = answers[i]

(* Then the step has reported everything. *)
LEMMA AllReported ==
    ASSUME HInv, node.at # "ended", Extends(answers'),
           NEW E, ReportsRest(E, state.offset, answers'), failures' = failures \o E
    PROVE  failures' \in Seq(Failure) /\ FailuresAreSound' /\ AllIsReported'
<1>1. /\ failures \in Seq(Failure) /\ answers \in Seq(Answer) /\ state.offset \in Nat
      /\ FailuresAreSound /\ E \in Seq(Failure) /\ answers' \in Seq(Answer)
      /\ \A k \in DOMAIN failures : failures[k].attempt <= state.offset
      /\ \A i \in Failed : i <= state.offset => Reported(i)
      /\ state.offset <= Len(answers)
  <2>1. SegmentsAreReported /\ state.offset \in Nat
    BY DEF HInv
  <2>2. state.offset <= Len(answers)
    BY <2>1 DEF SegmentsAreReported
  <2> QED
    BY <2>1, <2>2 DEF HInv, SegmentsAreReported, ReportsRest, Extends
<1>2. /\ failures' \in Seq(Failure) /\ Len(failures') = Len(failures) + Len(E)
      /\ \A k \in DOMAIN failures : k \in DOMAIN failures' /\ failures'[k] = failures[k]
      /\ \A k \in DOMAIN E : Len(failures) + k \in DOMAIN failures'
                             /\ failures'[Len(failures) + k] = E[k]
      /\ \A k \in DOMAIN failures' : k \notin DOMAIN failures =>
            k - Len(failures) \in DOMAIN E /\ failures'[k] = E[k - Len(failures)]
  BY <1>1, ConcatProperties
<1>3. ASSUME NEW i \in Failed' PROVE Reported(i)'
  <2>1. i \in DOMAIN answers' /\ answers'[i].fate \in Outcomes \cup {"invalid"} /\ i \in Nat
    BY <1>1 DEF Failed
  <2>2. CASE i <= state.offset
    <3>1. i \in DOMAIN answers /\ answers'[i] = answers[i]
      BY <1>1, <2>1, <2>2 DEF Extends
    <3>2. i \in Failed
      BY <2>1, <3>1 DEF Failed
    <3>3. PICK k \in DOMAIN failures : failures[k].attempt = i
      BY <1>1, <2>2, <3>2 DEF Reported
    <3> QED
      BY <1>2, <3>3 DEF Reported
  <2>3. CASE i > state.offset
    <3>1. PICK k \in DOMAIN E : E[k].attempt = i
      BY <2>1, <2>3 DEF ReportsRest
    <3> QED
      BY <1>2, <3>1 DEF Reported
  <2> QED
    BY <1>1, <2>1, <2>2, <2>3
<1>4. ASSUME NEW k \in DOMAIN failures'
      PROVE  /\ failures'[k].attempt \in Failed'
             /\ failures'[k].cause = answers'[failures'[k].attempt].fate
             /\ \A j \in 1 .. k - 1 : failures'[j].attempt < failures'[k].attempt
  <2>1. CASE k \in DOMAIN failures
    <3>1. failures'[k] = failures[k] /\ failures[k].attempt \in Failed
          /\ failures[k].cause = answers[failures[k].attempt].fate
      BY <1>1, <1>2, <2>1 DEF FailuresAreSound
    <3>2. \A j \in 1 .. k - 1 : j \in DOMAIN failures /\ failures'[j] = failures[j]
      BY <1>1, <1>2, <2>1
    <3>3. \A j \in 1 .. k - 1 : failures'[j].attempt < failures'[k].attempt
      BY <1>1, <2>1, <3>1, <3>2 DEF FailuresAreSound
    <3> QED
      BY <3>1, <3>3 DEF Failed, Extends
  <2>2. CASE k \notin DOMAIN failures
    <3> DEFINE m == k - Len(failures)
    <3>1. m \in DOMAIN E /\ failures'[k] = E[m]
      BY <1>2, <2>2
    <3>2. /\ E[m].attempt \in DOMAIN answers' /\ E[m].attempt > state.offset
          /\ answers'[E[m].attempt].fate \in Outcomes \cup {"invalid"}
          /\ E[m].cause = answers'[E[m].attempt].fate
          /\ \A j \in 1 .. m - 1 : E[j].attempt < E[m].attempt
      BY <3>1 DEF ReportsRest
    <3>3. ASSUME NEW j \in 1 .. k - 1 PROVE failures'[j].attempt < failures'[k].attempt
      <4>1. CASE j \in DOMAIN failures
        <5>1. failures'[j] = failures[j] /\ failures[j].attempt <= state.offset
              /\ failures[j].attempt \in Nat
          <6>1. failures[j] \in Failure
            BY <1>1, <4>1
          <6> QED
            BY <1>1, <1>2, <4>1, <6>1 DEF Failure
        <5>2. E[m].attempt \in Nat
          BY <1>1, <3>2
        <5>3. failures[j].attempt < E[m].attempt
          <6>1. state.offset \in Nat
            BY <1>1
          <6>2. E[m].attempt > state.offset
            BY <3>2
          <6> HIDE DEF m
          <6> QED
            BY <5>1, <5>2, <6>1, <6>2
        <5> QED
          BY <3>1, <5>1, <5>3
      <4>2. CASE j \notin DOMAIN failures
        <5>1. j - Len(failures) \in 1 .. m - 1 /\ j \in DOMAIN failures'
          BY <1>1, <1>2, <4>2
        <5>2. failures'[j] = E[j - Len(failures)]
          BY <1>2, <4>2, <5>1
        <5> QED
          BY <3>1, <3>2, <5>1, <5>2
      <4> QED
        BY <4>1, <4>2
    <3> QED
      BY <3>1, <3>2, <3>3 DEF Failed
  <2> QED
    BY <2>1, <2>2
<1> QED
  BY <1>2, <1>3, <1>4 DEF FailuresAreSound, AllIsReported

(* A segment that ends hands everything on as reported: the node ends, or the next
   segment begins. *)
LEMMA SegmentEnds ==
    ASSUME HInv, node.at # "ended", Extends(answers'),
           NEW E, ReportsRest(E, state.offset, answers'), failures' = failures \o E,
           \/ node'.at = "ended" /\ state'.offset \in Nat
           \/ /\ node'.at # "ended" /\ node'.result = "none"
              /\ state'.offset = Len(answers') /\ segment' = NewSegment
    PROVE  HInv'
<1>1. failures' \in Seq(Failure) /\ FailuresAreSound' /\ AllIsReported'
      /\ answers' \in Seq(Answer)
  BY AllReported DEF Extends
<1>2. CASE node'.at = "ended" /\ state'.offset \in Nat
  BY <1>1, <1>2 DEF HInv
<1>3. CASE /\ node'.at # "ended" /\ node'.result = "none"
           /\ state'.offset = Len(answers') /\ segment' = NewSegment
  <2>1. segment'.answered = 0 /\ segment'.rejected = <<>> /\ state'.offset \in Nat
    BY <1>1, <1>3, NewSegmentIsEmpty
  <2>2. Tells(segment'.rejected, segment'.answered, state'.offset, answers')
    BY <2>1 DEF Tells
  <2>3. \A k \in DOMAIN failures' : failures'[k].attempt <= state'.offset
    <3> SUFFICES ASSUME NEW k \in DOMAIN failures' PROVE failures'[k].attempt <= state'.offset
      OBVIOUS
    <3>1. failures'[k].attempt \in DOMAIN answers'
      BY <1>1 DEF FailuresAreSound, Failed
    <3>2. DOMAIN answers' = 1 .. state'.offset
      BY <1>1, <1>3
    <3> QED
      BY <2>1, <3>1, <3>2
  <2>4. SegmentsAreReported'
    BY <1>1, <1>3, <2>1, <2>2, <2>3 DEF SegmentsAreReported, AllIsReported
  <2> QED
    BY <1>1, <1>3, <2>1, <2>4 DEF HInv
<1> QED
  BY <1>2, <1>3

(* One more answer of a model of the chain. *)
LEMMA AnswerComes ==
    ASSUME HInv, Types, NEW p, Asks(p), NEW fate \in Fates, Answers(p, fate)
    PROVE  /\ [model |-> p, fate |-> fate] \in Answer
           /\ answers' = Append(answers, [model |-> p, fate |-> fate])
           /\ Extends(answers') /\ Len(answers') = Len(answers) + 1
           /\ answers'[Len(answers) + 1] = [model |-> p, fate |-> fate]
           /\ CallsAt({"cleared"}) = {}
           /\ node.at = "asking" /\ SegmentsAreReported
           /\ answers \in Seq(Answer) /\ Len(answers) \in Nat
<1>1. p \in state.slot.index .. LastPosition /\ answers \in Seq(Answer)
  BY DEF Asks, HInv
<1>2. [model |-> p, fate |-> fate] \in Answer
  BY <1>1, Numbers DEF Answer, Models
<1>3. answers' = Append(answers, [model |-> p, fate |-> fate])
  BY DEF Answers
<1>4. /\ answers' \in Seq(Answer) /\ Len(answers') = Len(answers) + 1
      /\ answers'[Len(answers) + 1] = [model |-> p, fate |-> fate]
      /\ \A i \in DOMAIN answers : i \in DOMAIN answers' /\ answers'[i] = answers[i]
  BY <1>1, <1>2, <1>3, AppendProperties
<1> QED
  BY <1>1, <1>2, <1>3, <1>4 DEF Extends, Asks, HInv

(* What is reported stays sound when answers follow that are not. *)
LEMMA SoundAsAnswersFollow ==
    ASSUME HInv, node.at # "ended", Extends(answers'), failures' = failures
    PROVE  /\ FailuresAreSound'
           /\ \A i \in Failed' : i <= state.offset => Reported(i)'
<1>1. /\ SegmentsAreReported /\ FailuresAreSound /\ state.offset \in Nat
      /\ answers \in Seq(Answer) /\ answers' \in Seq(Answer)
      /\ state.offset <= Len(answers)
  <2>1. SegmentsAreReported /\ state.offset \in Nat
    BY DEF HInv
  <2>2. state.offset <= Len(answers)
    BY <2>1 DEF SegmentsAreReported
  <2> QED
    BY <2>1, <2>2 DEF HInv, Extends
<1>2. ASSUME NEW i \in Failed', i <= state.offset PROVE i \in Failed /\ Reported(i) /\ Reported(i)'
  <2>1. i \in DOMAIN answers /\ answers'[i] = answers[i]
    BY <1>1, <1>2 DEF Failed, Extends
  <2>2. i \in Failed
    BY <2>1, <1>2 DEF Failed
  <2> QED
    BY <1>1, <1>2, <2>2 DEF Reported, SegmentsAreReported
<1>3. ASSUME NEW k \in DOMAIN failures
      PROVE  /\ failures[k].attempt \in Failed'
             /\ failures[k].cause = answers'[failures[k].attempt].fate
             /\ \A j \in 1 .. k - 1 : failures[j].attempt < failures[k].attempt
             /\ \A i \in Failed' : i < failures[k].attempt => Reported(i)'
  <2>1. failures[k].attempt \in Failed /\ failures[k].attempt <= state.offset
        /\ failures[k].cause = answers[failures[k].attempt].fate
        /\ \A j \in 1 .. k - 1 : failures[j].attempt < failures[k].attempt
    BY <1>1 DEF FailuresAreSound, SegmentsAreReported
  <2>2. failures[k].attempt \in Nat /\ Failed' \subseteq Nat
    BY <1>1, <2>1 DEF Failed
  <2>3. \A i \in Failed' : i < failures[k].attempt => i <= state.offset
    BY <1>1, <2>1, <2>2
  <2> QED
    BY <2>1, <2>3, <1>2 DEF Failed, Extends
<1> QED
  BY <1>2, <1>3 DEF FailuresAreSound

(* A segment that goes on with one more answer. *)
LEMMA SegmentGoesOn ==
    ASSUME HInv, Types, NEW p, Asks(p), NEW fate \in {"invalid", "tools"}, Answers(p, fate),
           UNCHANGED <<node, failures>>, state'.offset = state.offset,
           segment'.answered = segment.answered + 1,
           segment'.rejected = IF fate = "invalid"
                               THEN Append(segment.rejected, segment.answered + 1)
                               ELSE segment.rejected,
           CallsAt({"cleared"})' = {}
    PROVE  HInv'
<1>1. fate \in Fates /\ fate \notin Outcomes
  BY LlmAssumption DEF Fates
<1>2. /\ [model |-> p, fate |-> fate] \in Answer
      /\ answers' = Append(answers, [model |-> p, fate |-> fate])
      /\ Extends(answers') /\ Len(answers') = Len(answers) + 1
      /\ node.at = "asking" /\ SegmentsAreReported
      /\ answers \in Seq(Answer) /\ answers' \in Seq(Answer) /\ state.offset \in Nat
  BY <1>1, AnswerComes DEF HInv, Extends
<1>3. /\ segment.answered \in Nat /\ Len(answers) = state.offset + segment.answered
      /\ Tells(segment.rejected, segment.answered, state.offset, answers)
  BY <1>2 DEF SegmentsAreReported
<1>4. Tells(segment'.rejected, segment'.answered, state'.offset, answers')
  <2> DEFINE answer == [model |-> p, fate |-> fate]
  <2>1. answer \in Answer /\ answer.fate = fate /\ answers' = Append(answers, answer)
    BY <1>2
  <2> HIDE DEF answer
  <2>2. /\ fate # "invalid" =>
              Tells(segment.rejected, segment.answered + 1, state.offset, answers')
        /\ fate = "invalid" =>
              Tells(Append(segment.rejected, segment.answered + 1), segment.answered + 1,
                    state.offset, answers')
    <3>1. /\ answers \in Seq(Answer) /\ state.offset \in Nat /\ answer \in Answer
          /\ answer.fate \notin Outcomes
      BY <1>1, <1>2, <2>1
    <3>2. LET list == Append(answers, answer) IN
          /\ answer.fate # "invalid" =>
                Tells(segment.rejected, segment.answered + 1, state.offset, list)
          /\ answer.fate = "invalid" =>
                Tells(Append(segment.rejected, segment.answered + 1), segment.answered + 1,
                      state.offset, list)
      BY <1>3, <3>1, OneMoreAnswer
    <3> QED
      BY <2>1, <3>2
  <2>3. CASE fate = "invalid"
    BY <2>2, <2>3
  <2>4. CASE fate # "invalid"
    BY <2>2, <2>4
  <2> QED
    BY <2>3, <2>4
<1>5. FailuresAreSound' /\ \A i \in Failed' : i <= state.offset => Reported(i)'
  BY <1>2, SoundAsAnswersFollow
<1>6. SegmentsAreReported'
  BY <1>2, <1>3, <1>4, <1>5 DEF SegmentsAreReported
<1> QED
  BY <1>2, <1>5, <1>6 DEF HInv, SegmentsAreReported

LEMMA CompletesKeepsHInv == ASSUME NEW p PROVE HInv /\ Types /\ Completes(p) => HInv'
<1> SUFFICES ASSUME HInv, Types, Completes(p) PROVE HInv'
  OBVIOUS
<1> DEFINE answer == [model |-> p, fate |-> "output"]
<1>1. /\ Asks(p) /\ Answers(p, "output") /\ Ends("succeeded") /\ state' = state
      /\ failures' = failures \o Events(segment.rejected, FALSE)
      /\ "output" \in Fates /\ "output" \notin Outcomes
  BY LlmAssumption DEF Completes, Fates
<1>2. /\ answer \in Answer /\ answers' = Append(answers, answer) /\ Extends(answers')
      /\ SegmentsAreReported /\ answers \in Seq(Answer) /\ answers' \in Seq(Answer)
      /\ Len(answers') = Len(answers) + 1 /\ state.offset \in Nat /\ node.at # "ended"
  BY <1>1, AnswerComes DEF HInv, Extends
<1>3. /\ segment.answered \in Nat /\ Len(answers) = state.offset + segment.answered
      /\ Tells(segment.rejected, segment.answered + 1, state.offset, answers')
  BY <1>1, <1>2, OneMoreAnswer DEF SegmentsAreReported
<1>4. ReportsRest(Events(segment.rejected, FALSE), state.offset, answers')
  <2>1. PICK n \in Nat : n = segment.answered + 1
    BY <1>3
  <2>2. Len(answers') = state.offset + n /\ Tells(segment.rejected, n, state.offset, answers')
    BY <1>2, <1>3, <2>1
  <2> QED
    BY <1>2, <2>2, EventsReportRest
<1> QED
  BY <1>1, <1>2, <1>4, EndsAtEnded, SegmentEnds

LEMMA RejectsKeepsHInv == ASSUME NEW p PROVE HInv /\ Types /\ Rejects(p) => HInv'
<1> SUFFICES ASSUME HInv, Types, Rejects(p) PROVE HInv'
  OBVIOUS
<1> DEFINE answer == [model |-> p, fate |-> "invalid"]
           rejected == Append(segment.rejected, segment.answered + 1)
<1>1. /\ Asks(p) /\ Answers(p, "invalid") /\ state' = state /\ calls' = calls
      /\ "invalid" \in Fates /\ "invalid" \notin Outcomes
  BY LlmAssumption DEF Rejects, Fates
<1>2. /\ answer \in Answer /\ answers' = Append(answers, answer) /\ Extends(answers')
      /\ SegmentsAreReported /\ answers \in Seq(Answer) /\ answers' \in Seq(Answer)
      /\ Len(answers') = Len(answers) + 1 /\ state.offset \in Nat /\ node.at # "ended"
      /\ CallsAt({"cleared"}) = {}
  BY <1>1, AnswerComes DEF HInv, Extends
<1>3. CASE /\ segment' = [segment EXCEPT !.answered = @ + 1, !.rejected = rejected]
           /\ UNCHANGED <<node, failures>>
  <2>1. segment'.answered = segment.answered + 1 /\ segment'.rejected = rejected
    BY <1>3 DEF Types
  <2>2. CallsAt({"cleared"})' = {}
    BY <1>1, <1>2 DEF CallsAt
  <2> QED
    BY <1>1, <1>3, <2>1, <2>2, SegmentGoesOn
<1>4. CASE failures' = failures \o Events(rejected, TRUE) /\ Ends("failed")
  <2>1. /\ segment.answered \in Nat /\ Len(answers) = state.offset + segment.answered
        /\ Tells(rejected, segment.answered + 1, state.offset, answers')
    BY <1>1, <1>2, OneMoreAnswer DEF SegmentsAreReported
  <2>2. ReportsRest(Events(rejected, TRUE), state.offset, answers')
    <3>1. PICK n \in Nat : n = segment.answered + 1
      BY <2>1
    <3>2. Len(answers') = state.offset + n /\ Tells(rejected, n, state.offset, answers')
      BY <1>2, <2>1, <3>1
    <3> HIDE DEF rejected
    <3> QED
      BY <1>2, <3>2, EventsReportRest
  <2> QED
    BY <1>1, <1>2, <1>4, <2>2, EndsAtEnded, SegmentEnds
<1> QED
  BY <1>3, <1>4 DEF Rejects

(* What is done about a bad outcome is one of three things. *)
LEMMA OutcomeStepActs ==
    ASSUME NEW p, NEW outcome
    PROVE  OutcomeStep(p, outcome).action \in {"none", "retry", "fallback"}
BY DEF OutcomeStep

(* The last answer of a segment that ended with a bad outcome comes after those it had
   rejected. *)
LEMMA DropReportsRest ==
    ASSUME HInv, Types, NEW p, NEW outcome \in Outcomes, Asks(p), Answers(p, outcome),
           NEW failure \in Failure, failure.cause = outcome,
           failure.attempt = state.offset + segment.answered + 1
    PROVE  ReportsRest(Events(segment.rejected, FALSE) \o <<failure>>, state.offset, answers')
<1> DEFINE n == segment.answered
           answer == [model |-> p, fate |-> outcome]
           R == Events(segment.rejected, FALSE)
           E == R \o <<failure>>
<1>1. /\ answer \in Answer /\ answers' = Append(answers, answer) /\ Extends(answers')
      /\ SegmentsAreReported /\ answers \in Seq(Answer) /\ answers' \in Seq(Answer)
      /\ Len(answers') = Len(answers) + 1 /\ state.offset \in Nat
      /\ answers'[Len(answers) + 1] = answer
  BY AnswerComes DEF HInv, Extends, Fates
<1>2. /\ n \in Nat /\ Len(answers) = state.offset + n
      /\ Tells(segment.rejected, n, state.offset, answers)
  BY <1>1 DEF SegmentsAreReported
<1>3. ReportsRest(R, state.offset, answers)
  BY <1>1, <1>2, EventsReportRest
<1>4. R \in Seq(Failure) /\ Len(R) \in Nat /\ DOMAIN R = 1 .. Len(R)
  <2>1. R \in Seq(Failure)
    BY <1>3 DEF ReportsRest
  <2> QED
    BY <2>1, LenProperties
<1> HIDE DEF R
<1>5. /\ E \in Seq(Failure) /\ Len(E) = Len(R) + 1 /\ E[Len(R) + 1] = failure
      /\ \A k \in DOMAIN R : k \in DOMAIN E /\ E[k] = R[k]
      /\ \A k \in DOMAIN E : k \in DOMAIN R \/ k = Len(R) + 1
      /\ Len(R) + 1 \in DOMAIN E
  BY <1>4, ConcatProperties
<1> HIDE DEF E
<1>6. \A k \in DOMAIN R : R[k].attempt \in DOMAIN answers /\ R[k].attempt < failure.attempt
  <2>1. \A k \in DOMAIN R : R[k].attempt \in 1 .. state.offset + n
    BY <1>1, <1>2, <1>3 DEF ReportsRest
  <2> QED
    BY <1>1, <1>2, <2>1
<1>7. ASSUME NEW k \in DOMAIN E
      PROVE  /\ E[k].attempt \in DOMAIN answers' /\ E[k].attempt > state.offset
             /\ answers'[E[k].attempt].fate \in Outcomes \cup {"invalid"}
             /\ E[k].cause = answers'[E[k].attempt].fate
             /\ \A j \in 1 .. k - 1 : E[j].attempt < E[k].attempt
  <2>1. \A j \in 1 .. k - 1 : j \in DOMAIN R
    BY <1>4, <1>5
  <2>2. CASE k \in DOMAIN R
    BY <1>1, <1>3, <1>5, <1>6, <2>1, <2>2 DEF ReportsRest, Extends
  <2>3. CASE k = Len(R) + 1
    <3>1. E[k] = failure /\ \A j \in 1 .. k - 1 : E[j].attempt < E[k].attempt
      BY <1>5, <1>6, <2>1, <2>3
    <3> QED
      BY <1>1, <1>2, <3>1
  <2> QED
    BY <1>5, <2>2, <2>3
<1>8. ASSUME NEW i \in DOMAIN answers', i > state.offset,
             answers'[i].fate \in Outcomes \cup {"invalid"}
      PROVE  \E k \in DOMAIN E : E[k].attempt = i
  <2>1. CASE i \in DOMAIN answers
    <3>1. answers'[i] = answers[i]
      BY <1>1, <2>1 DEF Extends
    <3>2. PICK k \in DOMAIN R : R[k].attempt = i
      BY <1>3, <1>8, <2>1, <3>1 DEF ReportsRest
    <3> QED
      BY <1>5, <3>2
  <2>2. CASE i \notin DOMAIN answers
    <3>1. i = failure.attempt
      BY <1>1, <1>2, <2>2
    <3> QED
      BY <1>5, <3>1
  <2> QED
    BY <2>1, <2>2
<1> QED
  BY <1>5, <1>7, <1>8 DEF ReportsRest, E, R

LEMMA DropsKeepsHInv ==
    ASSUME NEW p, NEW outcome \in Outcomes PROVE HInv /\ Types /\ Drops(p, outcome) => HInv'
<1> SUFFICES ASSUME HInv, Types, Drops(p, outcome) PROVE HInv'
  OBVIOUS
<1> DEFINE step == OutcomeStep(p, outcome)
           failure == [attempt |-> state.offset + segment.answered + 1, cause |-> outcome,
                       action |-> step.action]
           R == Events(segment.rejected, FALSE)
           E == R \o <<failure>>
<1>1. /\ Asks(p) /\ Answers(p, outcome) /\ failures' = failures \o R \o <<failure>>
      /\ \/ Ends("failed") /\ UNCHANGED <<state, segment>>
         \/ /\ state' = [state EXCEPT !.offset = NextOffset, !.slot = step.slot, !.results = 0]
            /\ segment' = NewSegment /\ UNCHANGED node
      /\ outcome \in Fates
  BY DEF Drops, Fates
<1>2. /\ Extends(answers') /\ node.at # "ended" /\ node.result = "none"
      /\ Len(answers') = state.offset + segment.answered + 1
      /\ state.offset \in Nat /\ segment.answered \in Nat
      /\ Tells(segment.rejected, segment.answered, state.offset, answers)
      /\ answers \in Seq(Answer) /\ Len(answers) = state.offset + segment.answered
      /\ failures \in Seq(Failure)
  BY <1>1, AnswerComes DEF HInv, SegmentsAreReported
<1>3. failure \in Failure /\ failure.cause = outcome
      /\ failure.attempt = state.offset + segment.answered + 1
  BY <1>1, <1>2, OutcomeStepActs DEF Failure
<1> HIDE DEF step, failure
<1>4. ReportsRest(E, state.offset, answers')
  BY <1>1, <1>3, DropReportsRest
<1>5. failures' = failures \o E
  <2>1. R \in Seq(Failure)
    <3>1. ReportsRest(R, state.offset, answers)
      BY <1>2, EventsReportRest
    <3> HIDE DEF R
    <3> QED
      BY <3>1 DEF ReportsRest
  <2>2. <<failure>> \in Seq(Failure)
    BY <1>3
  <2> DEFINE last == <<failure>>
  <2> HIDE DEF R, last
  <2>3. (failures \o R) \o last = failures \o (R \o last)
    <3>1. failures \in Seq(Failure)
      BY <1>2
    <3>2. last \in Seq(Failure)
      BY <2>2 DEF last
    <3> QED
      BY <2>1, <3>1, <3>2, ConcatAssociative
  <2> QED
    BY <1>1, <2>3 DEF last
<1> HIDE DEF E
<1>6. CASE Ends("failed") /\ UNCHANGED <<state, segment>>
  BY <1>2, <1>4, <1>5, <1>6, EndsAtEnded, SegmentEnds
<1>7. CASE /\ state' = [state EXCEPT !.offset = NextOffset, !.slot = step.slot, !.results = 0]
           /\ segment' = NewSegment /\ UNCHANGED node
  <2>1. state'.offset = Len(answers')
    BY <1>2, <1>7 DEF Types, NextOffset
  <2> QED
    BY <1>2, <1>4, <1>5, <1>7, <2>1, SegmentEnds
<1> QED
  BY <1>1, <1>6, <1>7

(* An answer that calls tools, whatever comes of them. *)
LEMMA ToolsAnswerReportsRest ==
    ASSUME HInv, Types, NEW p, Asks(p), Answers(p, "tools"), NEW exhausted \in BOOLEAN
    PROVE  /\ Extends(answers') /\ node.at = "asking" /\ node.result = "none"
           /\ Len(answers') = state.offset + segment.answered + 1
           /\ ReportsRest(Events(segment.rejected, exhausted), state.offset, answers')
           /\ CallsAt({"cleared"}) = {} /\ state.offset \in Nat /\ segment.answered \in Nat
<1> DEFINE answer == [model |-> p, fate |-> "tools"]
<1>1. "tools" \in Fates /\ "tools" \notin Outcomes
  BY LlmAssumption DEF Fates
<1>2. /\ answer \in Answer /\ answers' = Append(answers, answer) /\ Extends(answers')
      /\ SegmentsAreReported /\ answers \in Seq(Answer) /\ answers' \in Seq(Answer)
      /\ Len(answers') = Len(answers) + 1 /\ state.offset \in Nat /\ node.at = "asking"
      /\ CallsAt({"cleared"}) = {}
  BY <1>1, AnswerComes DEF HInv, Extends
<1>3. /\ segment.answered \in Nat /\ Len(answers) = state.offset + segment.answered
      /\ node.result = "none"
      /\ Tells(segment.rejected, segment.answered + 1, state.offset, answers')
  BY <1>1, <1>2, OneMoreAnswer DEF SegmentsAreReported
<1>4. PICK n \in Nat : n = segment.answered + 1
  BY <1>3
<1>5. Len(answers') = state.offset + n /\ Tells(segment.rejected, n, state.offset, answers')
  BY <1>2, <1>3, <1>4
<1>6. ReportsRest(Events(segment.rejected, exhausted), state.offset, answers')
  BY <1>2, <1>5, EventsReportRest
<1> QED
  BY <1>2, <1>3, <1>6

LEMMA CallsToolsKeepsHInv ==
    ASSUME NEW p, NEW called \in SUBSET Tools
    PROVE  HInv /\ CInv /\ Types /\ CallsTools(p, called) => HInv'
<1> SUFFICES ASSUME HInv, CInv, Types, CallsTools(p, called) PROVE HInv'
  OBVIOUS
<1>1. /\ Asks(p) /\ Answers(p, "tools") /\ calls' = calls \o NewCalls(called)
  BY DEF CallsTools
<1>2. /\ Extends(answers') /\ node.at = "asking" /\ node.result = "none"
      /\ Len(answers') = state.offset + segment.answered + 1
      /\ ReportsRest(Events(segment.rejected, FALSE), state.offset, answers')
      /\ CallsAt({"cleared"}) = {} /\ state.offset \in Nat /\ segment.answered \in Nat
  BY <1>1, ToolsAnswerReportsRest
<1>3. CASE /\ segment' = [segment EXCEPT !.answered = @ + 1, !.called = @ + Cardinality(called)]
           /\ UNCHANGED <<node, state, failures>>
  <2>1. CallsAt({"cleared"})' = {}
    <3>1. /\ NewCalls(called) \in Seq(Call) /\ calls \in Seq(Call)
          /\ \A i \in DOMAIN NewCalls(called) : NewCalls(called)[i].at # "cleared"
      BY NewCallsAreInOrder DEF CInv, CallsInOrder
    <3> DEFINE new == NewCalls(called)
    <3> HIDE DEF new
    <3>2. \A i \in DOMAIN calls' :
             \/ i \in DOMAIN calls /\ calls'[i] = calls[i]
             \/ i - Len(calls) \in DOMAIN new /\ calls'[i] = new[i - Len(calls)]
      <4>1. calls \in Seq(Call) /\ new \in Seq(Call) /\ calls' = calls \o new
        BY <1>1, <3>1 DEF new
      <4> QED
        BY <4>1, ConcatProperties
    <3>3. \A i \in DOMAIN calls : calls[i].at # "cleared"
      BY <1>2 DEF CallsAt
    <3>4. \A i \in DOMAIN calls' : calls'[i].at # "cleared"
      BY <3>1, <3>2, <3>3 DEF new
    <3> QED
      BY <3>4 DEF CallsAt
  <2>2. segment'.answered = segment.answered + 1 /\ segment'.rejected = segment.rejected
    BY <1>3 DEF Types
  <2> QED
    BY <1>1, <1>3, <2>1, <2>2, SegmentGoesOn
<1>4. CASE Defers(called)
  <2>1. /\ failures' = failures \o Events(segment.rejected, FALSE) /\ segment' = NewSegment
        /\ node'.at # "ended" /\ node'.result = node.result
        /\ state'.offset = state.offset + segment.answered + 1
    BY <1>4 DEF Defers, Types, NextOffset
  <2> QED
    BY <1>2, <2>1, SegmentEnds
<1> QED
  BY <1>3, <1>4 DEF CallsTools

LEMMA ToolsEndKeepsHInv ==
    ASSUME NEW p, NEW called
    PROVE  HInv /\ Types /\ (CallsTooManyTools(p, called) \/ ToolRaises(p, called)) => HInv'
<1> SUFFICES ASSUME HInv, Types, CallsTooManyTools(p, called) \/ ToolRaises(p, called)
             PROVE  HInv'
  OBVIOUS
<1>1. Asks(p) /\ Answers(p, "tools") /\ state' = state
  BY DEF CallsTooManyTools, ToolRaises
<1>2. /\ Extends(answers') /\ node.at = "asking" /\ state.offset \in Nat
      /\ ReportsRest(Events(segment.rejected, TRUE), state.offset, answers')
  BY <1>1, ToolsAnswerReportsRest
<1>3. CASE CallsTooManyTools(p, called)
  <2>1. failures' = failures \o Events(segment.rejected, TRUE) /\ Ends("failed")
    BY <1>3 DEF CallsTooManyTools
  <2> QED
    BY <1>1, <1>2, <2>1, EndsAtEnded, SegmentEnds
<1>4. CASE ToolRaises(p, called)
  <2>1. failures' = failures /\ node'.at = "ended" /\ node'.result = "raised"
    BY <1>4 DEF ToolRaises, Ends
  <2>2. FailuresAreSound'
    BY <1>2, <2>1, SoundAsAnswersFollow
  <2> QED
    BY <1>1, <1>2, <2>1, <2>2 DEF HInv, Extends
<1> QED
  BY <1>3, <1>4

LEMMA CallFailsKeepsHInv == HInv /\ Types /\ CallFails => HInv'
<1> SUFFICES ASSUME HInv, Types, CallFails PROVE HInv'
  OBVIOUS
<1>1. /\ node.at = "asking" /\ state' = state /\ answers' = answers /\ Ends("failed")
      /\ failures' = failures \o Events(segment.rejected, TRUE)
  BY DEF CallFails
<1>2. /\ segment.answered \in Nat /\ Len(answers) = state.offset + segment.answered
      /\ Tells(segment.rejected, segment.answered, state.offset, answers)
      /\ answers \in Seq(Answer) /\ state.offset \in Nat
  BY <1>1 DEF HInv, SegmentsAreReported
<1>3. ReportsRest(Events(segment.rejected, TRUE), state.offset, answers)
  BY <1>2, EventsReportRest
<1>4. Extends(answers)
  BY <1>2 DEF Extends
<1> QED
  BY <1>1, <1>2, <1>3, <1>4, EndsAtEnded, SegmentEnds

(* The death of the process takes back the answers of the segment, which nobody has
   reported. *)
LEMMA DiesKeepsHInv == HInv /\ Types /\ Dies => HInv'
<1> SUFFICES ASSUME HInv, Types, Dies PROVE HInv'
  OBVIOUS
<1>1. /\ node.at = "asking" /\ node' = node /\ state' = state /\ failures' = failures
      /\ segment' = NewSegment
      /\ answers' = SubSeq(answers, 1, Len(answers) - segment.answered)
  BY DEF Dies
<1>2. /\ segment.answered \in Nat /\ Len(answers) = state.offset + segment.answered
      /\ answers \in Seq(Answer) /\ state.offset \in Nat /\ SegmentsAreReported
      /\ FailuresAreSound /\ failures \in Seq(Failure)
  BY <1>1 DEF HInv, SegmentsAreReported
<1>3. /\ answers' \in Seq(Answer) /\ Len(answers') = state.offset
      /\ \A i \in 1 .. state.offset : answers'[i] = answers[i]
  <2>1. Len(answers) - segment.answered = state.offset /\ state.offset <= Len(answers)
    BY <1>2
  <2> QED
    BY <1>1, <1>2, <2>1, SubSeqProperties
<1>4. \A i \in Failed' : i \in Failed /\ i <= state.offset /\ Reported(i)'
  <2>1. \A i \in Failed' : i \in Failed /\ i <= state.offset
    BY <1>2, <1>3 DEF Failed
  <2> QED
    BY <1>1, <1>2, <2>1 DEF SegmentsAreReported, Reported
<1>5. FailuresAreSound'
  <2>1. ASSUME NEW k \in DOMAIN failures
        PROVE  /\ failures[k].attempt \in Failed'
               /\ failures[k].cause = answers'[failures[k].attempt].fate
               /\ \A j \in 1 .. k - 1 : failures[j].attempt < failures[k].attempt
    <3>1. failures[k].attempt \in Failed /\ failures[k].attempt <= state.offset
          /\ failures[k].cause = answers[failures[k].attempt].fate
          /\ \A j \in 1 .. k - 1 : failures[j].attempt < failures[k].attempt
      BY <1>2 DEF FailuresAreSound, SegmentsAreReported
    <3>2. failures[k].attempt \in 1 .. state.offset
      BY <1>2, <3>1 DEF Failed
    <3> QED
      BY <1>3, <3>1, <3>2 DEF Failed
  <2> QED
    BY <1>1, <1>4, <2>1 DEF FailuresAreSound
<1>6. SegmentsAreReported'
  <2>1. segment'.answered = 0 /\ segment'.rejected = <<>>
    BY <1>1, NewSegmentIsEmpty
  <2>2. Tells(segment'.rejected, segment'.answered, state'.offset, answers')
    BY <2>1 DEF Tells
  <2> QED
    BY <1>1, <1>2, <1>3, <1>4, <2>1, <2>2 DEF SegmentsAreReported
<1> QED
  BY <1>1, <1>2, <1>3, <1>5, <1>6 DEF HInv, SegmentsAreReported

(* Where a segment has had no answer, the steps that ask for none disturb nothing. *)
LEMMA NothingAskedKeepsHInv ==
    ASSUME HInv, node.at # "ended", segment.answered = 0,
           UNCHANGED <<answers, failures>>, state'.offset = state.offset,
           segment'.answered = segment.answered, segment'.rejected = segment.rejected,
           node'.at = "ended" \/ node'.result = "none"
    PROVE  HInv'
<1>1. /\ SegmentsAreReported /\ Len(answers) = state.offset /\ state.offset \in Nat
      /\ answers \in Seq(Answer)
  BY DEF HInv, SegmentsAreReported
<1>2. FailuresAreSound'
  BY DEF HInv, FailuresAreSound, Failed, Reported
<1>3. AllIsReported'
  <2>1. \A i \in Failed : i <= state.offset
    BY <1>1 DEF Failed
  <2> QED
    BY <1>1, <2>1 DEF AllIsReported, SegmentsAreReported, Failed, Reported
<1>4. ASSUME node'.at # "ended" PROVE SegmentsAreReported'
  BY <1>1, <1>3, <1>4 DEF SegmentsAreReported, AllIsReported
<1> QED
  BY <1>2, <1>3, <1>4 DEF HInv

LEMMA BetweenKeepsHInv ==
    ASSUME HInv, Types,
           \/ \E granted : Decides(granted)
           \/ \E i : Called(i)
           \/ NobodyDecides \/ Resumes \/ RunsGranted
    PROVE  HInv'
<1>1. node.at # "ended" /\ UNCHANGED <<answers, failures>>
  BY DEF Decides, Called, Invokes, DiesInCall, CallRaises, NobodyDecides, Resumes, RunsGranted
<1>2. segment.answered = 0 /\ node.result = "none"
  <2>1. node.at # "asking" \/ CallsAt({"cleared"}) # {}
    BY DEF Decides, Called, Invokes, DiesInCall, CallRaises, NobodyDecides, Resumes, RunsGranted
  <2> QED
    BY <1>1, <2>1 DEF HInv, SegmentsAreReported
<1>3. /\ state'.offset = state.offset /\ segment'.answered = segment.answered
      /\ segment'.rejected = segment.rejected
  <2>1. CASE RunsGranted
    BY <2>1 DEF RunsGranted, Types
  <2>2. CASE ~RunsGranted
    BY <2>2 DEF Decides, Called, Invokes, DiesInCall, CallRaises, NobodyDecides, Resumes
  <2> QED
    BY <2>1, <2>2
<1>4. node'.at = "ended" \/ node'.result = "none"
  <2>1. CASE NobodyDecides \/ \E i : CallRaises(i)
    BY <2>1 DEF NobodyDecides, CallRaises, Ends
  <2>2. CASE ~(NobodyDecides \/ \E i : CallRaises(i))
    <3>1. node' = node \/ \E at : node' = [node EXCEPT !.at = at]
      BY <2>2 DEF Decides, Called, Invokes, DiesInCall, Resumes, RunsGranted
    <3> QED
      BY <1>2, <3>1 DEF Types
  <2> QED
    BY <2>1, <2>2
<1> QED
  BY <1>1, <1>2, <1>3, <1>4, NothingAskedKeepsHInv

LEMMA InitHInv == Init => HInv
<1> SUFFICES ASSUME Init PROVE HInv
  OBVIOUS
<1>1. /\ answers = <<>> /\ failures = <<>> /\ calls = <<>> /\ state.offset = 0
      /\ segment.answered = 0 /\ segment.rejected = <<>>
      /\ node.at = "asking" /\ node.result = "none"
  BY NewSegmentIsEmpty DEF Init
<1>2. FailuresAreSound /\ Failed = {}
  BY <1>1 DEF FailuresAreSound, Failed
<1>3. Tells(segment.rejected, segment.answered, state.offset, answers)
  BY <1>1 DEF Tells
<1>4. SegmentsAreReported
  BY <1>1, <1>2, <1>3 DEF SegmentsAreReported, CallsAt
<1> QED
  BY <1>1, <1>2, <1>4 DEF HInv

LEMMA HInvIsInductive == HInv /\ CInv /\ Types /\ [Next]_vars => HInv'
<1> SUFFICES ASSUME HInv, CInv, Types, [Next]_vars PROVE HInv'
  OBVIOUS
<1>1. CASE UNCHANGED vars
  BY <1>1 DEF vars, HInv, FailuresAreSound, AllIsReported, SegmentsAreReported, Failed, Reported,
     CallsAt
<1>2. ASSUME NEW p \in Models, Answered(p) PROVE HInv'
  <2>1. CASE Completes(p)
    BY <2>1, CompletesKeepsHInv
  <2>2. CASE Rejects(p)
    BY <2>2, RejectsKeepsHInv
  <2>3. CASE \E outcome \in Outcomes : Drops(p, outcome)
    BY <2>3, DropsKeepsHInv
  <2>4. ASSUME NEW called \in SUBSET Tools,
               CallsTools(p, called) \/ CallsTooManyTools(p, called) \/ ToolRaises(p, called)
        PROVE HInv'
    BY <2>4, CallsToolsKeepsHInv, ToolsEndKeepsHInv
  <2> QED
    BY <1>2, <2>1, <2>2, <2>3, <2>4 DEF Answered
<1>3. CASE \/ \E granted : Decides(granted)
           \/ \E i : Called(i)
           \/ NobodyDecides \/ Resumes \/ RunsGranted
  BY <1>3, BetweenKeepsHInv
<1>4. CASE CallFails
  BY <1>4, CallFailsKeepsHInv
<1>5. CASE Dies
  BY <1>5, DiesKeepsHInv
<1> QED
  BY <1>1, <1>2, <1>3, <1>4, <1>5 DEF Next

(* For any chain of models, retries, policies, tools and crashes, the failures reported
   are the answers that failed, each once, by its number in the node, and all of them
   when the node succeeds or fails (attempt_offset; failures.exchanges). *)
THEOREM FailuresNameTheirAttempts == Spec => []FailuresAreTheFailedAttempts
<1>1. HInv => FailuresAreTheFailedAttempts
  BY DEF HInv, FailuresAreSound, AllIsReported, FailuresAreTheFailedAttempts
<1>2. IInv => Types
  BY DEF IInv
<1> QED
  BY <1>1, <1>2, InitIInv, IInvIsInductive, InitCInv, CInvIsInductive, InitHInv, HInvIsInductive,
     PTL DEF Spec

----------------------------------------------------------------------------
(* What the failures announce *)

\* What is announced shows in the slot as long as the node runs.
SlotKeepsThePromise ==
    \A k \in DOMAIN failures :
        /\ failures[k].action = "none" => failures[k].cause = "invalid"
        /\ failures[k].action = "fallback" =>
              answers[failures[k].attempt].model < state.slot.index
        /\ failures[k].action = "retry" =>
              answers[failures[k].attempt].model <= state.slot.index

AInv == ActionsComeTrue /\ (node.at # "ended" => SlotKeepsThePromise)

\* A failure that announces no other model.
Harmless(f) == f.cause = "invalid" /\ f.action \in {"none", "repair"}

LEMMA EventsAreHarmless ==
    ASSUME HInv, NEW rejected \in Seq(Nat), NEW exhausted \in BOOLEAN,
           NEW list, list = failures \o Events(rejected, exhausted)
    PROVE  /\ list \in Seq(Failure)
           /\ \A k \in DOMAIN list :
                 (k \in DOMAIN failures /\ list[k] = failures[k]) \/ Harmless(list[k])
<1> DEFINE E == Events(rejected, exhausted)
<1>1. failures \in Seq(Failure) /\ state.offset \in Nat /\ DOMAIN rejected = 1 .. Len(rejected)
      /\ Len(rejected) \in Nat
  BY DEF HInv
<1>2. \A k \in DOMAIN rejected : E[k] \in Failure /\ Harmless(E[k])
  <2>1. \A k \in DOMAIN rejected : state.offset + rejected[k] \in Nat
    BY <1>1
  <2> QED
    BY <2>1 DEF Events, Failure, Fates, Harmless
<1>3. E \in Seq(Failure)
  <2>1. E = [k \in 1 .. Len(rejected) |-> E[k]]
    BY <1>1 DEF Events
  <2> HIDE DEF E
  <2>2. [k \in 1 .. Len(rejected) |-> E[k]] \in Seq(Failure)
    BY <1>1, <1>2, IsASeq
  <2> QED
    BY <2>1, <2>2
<1>4. DOMAIN E = DOMAIN rejected
  BY DEF Events
<1> HIDE DEF E
<1>5. /\ list \in Seq(Failure)
      /\ \A k \in DOMAIN list :
            \/ k \in DOMAIN failures /\ list[k] = failures[k]
            \/ k - Len(failures) \in DOMAIN E /\ list[k] = E[k - Len(failures)]
  <2>1. list = failures \o E
    BY DEF E
  <2> QED
    BY <1>1, <1>3, <2>1, ConcatProperties
<1> QED
  BY <1>2, <1>4, <1>5

LEMMA ModelsAreNumbers ==
    ASSUME NEW list \in Seq(Answer), NEW i \in DOMAIN list PROVE list[i].model \in Nat
<1>1. list[i] \in Answer
  BY ElementOfSeq
<1> QED
  BY <1>1, LlmAssumption DEF Answer, Models

(* A step of a node that runs: the answers of finished segments stand, new ones come from
   the slot's model or a later one, and what is reported anew announces nothing, or
   something of the last answer that the slot goes by from then on. *)
LEMMA PromisesAreKept ==
    ASSUME HInv, AInv, Types, node.at # "ended",
           answers' \in Seq(Answer), Len(answers') >= state.offset,
           \A i \in DOMAIN answers' :
              \/ i \in DOMAIN answers /\ answers'[i] = answers[i]
              \/ i \notin DOMAIN answers /\ answers'[i].model >= state.slot.index,
           failures' \in Seq(Failure),
           \A k \in DOMAIN failures' :
              \/ k \in DOMAIN failures /\ failures'[k] = failures[k]
              \/ Harmless(failures'[k])
              \/ /\ failures'[k].attempt = Len(answers')
                 /\ node'.at # "ended" =>
                       /\ failures'[k].action # "none"
                       /\ failures'[k].action = "fallback" =>
                             answers'[failures'[k].attempt].model < state'.slot.index
                       /\ failures'[k].action = "retry" =>
                             answers'[failures'[k].attempt].model <= state'.slot.index,
           state'.slot.index \in Nat, state'.slot.index >= state.slot.index
    PROVE  AInv'
<1>1. /\ SegmentsAreReported /\ SlotKeepsThePromise /\ FailuresAreSound /\ ActionsComeTrue
      /\ state.offset \in Nat /\ answers \in Seq(Answer) /\ failures \in Seq(Failure)
      /\ state.slot.index \in Nat
  BY Numbers DEF HInv, AInv
<1>2. ASSUME NEW k \in DOMAIN failures
      PROVE  /\ failures[k].attempt \in DOMAIN answers /\ failures[k].attempt <= state.offset
             /\ failures[k].attempt \in DOMAIN answers'
             /\ answers'[failures[k].attempt] = answers[failures[k].attempt]
             /\ answers[failures[k].attempt].model \in Nat
  <2>1. failures[k].attempt \in DOMAIN answers /\ failures[k].attempt <= state.offset
    BY <1>1 DEF FailuresAreSound, SegmentsAreReported, Failed
  <2>2. failures[k].attempt \in DOMAIN answers'
    BY <1>1, <2>1
  <2> QED
    BY <1>1, <2>1, <2>2, ModelsAreNumbers
<1>3. \A i \in DOMAIN answers' : answers'[i].model \in Nat
  BY ModelsAreNumbers
<1>4. ASSUME NEW k \in DOMAIN failures', NEW i \in DOMAIN answers', i > failures'[k].attempt
      PROVE  Stands(failures[k], i)'
  <2>1. CASE k \in DOMAIN failures /\ failures'[k] = failures[k]
    <3> DEFINE f == failures[k]
               m == answers[f.attempt].model
    <3>1. /\ f.action = "none" => f.cause = "invalid"
          /\ f.action = "fallback" => m < state.slot.index
          /\ f.action = "retry" => m <= state.slot.index
      BY <1>1, <2>1 DEF SlotKeepsThePromise
    <3>2. CASE i \in DOMAIN answers /\ answers'[i] = answers[i]
      <4>1. Stands(f, i)
        BY <1>1, <1>4, <2>1, <3>2 DEF ActionsComeTrue
      <4> QED
        BY <1>2, <2>1, <3>2, <4>1 DEF Stands
    <3>3. CASE answers'[i].model >= state.slot.index
      <4>1. m \in Nat /\ answers'[f.attempt].model = m /\ answers'[i].model \in Nat
        BY <1>2, <1>3, <2>1
      <4>2. /\ f.action = "fallback" => answers'[i].model > m
            /\ f.action = "retry" => answers'[i].model >= m
        BY <1>1, <3>1, <3>3, <4>1
      <4> HIDE DEF m
      <4> QED
        BY <2>1, <3>1, <4>1, <4>2 DEF Stands
    <3> QED
      BY <3>2, <3>3
  <2>2. CASE Harmless(failures'[k])
    BY <2>2 DEF Harmless, Stands
  <2>3. CASE failures'[k].attempt = Len(answers')
    BY <1>4, <2>3
  <2> QED
    BY <2>1, <2>2, <2>3
<1>5. ASSUME node'.at # "ended", NEW k \in DOMAIN failures'
      PROVE  /\ failures'[k].action = "none" => failures'[k].cause = "invalid"
             /\ failures'[k].action = "fallback" =>
                   answers'[failures'[k].attempt].model < state'.slot.index
             /\ failures'[k].action = "retry" =>
                   answers'[failures'[k].attempt].model <= state'.slot.index
  <2>1. CASE k \in DOMAIN failures /\ failures'[k] = failures[k]
    BY <1>1, <1>2, <2>1 DEF SlotKeepsThePromise
  <2>2. CASE Harmless(failures'[k])
    BY <2>2 DEF Harmless
  <2>3. CASE ~(k \in DOMAIN failures /\ failures'[k] = failures[k]) /\ ~Harmless(failures'[k])
    BY <1>5, <2>3
  <2> QED
    BY <2>1, <2>2, <2>3
<1>6. ActionsComeTrue'
  BY <1>4 DEF ActionsComeTrue
<1> QED
  BY <1>5, <1>6 DEF AInv, SlotKeepsThePromise

LEMMA AnswerFromTheSlot ==
    ASSUME HInv, Types, NEW p, Asks(p), NEW fate \in Fates, Answers(p, fate)
    PROVE  /\ answers' \in Seq(Answer) /\ Len(answers') >= state.offset
           /\ \A i \in DOMAIN answers' :
                 \/ i \in DOMAIN answers /\ answers'[i] = answers[i]
                 \/ i \notin DOMAIN answers /\ answers'[i].model >= state.slot.index
           /\ Len(answers') = state.offset + segment.answered + 1
           /\ answers'[Len(answers')].model = p /\ p \in Nat /\ p >= state.slot.index
           /\ node.at # "ended" /\ state.offset \in Nat /\ segment.answered \in Nat
           /\ segment.rejected \in Seq(Nat)
           /\ failures \in Seq(Failure) /\ state.slot.index \in Nat
<1>1. p \in Nat /\ p >= state.slot.index /\ state.slot.index \in Nat
  BY Numbers DEF Asks
<1>2. /\ Extends(answers') /\ Len(answers') = Len(answers) + 1
      /\ answers'[Len(answers) + 1] = [model |-> p, fate |-> fate]
      /\ node.at = "asking" /\ SegmentsAreReported
      /\ answers \in Seq(Answer) /\ Len(answers) \in Nat
  BY AnswerComes
<1>3. /\ Len(answers) = state.offset + segment.answered /\ segment.answered \in Nat
      /\ state.offset \in Nat
  BY <1>2 DEF SegmentsAreReported, HInv
<1>4. ASSUME NEW i \in DOMAIN answers'
      PROVE  \/ i \in DOMAIN answers /\ answers'[i] = answers[i]
             \/ i \notin DOMAIN answers /\ answers'[i].model >= state.slot.index
  <2>1. CASE i \in DOMAIN answers
    BY <1>2, <2>1 DEF Extends
  <2>2. CASE i = Len(answers) + 1
    BY <1>1, <1>2, <2>2
  <2> QED
    BY <1>2, <2>1, <2>2 DEF Extends
<1> QED
  BY <1>1, <1>2, <1>3, <1>4 DEF Extends, HInv, Types

(* The announced slot is the next one, or the same. *)
LEMMA DropsKeepsAInv ==
    ASSUME NEW p, NEW outcome \in Outcomes
    PROVE  HInv /\ AInv /\ Types /\ Drops(p, outcome) => AInv'
<1> SUFFICES ASSUME HInv, AInv, Types, Drops(p, outcome) PROVE AInv'
  OBVIOUS
<1> DEFINE slot == AnsweredSlot(p)
           step == OutcomeStep(p, outcome)
           failure == [attempt |-> state.offset + segment.answered + 1, cause |-> outcome,
                       action |-> step.action]
           F == failures \o Events(segment.rejected, FALSE)
<1>1. /\ Asks(p) /\ Answers(p, outcome) /\ failures' = F \o <<failure>>
      /\ outcome \in Fates
  BY DEF Drops, Fates
<1>2. /\ answers' \in Seq(Answer) /\ Len(answers') >= state.offset
      /\ \A i \in DOMAIN answers' :
            \/ i \in DOMAIN answers /\ answers'[i] = answers[i]
            \/ i \notin DOMAIN answers /\ answers'[i].model >= state.slot.index
      /\ Len(answers') = state.offset + segment.answered + 1
      /\ answers'[Len(answers')].model = p /\ p \in Nat /\ p >= state.slot.index
      /\ node.at # "ended" /\ state.offset \in Nat /\ segment.answered \in Nat
      /\ segment.rejected \in Seq(Nat) /\ state.slot.index \in Nat
  BY <1>1, AnswerFromTheSlot
<1>3. /\ F \in Seq(Failure)
      /\ \A k \in DOMAIN F : (k \in DOMAIN failures /\ F[k] = failures[k]) \/ Harmless(F[k])
  BY <1>2, EventsAreHarmless
<1>4. /\ failure \in Failure /\ failure.attempt = Len(answers')
      /\ failure.action = step.action
  BY <1>1, <1>2, OutcomeStepActs DEF Failure
<1> HIDE DEF F, failure
<1>5. /\ failures' \in Seq(Failure)
      /\ \A k \in DOMAIN failures' :
            \/ k \in DOMAIN F /\ failures'[k] = F[k]
            \/ failures'[k] = failure
  <2>1. failures' = Append(F, failure)
    BY <1>1, <1>3, <1>4, AppendIsConcat
  <2> QED
    BY <1>3, <1>4, <2>1, AppendProperties
<1>6. /\ node'.at # "ended" => step.action # "none"
      /\ node'.at # "ended" /\ step.action = "fallback" => state'.slot.index = p + 1
      /\ node'.at # "ended" /\ step.action = "retry" => state'.slot.index = p
      /\ state'.slot.index \in Nat /\ state'.slot.index >= state.slot.index
  <2>1. CASE step.action = "none"
    <3>1. Ends("failed") /\ state' = state
      BY <2>1 DEF Drops
    <3> QED
      BY <1>2, <2>1, <3>1 DEF Ends
  <2>2. CASE step.action # "none"
    <3>1. /\ state'.slot = step.slot
          /\ slot.index = p
      BY <2>2 DEF Drops, Types, AnsweredSlot
    <3>2. CASE policy[outcome] = "retry" /\ slot.spent < Retries
      <4>1. step.action = "retry" /\ step.slot.index = p
        BY <3>2 DEF OutcomeStep, AnsweredSlot
      <4> QED
        BY <1>2, <3>1, <4>1
    <3>3. CASE ~(policy[outcome] = "retry" /\ slot.spent < Retries)
               /\ policy[outcome] = "fallback" /\ slot.index < LastPosition
      <4>1. step.action = "fallback" /\ step.slot.index = p + 1
        BY <3>1, <3>3 DEF OutcomeStep
      <4> QED
        BY <1>2, <3>1, <4>1
    <3> QED
      BY <2>2, <3>2, <3>3 DEF OutcomeStep
  <2> QED
    BY <2>1, <2>2
<1>7. ASSUME NEW k \in DOMAIN failures', failures'[k] = failure
      PROVE  /\ failures'[k].attempt = Len(answers')
             /\ node'.at # "ended" =>
                   /\ failures'[k].action # "none"
                   /\ failures'[k].action = "fallback" =>
                         answers'[failures'[k].attempt].model < state'.slot.index
                   /\ failures'[k].action = "retry" =>
                         answers'[failures'[k].attempt].model <= state'.slot.index
  BY <1>2, <1>4, <1>6, <1>7
<1> HIDE DEF step
<1> QED
  BY <1>2, <1>3, <1>5, <1>6, <1>7, PromisesAreKept

(* The other steps leave the slot alone, and report nothing but repairs, or a rejected
   answer nothing came of. *)
LEMMA SlotStaysKeepsAInv ==
    ASSUME HInv, AInv, Types, node.at # "ended", state'.slot = state.slot,
           answers' \in Seq(Answer), Len(answers') >= state.offset,
           \A i \in DOMAIN answers' :
              \/ i \in DOMAIN answers /\ answers'[i] = answers[i]
              \/ i \notin DOMAIN answers /\ answers'[i].model >= state.slot.index,
           NEW rejected \in Seq(Nat), NEW exhausted \in BOOLEAN,
           \/ failures' = failures
           \/ failures' = failures \o Events(rejected, exhausted)
    PROVE  AInv'
<1>1. /\ failures' \in Seq(Failure)
      /\ \A k \in DOMAIN failures' :
            (k \in DOMAIN failures /\ failures'[k] = failures[k]) \/ Harmless(failures'[k])
  <2>1. CASE failures' = failures
    BY <2>1 DEF HInv
  <2>2. CASE failures' = failures \o Events(rejected, exhausted)
    BY <2>2, EventsAreHarmless
  <2> QED
    BY <2>1, <2>2
<1>2. state'.slot.index \in Nat /\ state'.slot.index >= state.slot.index
  BY Numbers
<1> QED
  BY <1>1, <1>2, PromisesAreKept

LEMMA AnsweredKeepsAInv ==
    ASSUME NEW p PROVE HInv /\ AInv /\ Types /\ Answered(p) => AInv'
<1> SUFFICES ASSUME HInv, AInv, Types, Answered(p) PROVE AInv'
  OBVIOUS
<1>1. CASE \E outcome \in Outcomes : Drops(p, outcome)
  BY <1>1, DropsKeepsAInv
<1>2. ASSUME NEW fate \in {"output", "invalid", "tools"}, Asks(p), Answers(p, fate),
             state'.slot = state.slot,
             NEW rejected \in Seq(Nat), NEW exhausted \in BOOLEAN,
             failures' = failures \/ failures' = failures \o Events(rejected, exhausted)
      PROVE  AInv'
  <2>1. fate \in Fates
    BY DEF Fates
  <2>2. /\ answers' \in Seq(Answer) /\ Len(answers') >= state.offset
        /\ \A i \in DOMAIN answers' :
              \/ i \in DOMAIN answers /\ answers'[i] = answers[i]
              \/ i \notin DOMAIN answers /\ answers'[i].model >= state.slot.index
        /\ node.at # "ended"
    BY <1>2, <2>1, AnswerFromTheSlot
  <2> QED
    BY <1>2, <2>2, SlotStaysKeepsAInv
<1>3. segment.rejected \in Seq(Nat) /\ Append(segment.rejected, segment.answered + 1) \in Seq(Nat)
  BY DEF Types
<1>4. CASE Completes(p)
  <2>1. /\ Asks(p) /\ Answers(p, "output") /\ state'.slot = state.slot
        /\ failures' = failures \o Events(segment.rejected, FALSE)
    BY <1>4 DEF Completes
  <2> QED
    BY <1>2, <1>3, <2>1
<1>5. CASE Rejects(p)
  <2> DEFINE rejected == Append(segment.rejected, segment.answered + 1)
  <2>1. /\ Asks(p) /\ Answers(p, "invalid") /\ state'.slot = state.slot
        /\ failures' = failures \/ failures' = failures \o Events(rejected, TRUE)
    BY <1>5 DEF Rejects
  <2> HIDE DEF rejected
  <2>2. rejected \in Seq(Nat)
    BY <1>3 DEF rejected
  <2> QED
    BY <1>2, <2>1, <2>2
<1>6. ASSUME NEW called,
             CallsTools(p, called) \/ CallsTooManyTools(p, called) \/ ToolRaises(p, called)
      PROVE  AInv'
  <2>1. Asks(p) /\ Answers(p, "tools")
    BY <1>6 DEF CallsTools, CallsTooManyTools, ToolRaises
  <2>2. state'.slot = state.slot
    BY <1>6 DEF CallsTools, CallsTooManyTools, ToolRaises, Defers, Types
  <2>3. \/ failures' = failures
        \/ failures' = failures \o Events(segment.rejected, FALSE)
        \/ failures' = failures \o Events(segment.rejected, TRUE)
    BY <1>6 DEF CallsTools, CallsTooManyTools, ToolRaises, Defers
  <2> QED
    BY <1>2, <1>3, <2>1, <2>2, <2>3
<1> QED
  BY <1>1, <1>4, <1>5, <1>6 DEF Answered

LEMMA InitAInv == Init => AInv
BY DEF Init, AInv, ActionsComeTrue, SlotKeepsThePromise

LEMMA AInvIsInductive == HInv /\ AInv /\ Types /\ [Next]_vars => AInv'
<1> SUFFICES ASSUME HInv, AInv, Types, [Next]_vars PROVE AInv'
  OBVIOUS
<1>1. CASE UNCHANGED vars
  BY <1>1 DEF vars, AInv, ActionsComeTrue, SlotKeepsThePromise, Stands
<1>2. CASE \E p \in Models : Answered(p)
  BY <1>2, AnsweredKeepsAInv
<1>3. ASSUME node.at # "ended", state'.slot = state.slot, answers' = answers,
             \/ failures' = failures
             \/ failures' = failures \o Events(segment.rejected, TRUE)
      PROVE  AInv'
  <2>1. /\ answers \in Seq(Answer) /\ segment.rejected \in Seq(Nat)
        /\ Len(answers) = state.offset + segment.answered
        /\ state.offset \in Nat /\ segment.answered \in Nat
    BY <1>3 DEF HInv, SegmentsAreReported, Types
  <2>2. Len(answers) >= state.offset
    BY <2>1
  <2> QED
    BY <1>3, <2>1, <2>2, SlotStaysKeepsAInv
<1>4. CASE (\E granted \in SUBSET DOMAIN calls : Decides(granted))
           \/ (\E i \in DOMAIN calls : Called(i)) \/ NobodyDecides \/ Resumes
  BY <1>3, <1>4 DEF Decides, Called, Invokes, DiesInCall, CallRaises, NobodyDecides, Resumes
<1>5. CASE RunsGranted
  <2>1. state'.slot = state.slot
    BY <1>5 DEF RunsGranted, Types
  <2> QED
    BY <1>3, <1>5, <2>1 DEF RunsGranted
<1>6. CASE CallFails
  BY <1>3, <1>6 DEF CallFails
<1>7. CASE Dies
  <2>1. /\ node.at # "ended" /\ state' = state /\ failures' = failures
        /\ answers' = SubSeq(answers, 1, Len(answers) - segment.answered)
    BY <1>7 DEF Dies
  <2>2. /\ answers \in Seq(Answer) /\ Len(answers) = state.offset + segment.answered
        /\ state.offset \in Nat /\ segment.answered \in Nat
    BY <2>1 DEF HInv, SegmentsAreReported, Types
  <2>3. /\ answers' \in Seq(Answer) /\ Len(answers') = state.offset
        /\ \A i \in 1 .. state.offset : answers'[i] = answers[i] /\ i \in DOMAIN answers
    <3>1. Len(answers) - segment.answered = state.offset /\ state.offset <= Len(answers)
      BY <2>2
    <3> QED
      BY <2>1, <2>2, <3>1, SubSeqProperties
  <2>4. \A i \in DOMAIN answers' : i \in DOMAIN answers /\ answers'[i] = answers[i]
    BY <2>2, <2>3
  <2>5. Len(answers') >= state.offset /\ <<>> \in Seq(Nat)
    BY <2>2, <2>3
  <2> QED
    BY <2>1, <2>3, <2>4, <2>5, SlotStaysKeepsAInv
<1> QED
  BY <1>1, <1>2, <1>4, <1>5, <1>6, <1>7 DEF Next

(* For any chain of models and any policies, what a reported failure announces is what
   happens: no model up to one that was fallen back from is asked again, a retry asks
   none before it, and nothing follows a failure that gave up (outcome_step,
   answered_slot, reissued_state). *)
THEOREM AnnouncedActionsComeTrue == Spec => []ActionsComeTrue
<1>1. AInv => ActionsComeTrue
  BY DEF AInv
<1>2. IInv => Types
  BY DEF IInv
<1> QED
  BY <1>1, <1>2, InitIInv, IInvIsInductive, InitCInv, CInvIsInductive, InitHInv, HInvIsInductive,
     InitAInv, AInvIsInductive, PTL DEF Spec

-----------------------------------------------------------------------------
(* The rounds of approvals of one execution (ApprovalRounds), for any people, any *)
(* number of rounds and both timeouts: they are kept apart as far as              *)
(* RoundsKeepApart says. The invariant behind it ties each answer under way, in a *)
(* person's hands or in a topic, to a form that was shown, and the wait to the    *)
(* round. On top of it, `Taken` follows each answer to the one place it is in.    *)


RoundNumbers == 0 .. MaxRounds + 1

RoundTypes ==
    /\ plan \in {"fail", "escalate"}
    /\ round \in 0 .. MaxRounds
    /\ wait \in [state : {"none", "waiting", "timed_out", "resolved"}, attempt : RoundNumbers,
                 resolvedBy : Forms \cup {NoForm}]
    /\ topics \in [Attempts -> Seq(Forms)]
    /\ person \in [People -> [at : {"idle", "form", "sending", "confirming", "unsure"},
                              form : Forms \cup {NoForm}, to : RoundNumbers]]
    /\ decided \in Seq(Forms)

\* A form that has been shown: its attempt is its round, or the one its wait
\* escalated to.
Shown(form, last, onTimeout) ==
    /\ form \in Forms
    /\ form.round <= last
    /\ \/ form.attempt = form.round
       \/ onTimeout = "escalate" /\ form.attempt = form.round + 1

\* A form is shown for the wait that is open, and a round is decided once.
WaitIsOfTheRound ==
    /\ wait.state = "none" => round = 0 /\ Len(decided) = 0
    /\ wait.state = "resolved" => Len(decided) = round
    /\ wait.state \in {"waiting", "timed_out"} =>
          /\ round > 0 /\ Len(decided) = round - 1
          /\ wait.attempt = round \/ (plan = "escalate" /\ wait.attempt = round + 1)

AnswersAreOfShownForms ==
    /\ \A p \in People :
          /\ person[p].at # "idle" => Shown(person[p].form, round, plan)
          /\ person[p].at = "sending" => person[p].to = person[p].form.attempt
    /\ \A a \in Attempts : \A i \in DOMAIN topics[a] :
          Shown(topics[a][i], round, plan) /\ topics[a][i].attempt = a

RoundsInv == RoundTypes /\ WaitIsOfTheRound /\ AnswersAreOfShownForms /\ RoundsKeepApart

----------------------------------------------------------------------------
(* What is shown stays shown as the rounds go on. *)

LEMMA ShownStays ==
    ASSUME NEW m \in Nat, NEW n \in Nat, m <= n, NEW form, NEW onTimeout,
           Shown(form, m, onTimeout)
    PROVE  Shown(form, n, onTimeout)
BY RoundsAssumption DEF Shown, Forms, Rounds, Attempts

(* A step that leaves the round, the topics and the people alone. *)
LEMMA AnswersUndisturbed ==
    ASSUME RoundTypes, AnswersAreOfShownForms,
           UNCHANGED <<plan, topics, person>>, round' \in Nat, round <= round'
    PROVE  AnswersAreOfShownForms'
<1>0. round \in Nat
  BY RoundsAssumption DEF RoundTypes
<1>1. ASSUME NEW p \in People
      PROVE  /\ person'[p].at # "idle" => Shown(person'[p].form, round', plan')
             /\ person'[p].at = "sending" => person'[p].to = person'[p].form.attempt
  BY <1>0, ShownStays DEF AnswersAreOfShownForms
<1>2. ASSUME NEW a \in Attempts, NEW i \in DOMAIN topics'[a]
      PROVE  Shown(topics'[a][i], round', plan') /\ topics'[a][i].attempt = a
  BY <1>0, ShownStays DEF AnswersAreOfShownForms
<1> QED
  BY <1>1, <1>2 DEF AnswersAreOfShownForms

(* A step of one person that leaves the topics alone. *)
LEMMA PersonMoves ==
    ASSUME RoundsInv, NEW p \in People, NEW call,
           call \in [at : {"idle", "form", "sending", "confirming", "unsure"},
                     form : Forms \cup {NoForm}, to : RoundNumbers],
           call.at # "idle" => Shown(call.form, round, plan),
           call.at = "sending" => call.to = call.form.attempt,
           Goes(p, call), topics' = topics
    PROVE  RoundsInv'
<1>1. RoundTypes'
  BY DEF RoundsInv, RoundTypes, Goes
<1>2. WaitIsOfTheRound' /\ RoundsKeepApart'
  BY DEF RoundsInv, WaitIsOfTheRound, RoundsKeepApart, Goes
<1>3. AnswersAreOfShownForms'
  <2>1. ASSUME NEW q \in People
        PROVE  /\ person'[q].at # "idle" => Shown(person'[q].form, round', plan')
               /\ person'[q].at = "sending" => person'[q].to = person'[q].form.attempt
    <3>1. CASE q = p
      BY <3>1 DEF RoundsInv, RoundTypes, Goes, Shown
    <3>2. CASE q # p
      BY <3>2 DEF RoundsInv, RoundTypes, AnswersAreOfShownForms, Goes, Shown
    <3> QED
      BY <3>1, <3>2
  <2>2. ASSUME NEW a \in Attempts, NEW i \in DOMAIN topics'[a]
        PROVE  Shown(topics'[a][i], round', plan') /\ topics'[a][i].attempt = a
    BY DEF RoundsInv, AnswersAreOfShownForms, Goes, Shown
  <2> QED
    BY <2>1, <2>2 DEF AnswersAreOfShownForms, Shown
<1> QED
  BY <1>1, <1>2, <1>3 DEF RoundsInv

----------------------------------------------------------------------------
LEMMA InitRoundsInv == RoundsInit => RoundsInv
<1> SUFFICES ASSUME RoundsInit PROVE RoundsInv
  OBVIOUS
<1>1. RoundTypes
  BY RoundsAssumption DEF RoundsInit, RoundTypes, AtRest, Attempts, RoundNumbers, Forms, Rounds
<1>2. WaitIsOfTheRound /\ RoundsKeepApart
  BY DEF RoundsInit, WaitIsOfTheRound, RoundsKeepApart
<1>3. AnswersAreOfShownForms
  BY DEF RoundsInit, AnswersAreOfShownForms, AtRest
<1> QED
  BY <1>1, <1>2, <1>3 DEF RoundsInv

LEMMA OpensRoundKeepsIInv == RoundsInv /\ OpensRound => RoundsInv'
<1> SUFFICES ASSUME RoundsInv, OpensRound PROVE RoundsInv'
  OBVIOUS
<1>1. round' = round + 1 /\ round \in Nat /\ round' \in 1 .. MaxRounds
  BY RoundsAssumption DEF RoundsInv, RoundTypes, OpensRound
<1>2. RoundTypes'
  BY <1>1, RoundsAssumption DEF RoundsInv, RoundTypes, OpensRound, Waits, RoundNumbers
<1>3. WaitIsOfTheRound'
  BY <1>1 DEF RoundsInv, WaitIsOfTheRound, OpensRound, Waits
<1>4. AnswersAreOfShownForms'
  BY <1>1, AnswersUndisturbed DEF RoundsInv, OpensRound
<1>5. RoundsKeepApart'
  BY DEF RoundsInv, RoundsKeepApart, OpensRound
<1> QED
  BY <1>2, <1>3, <1>4, <1>5 DEF RoundsInv

LEMMA TimesOutKeepsIInv == RoundsInv /\ TimesOut => RoundsInv'
<1> SUFFICES ASSUME RoundsInv, TimesOut PROVE RoundsInv'
  OBVIOUS
<1>1. RoundTypes'
  BY DEF RoundsInv, RoundTypes, TimesOut
<1>2. WaitIsOfTheRound'
  BY DEF RoundsInv, RoundTypes, WaitIsOfTheRound, TimesOut
<1>3. AnswersAreOfShownForms'
  BY AnswersUndisturbed DEF RoundsInv, RoundTypes, TimesOut
<1>4. RoundsKeepApart'
  BY DEF RoundsInv, RoundsKeepApart, TimesOut
<1> QED
  BY <1>1, <1>2, <1>3, <1>4 DEF RoundsInv

LEMMA EscalatesKeepsIInv == RoundsInv /\ Escalates => RoundsInv'
<1> SUFFICES ASSUME RoundsInv, Escalates PROVE RoundsInv'
  OBVIOUS
<1>1. RoundTypes'
  BY RoundsAssumption DEF RoundsInv, RoundTypes, Escalates, Waits, RoundNumbers
<1>2. WaitIsOfTheRound'
  BY DEF RoundsInv, RoundTypes, WaitIsOfTheRound, Escalates, Waits
<1>3. AnswersAreOfShownForms'
  BY AnswersUndisturbed DEF RoundsInv, RoundTypes, Escalates
<1>4. RoundsKeepApart'
  BY DEF RoundsInv, RoundsKeepApart, Escalates
<1> QED
  BY <1>1, <1>2, <1>3, <1>4 DEF RoundsInv

(* The answer that is taken was shown in this round or an earlier one, and its
   attempt is that of the wait. *)
LEMMA ReceivesKeepsIInv == RoundsInv /\ Receives => RoundsInv'
<1> SUFFICES ASSUME RoundsInv, Receives PROVE RoundsInv'
  OBVIOUS
<1> DEFINE a == wait.attempt
           answer == Head(topics[a])
<1>1. /\ round \in Nat /\ round > 0 /\ Len(decided) = round - 1
      /\ a = round \/ (plan = "escalate" /\ a = round + 1)
  BY DEF RoundsInv, RoundTypes, WaitIsOfTheRound, Receives
<1>2. a \in Attempts
  BY <1>1, RoundsAssumption DEF RoundsInv, RoundTypes, Attempts
<1>3. topics[a] \in Seq(Forms) /\ topics[a] # <<>>
  BY <1>2 DEF RoundsInv, RoundTypes, Receives
<1>4. /\ answer = topics[a][1] /\ 1 \in DOMAIN topics[a] /\ answer \in Forms
      /\ Tail(topics[a]) \in Seq(Forms)
      /\ \A i \in DOMAIN Tail(topics[a]) :
            i + 1 \in DOMAIN topics[a] /\ Tail(topics[a])[i] = topics[a][i + 1]
  BY <1>3
<1>5. Shown(answer, round, plan) /\ answer.attempt = a
  BY <1>2, <1>4 DEF RoundsInv, AnswersAreOfShownForms
<1>6. /\ decided' \in Seq(Forms) /\ Len(decided') = round
      /\ decided'[round] = answer
      /\ \A r \in DOMAIN decided : r \in DOMAIN decided' /\ decided'[r] = decided[r]
      /\ \A r \in DOMAIN decided' : r = round \/ r \in DOMAIN decided
  BY <1>1, <1>4 DEF RoundsInv, RoundTypes, Receives
<1>7. RoundTypes'
  BY <1>2, <1>4, <1>6 DEF RoundsInv, RoundTypes, Receives
<1>8. WaitIsOfTheRound'
  BY <1>6, <1>1 DEF RoundsInv, RoundTypes, WaitIsOfTheRound, Receives
<1>9. AnswersAreOfShownForms'
  <2>1. ASSUME NEW p \in People
        PROVE  /\ person'[p].at # "idle" => Shown(person'[p].form, round', plan')
               /\ person'[p].at = "sending" => person'[p].to = person'[p].form.attempt
    BY DEF RoundsInv, AnswersAreOfShownForms, Receives, Shown
  <2>2. ASSUME NEW b \in Attempts, NEW i \in DOMAIN topics'[b]
        PROVE  Shown(topics'[b][i], round', plan') /\ topics'[b][i].attempt = b
    <3>1. CASE b = a
      BY <3>1, <1>2, <1>4 DEF RoundsInv, RoundTypes, AnswersAreOfShownForms, Receives, Shown
    <3>2. CASE b # a
      BY <3>2 DEF RoundsInv, RoundTypes, AnswersAreOfShownForms, Receives, Shown
    <3> QED
      BY <3>1, <3>2
  <2> QED
    BY <2>1, <2>2 DEF AnswersAreOfShownForms, Shown
<1>10. RoundsKeepApart'
  <2>1. /\ answer.round \in Nat
        /\ \/ answer.round = round /\ answer.attempt \in {round, round + 1}
           \/ plan = "escalate" /\ answer.round = round - 1 /\ answer.attempt = round
    BY <1>1, <1>5 DEF Shown, Forms, Rounds, Attempts
  <2> QED
    BY <2>1, <1>6 DEF RoundsInv, RoundsKeepApart, Receives
<1> QED
  BY <1>7, <1>8, <1>9, <1>10 DEF RoundsInv

----------------------------------------------------------------------------
LEMMA SendsKeepsIInv == ASSUME NEW p \in People PROVE RoundsInv /\ Sends(p) => RoundsInv'
<1> SUFFICES ASSUME RoundsInv, Sends(p) PROVE RoundsInv'
  OBVIOUS
<1> DEFINE form == person[p].form
           b == person[p].to
<1>1. Shown(form, round, plan) /\ form.attempt = b /\ b \in Attempts /\ form \in Forms
  BY DEF RoundsInv, AnswersAreOfShownForms, Sends, Shown, Forms
<1>2. topics[b] \in Seq(Forms)
  BY <1>1 DEF RoundsInv, RoundTypes
<1>3. CASE form \in sent
  <2>1. topics' = topics
    BY <1>3 DEF Sends
  <2> QED
    BY <2>1, <1>1, PersonMoves DEF RoundsInv, RoundTypes, Sends
<1>4. CASE form \notin sent
  <2>1. topics' = [topics EXCEPT ![b] = Append(@, form)]
    BY <1>4 DEF Sends
  <2>2. person' = [person EXCEPT ![p] = [person[p] EXCEPT !.at = "confirming"]]
        /\ UNCHANGED <<plan, round, wait, decided>>
    BY DEF Sends, Goes
  <2>3. RoundTypes'
    <3>1. Append(topics[b], form) \in Seq(Forms)
      BY <1>1, <1>2
    <3>2. topics' \in [Attempts -> Seq(Forms)]
      BY <3>1, <2>1 DEF RoundsInv, RoundTypes
    <3>3. person' \in [People -> [at : {"idle", "form", "sending", "confirming", "unsure"},
                                  form : Forms \cup {NoForm}, to : RoundNumbers]]
      BY <2>2 DEF RoundsInv, RoundTypes
    <3> QED
      BY <3>2, <3>3, <2>2 DEF RoundsInv, RoundTypes
  <2>4. WaitIsOfTheRound' /\ RoundsKeepApart'
    BY <2>2 DEF RoundsInv, WaitIsOfTheRound, RoundsKeepApart
  <2>5. ASSUME NEW q \in People
        PROVE  /\ person'[q].at # "idle" => Shown(person'[q].form, round', plan')
               /\ person'[q].at = "sending" => person'[q].to = person'[q].form.attempt
    <3>1. CASE q = p
      BY <3>1, <2>2, <1>1 DEF RoundsInv, RoundTypes, Shown
    <3>2. CASE q # p
      BY <3>2, <2>2 DEF RoundsInv, RoundTypes, AnswersAreOfShownForms, Shown
    <3> QED
      BY <3>1, <3>2
  <2>6. ASSUME NEW c \in Attempts, NEW i \in DOMAIN topics'[c]
        PROVE  Shown(topics'[c][i], round', plan') /\ topics'[c][i].attempt = c
    <3>1. CASE c = b
      <4>1. \/ i \in DOMAIN topics[b] /\ topics'[c][i] = topics[b][i]
            \/ topics'[c][i] = form
        BY <3>1, <2>1, <1>1, <1>2 DEF RoundsInv, RoundTypes
      <4>2. Shown(topics'[c][i], round, plan) /\ topics'[c][i].attempt = c
        BY <4>1, <3>1, <1>1 DEF RoundsInv, AnswersAreOfShownForms
      <4> QED
        BY <4>2, <2>2 DEF Shown
    <3>2. CASE c # b
      BY <3>2, <2>1, <2>2 DEF RoundsInv, RoundTypes, AnswersAreOfShownForms, Shown
    <3> QED
      BY <3>1, <3>2
  <2>7. AnswersAreOfShownForms'
    BY <2>5, <2>6 DEF AnswersAreOfShownForms, Shown
  <2> QED
    BY <2>3, <2>4, <2>7 DEF RoundsInv
<1> QED
  BY <1>3, <1>4

LEMMA ActsKeepsIInv == ASSUME NEW p \in People PROVE RoundsInv /\ Acts(p) => RoundsInv'
<1> SUFFICES ASSUME RoundsInv, Acts(p) PROVE RoundsInv'
  OBVIOUS
<1>0. /\ person[p] \in [at : {"idle", "form", "sending", "confirming", "unsure"},
                        form : Forms \cup {NoForm}, to : RoundNumbers]
      /\ person[p].at # "idle" => Shown(person[p].form, round, plan)
  BY DEF RoundsInv, RoundTypes, AnswersAreOfShownForms
<1>1. CASE Looks(p)
  <2> DEFINE form == [by |-> p, round |-> round, attempt |-> wait.attempt]
  <2>1. Shown(form, round, plan)
    BY <1>1, RoundsAssumption
    DEF RoundsInv, RoundTypes, WaitIsOfTheRound, Looks, Shown, Forms, Rounds, Attempts
  <2>2. 0 \in RoundNumbers /\ form \in Forms
    BY <2>1, RoundsAssumption DEF RoundNumbers, Shown
  <2> QED
    BY <1>1, <2>1, <2>2, PersonMoves DEF Looks
<1>2. CASE Submits(p)
  <2>1. wait.attempt \in RoundNumbers /\ wait.attempt = person[p].form.attempt
    BY <1>2 DEF RoundsInv, RoundTypes, Submits, LetsThrough
  <2> QED
    BY <1>0, <1>2, <2>1, PersonMoves DEF Submits
<1>3. CASE IsTurnedAway(p) \/ IsReplayed(p) \/ Confirms(p)
  <2>1. AtRest \in [at : {"idle", "form", "sending", "confirming", "unsure"},
                    form : Forms \cup {NoForm}, to : RoundNumbers]
        /\ AtRest.at = "idle"
    BY RoundsAssumption DEF AtRest, RoundNumbers
  <2>2. Goes(p, AtRest) /\ topics' = topics
    BY <1>3 DEF IsTurnedAway, IsReplayed, Confirms, Hears
  <2> QED
    BY <2>1, <2>2, PersonMoves
<1>4. CASE Sends(p)
  BY <1>4, SendsKeepsIInv
<1>5. CASE ConfirmEnds(p)
  BY <1>0, <1>5, PersonMoves DEF ConfirmEnds
<1>6. CASE Repeats(p)
  <2>1. 0 \in RoundNumbers
    BY RoundsAssumption DEF RoundNumbers
  <2> QED
    BY <1>0, <1>6, <2>1, PersonMoves DEF Repeats
<1> QED
  BY <1>1, <1>2, <1>3, <1>4, <1>5, <1>6 DEF Acts

LEMMA RoundsInvIsInductive == RoundsInv /\ [RoundsNext]_roundsVars => RoundsInv'
<1> SUFFICES ASSUME RoundsInv, [RoundsNext]_roundsVars PROVE RoundsInv'
  OBVIOUS
<1>1. CASE UNCHANGED roundsVars
  BY <1>1 DEF roundsVars, RoundsInv, RoundTypes, WaitIsOfTheRound, AnswersAreOfShownForms, RoundsKeepApart, Shown
<1>2. CASE RoundsNext
  BY <1>2, OpensRoundKeepsIInv, ReceivesKeepsIInv, TimesOutKeepsIInv, EscalatesKeepsIInv,
     ActsKeepsIInv DEF RoundsNext
<1> QED
  BY <1>1, <1>2

----------------------------------------------------------------------------
(* For any people, any number of rounds and either timeout, a round is decided by an
   answer given on a form of its own; where waits escalate, or on a form of the wait
   the round before it escalated to (ToolApprovalGate.decide, HumanWaiter._escalate,
   RESUME_GUARDS). *)
THEOREM RoundsAreKeptApart == RoundsSpec => []RoundsKeepApart
<1>1. RoundsInv => RoundsKeepApart
  BY DEF RoundsInv
<1> QED
  BY <1>1, InitRoundsInv, RoundsInvIsInductive, PTL DEF RoundsSpec

----------------------------------------------------------------------------
\* An answer with one key is sent once, and is in a topic or has decided a round, and
\* in one place only.
SentOnce ==
    /\ \A a \in Attempts : \A i \in DOMAIN topics[a] :
          /\ topics[a][i] \in sent
          /\ \A j \in DOMAIN topics[a] : topics[a][i] = topics[a][j] => i = j
          /\ \A r \in DOMAIN decided : decided[r] # topics[a][i]
    /\ \A r \in DOMAIN decided : decided[r] \in sent

HasDecided(form) == \E r \in DOMAIN decided : decided[r] = form
RecordIsTrue == wait.resolvedBy \in Forms => HasDecided(wait.resolvedBy)

Taken == SentOnce /\ RecordIsTrue /\ AcceptedMeansDecided

(* Steps that touch neither the topics nor what was decided. *)
LEMMA TakenUndisturbed ==
    ASSUME Taken, UNCHANGED <<topics, sent, decided, told>>,
           wait'.resolvedBy \in {wait.resolvedBy, NoForm}
    PROVE  Taken'
<1>1. NoForm \notin Forms
  BY RoundsAssumption DEF NoForm, Forms, Rounds
<1>2. SentOnce' /\ AcceptedMeansDecided'
  BY DEF Taken, SentOnce, AcceptedMeansDecided
<1>3. RecordIsTrue'
  BY <1>1 DEF Taken, RecordIsTrue, HasDecided
<1> QED
  BY <1>2, <1>3 DEF Taken

LEMMA ReceivesKeepsTaken == RoundsInv /\ Taken /\ Receives => Taken'
<1> SUFFICES ASSUME RoundsInv, Taken, Receives PROVE Taken'
  OBVIOUS
<1> DEFINE a == wait.attempt
           answer == Head(topics[a])
<1>1. a \in Attempts
  BY RoundsAssumption DEF RoundsInv, RoundTypes, WaitIsOfTheRound, Receives, Attempts
<1>2. topics[a] \in Seq(Forms) /\ topics[a] # <<>>
  BY <1>1 DEF RoundsInv, RoundTypes, Receives
<1>3. /\ answer = topics[a][1] /\ 1 \in DOMAIN topics[a] /\ answer \in Forms
      /\ \A i \in DOMAIN Tail(topics[a]) :
            i \in Nat /\ i + 1 \in DOMAIN topics[a] /\ i + 1 # 1
            /\ Tail(topics[a])[i] = topics[a][i + 1]
  BY <1>2
<1>4. /\ decided \in Seq(Forms) /\ decided' = Append(decided, answer)
      /\ sent' = sent /\ told' = told
      /\ topics' = [topics EXCEPT ![a] = Tail(@)]
      /\ wait'.resolvedBy = answer
  BY DEF RoundsInv, RoundTypes, Receives
<1>5. /\ \A r \in DOMAIN decided : r \in DOMAIN decided' /\ decided'[r] = decided[r]
      /\ \A r \in DOMAIN decided' :
            \/ r = Len(decided) + 1 /\ decided'[r] = answer
            \/ r \in DOMAIN decided /\ decided'[r] = decided[r]
      /\ Len(decided) + 1 \in DOMAIN decided' /\ decided'[Len(decided) + 1] = answer
  BY <1>3, <1>4
<1>6. answer \in sent /\ \A r \in DOMAIN decided : decided[r] # answer
  BY <1>1, <1>3 DEF Taken, SentOnce
<1>7. \A r \in DOMAIN decided' : decided'[r] \in sent
  BY <1>5, <1>6 DEF Taken, SentOnce
<1>8. ASSUME NEW b \in Attempts, NEW i \in DOMAIN topics'[b]
      PROVE  /\ topics'[b][i] \in sent
             /\ \A j \in DOMAIN topics'[b] : topics'[b][i] = topics'[b][j] => i = j
             /\ \A r \in DOMAIN decided' : decided'[r] # topics'[b][i]
  <2>1. CASE b = a
    <3>1. topics'[b] = Tail(topics[a])
      BY <2>1, <1>1, <1>4 DEF RoundsInv, RoundTypes
    <3>2. /\ topics'[b][i] = topics[a][i + 1] /\ i \in Nat
          /\ i + 1 \in DOMAIN topics[a] /\ i + 1 # 1
      BY <3>1, <1>3
    <3>3. topics'[b][i] \in sent /\ \A r \in DOMAIN decided : decided[r] # topics'[b][i]
      BY <3>2, <1>1 DEF Taken, SentOnce
    <3>4. topics'[b][i] # answer
      BY <3>2, <1>1, <1>3 DEF Taken, SentOnce
    <3>5. ASSUME NEW j \in DOMAIN topics'[b], topics'[b][i] = topics'[b][j]
          PROVE  i = j
      <4>1. topics[a][i + 1] = topics[a][j + 1] /\ j \in Nat /\ j + 1 \in DOMAIN topics[a]
        BY <3>1, <3>2, <3>5, <1>3
      <4>2. i + 1 = j + 1
        BY <4>1, <3>2, <1>1 DEF Taken, SentOnce
      <4> QED
        BY <4>1, <4>2, <3>2
    <3> QED
      BY <3>3, <3>4, <3>5, <1>5
  <2>2. CASE b # a
    <3>1. topics'[b] = topics[b]
      BY <2>2, <1>4 DEF RoundsInv, RoundTypes
    <3>2. topics[b][i] # answer
      BY <2>2, <3>1, <1>1, <1>3 DEF RoundsInv, AnswersAreOfShownForms
    <3> QED
      BY <3>1, <3>2, <1>5 DEF Taken, SentOnce
  <2> QED
    BY <2>1, <2>2
<1>9. SentOnce'
  BY <1>4, <1>7, <1>8 DEF SentOnce
<1>10. RecordIsTrue'
  BY <1>4, <1>5 DEF RecordIsTrue, HasDecided
<1>11. AcceptedMeansDecided'
  <2>1. ASSUME NEW t \in told', t.result = "accepted"
        PROVE  \E r \in DOMAIN decided' : decided'[r] = t.form
    BY <2>1, <1>4, <1>5 DEF Taken, AcceptedMeansDecided
  <2>2. ASSUME NEW r \in DOMAIN decided', NEW s \in DOMAIN decided', decided'[r] = decided'[s]
        PROVE  r = s
    BY <2>2, <1>5, <1>6 DEF Taken, AcceptedMeansDecided
  <2> QED
    BY <2>1, <2>2 DEF AcceptedMeansDecided
<1> QED
  BY <1>9, <1>10, <1>11 DEF Taken

LEMMA SendsKeepsTaken == ASSUME NEW p \in People PROVE RoundsInv /\ Taken /\ Sends(p) => Taken'
<1> SUFFICES ASSUME RoundsInv, Taken, Sends(p) PROVE Taken'
  OBVIOUS
<1> DEFINE form == person[p].form
           b == person[p].to
<1>1. form.attempt = b /\ b \in Attempts /\ form \in Forms
  BY DEF RoundsInv, AnswersAreOfShownForms, Sends, Shown, Forms
<1>2. /\ UNCHANGED <<decided, told, wait>> /\ sent' = sent \cup {form}
  BY DEF Sends, Goes
<1>3. SentOnce'
  <2>1. CASE form \in sent
    <3>1. topics' = topics
      BY <2>1 DEF Sends
    <3> QED
      BY <3>1, <1>2 DEF Taken, SentOnce
  <2>2. CASE form \notin sent
    <3>1. topics' = [topics EXCEPT ![b] = Append(@, form)] /\ topics[b] \in Seq(Forms)
      BY <2>2, <1>1 DEF Sends, RoundsInv, RoundTypes
    <3>2. ASSUME NEW c \in Attempts, NEW i \in DOMAIN topics'[c]
          PROVE  /\ topics'[c][i] \in sent'
                 /\ \A j \in DOMAIN topics'[c] : topics'[c][i] = topics'[c][j] => i = j
                 /\ \A r \in DOMAIN decided : decided[r] # topics'[c][i]
      <4>1. CASE c = b
        <5>1. /\ topics'[c] = Append(topics[b], form)
              /\ \A j \in DOMAIN topics'[c] :
                    \/ j \in DOMAIN topics[b] /\ topics'[c][j] = topics[b][j]
                    \/ j = Len(topics[b]) + 1 /\ topics'[c][j] = form
          BY <4>1, <3>1, <1>1 DEF RoundsInv, RoundTypes
        <5>2. /\ \A j \in DOMAIN topics[b] : topics[b][j] # form
              /\ \A r \in DOMAIN decided : decided[r] # form
          BY <2>2, <1>1 DEF Taken, SentOnce
        <5> QED
          BY <5>1, <5>2, <1>1, <1>2 DEF Taken, SentOnce
      <4>2. CASE c # b
        <5>1. topics'[c] = topics[c]
          BY <4>2, <3>1 DEF RoundsInv, RoundTypes
        <5> QED
          BY <5>1, <1>2 DEF Taken, SentOnce
      <4> QED
        BY <4>1, <4>2
    <3>3. \A r \in DOMAIN decided' : decided'[r] \in sent'
      BY <1>2 DEF Taken, SentOnce
    <3> QED
      BY <3>2, <3>3, <1>2 DEF SentOnce
  <2> QED
    BY <2>1, <2>2
<1>4. RecordIsTrue' /\ AcceptedMeansDecided'
  BY <1>2 DEF Taken, RecordIsTrue, HasDecided, AcceptedMeansDecided
<1> QED
  BY <1>3, <1>4 DEF Taken

(* Who hears "accepted" holds the form the record names. *)
LEMMA HearsKeepsTaken ==
    ASSUME RoundsInv, Taken, NEW p \in People, NEW result, Hears(p, result),
           result = "accepted" => person[p].at # "idle" /\ wait.resolvedBy = person[p].form
    PROVE  Taken'
<1>1. UNCHANGED <<topics, sent, decided, wait>>
  BY DEF Hears, Goes
<1>2. SentOnce' /\ RecordIsTrue'
  BY <1>1 DEF Taken, SentOnce, RecordIsTrue, HasDecided
<1>3. result = "accepted" => \E r \in DOMAIN decided : decided[r] = person[p].form
  BY DEF RoundsInv, AnswersAreOfShownForms, Shown, Taken, RecordIsTrue, HasDecided
<1>4. ASSUME NEW t \in told', t.result = "accepted"
      PROVE  \E r \in DOMAIN decided' : decided'[r] = t.form
  <2>1. CASE t \in told
    BY <1>1, <1>4, <2>1 DEF Taken, AcceptedMeansDecided
  <2>2. CASE t = [form |-> person[p].form, result |-> result]
    BY <1>1, <1>3, <1>4, <2>2
  <2> QED
    BY <2>1, <2>2 DEF Hears
<1>5. AcceptedMeansDecided'
  BY <1>1, <1>4 DEF Taken, AcceptedMeansDecided
<1> QED
  BY <1>2, <1>5 DEF Taken

LEMMA ActsKeepsTaken == ASSUME NEW p \in People PROVE RoundsInv /\ Taken /\ Acts(p) => Taken'
<1> SUFFICES ASSUME RoundsInv, Taken, Acts(p) PROVE Taken'
  OBVIOUS
<1>1. CASE Looks(p) \/ Submits(p) \/ ConfirmEnds(p) \/ Repeats(p)
  <2>1. UNCHANGED <<topics, sent, decided, told, wait>>
    BY <1>1 DEF Looks, Submits, ConfirmEnds, Repeats, Goes
  <2> QED
    BY <2>1, TakenUndisturbed
<1>2. CASE Sends(p)
  BY <1>2, SendsKeepsTaken
<1>3. CASE IsTurnedAway(p)
  BY <1>3, HearsKeepsTaken DEF IsTurnedAway
<1>4. CASE IsReplayed(p)
  BY <1>4, HearsKeepsTaken DEF IsReplayed
<1>5. CASE Confirms(p)
  <2>1. Confirmation(person[p].form) = "accepted" => wait.resolvedBy = person[p].form
    BY DEF Confirmation
  <2> QED
    BY <1>5, <2>1, HearsKeepsTaken DEF Confirms
<1> QED
  BY <1>1, <1>2, <1>3, <1>4, <1>5 DEF Acts

LEMMA InitTaken == RoundsInit => Taken
<1> SUFFICES ASSUME RoundsInit PROVE Taken
  OBVIOUS
<1>1. NoForm \notin Forms
  BY RoundsAssumption DEF NoForm, Forms, Rounds
<1> QED
  BY <1>1 DEF RoundsInit, Taken, SentOnce, RecordIsTrue, AcceptedMeansDecided

LEMMA TakenIsInductive == RoundsInv /\ Taken /\ [RoundsNext]_roundsVars => Taken'
<1> SUFFICES ASSUME RoundsInv, Taken, [RoundsNext]_roundsVars PROVE Taken'
  OBVIOUS
<1>1. CASE UNCHANGED roundsVars
  BY <1>1, TakenUndisturbed DEF roundsVars
<1>2. CASE OpensRound \/ Escalates
  BY <1>2, TakenUndisturbed DEF OpensRound, Escalates, Waits
<1>3. CASE TimesOut
  <2>1. wait'.resolvedBy = wait.resolvedBy
    BY <1>3 DEF TimesOut, RoundsInv, RoundTypes
  <2> QED
    BY <1>3, <2>1, TakenUndisturbed DEF TimesOut
<1>4. CASE Receives
  BY <1>4, ReceivesKeepsTaken
<1>5. CASE \E p \in People : Acts(p)
  BY <1>5, ActsKeepsTaken
<1> QED
  BY <1>1, <1>2, <1>3, <1>4, <1>5 DEF RoundsNext

(* For any people, rounds and repetitions, whoever is told "accepted" decided a round,
   even when its record has been replaced since, and no answer decides two (confirmation,
   resolved_by, the idempotency key of the send). *)
THEOREM WhoIsAcceptedDecided == RoundsSpec => []AcceptedMeansDecided
<1>1. Taken => AcceptedMeansDecided
  BY DEF Taken
<1> QED
  BY <1>1, InitRoundsInv, RoundsInvIsInductive, InitTaken, TakenIsInductive, PTL DEF RoundsSpec
=============================================================================
