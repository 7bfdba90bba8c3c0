------------------------------ MODULE LlmNode ------------------------------
(****************************************************************************)
(* One execution of an LLM node (engine/llm/executor.py): the segments it      *)
(* runs one after the other, each a durable step that asks the models of the   *)
(* agent's chain until it has an output, a bad outcome or a tool call it may   *)
(* not run; what becomes of a bad outcome (outcomes.py); and the tool calls    *)
(* that are run in between (tools.py, assembly/steps.py). What a person decides*)
(* of a call is any decision here; ApprovalRounds tells how it is reached.     *)
(*                                                                             *)
(* pydantic_ai is external: within a run it counts the answers it rejects      *)
(* against the retries it was given, and the calls it is shown or given the    *)
(* results of against the limit of tool calls, and it asks the chain it was    *)
(* given from the first model at every request.                                *)
(* Usage, storing an image and checks that fail a node at once are left out.   *)
(****************************************************************************)
EXTENDS Naturals, Sequences, SequencesExt, FiniteSets

CONSTANTS
    LastPosition,   \* the agent's models are 0 .. LastPosition, its fallbacks from 1
    Retries,        \* output.retries
    Outcomes,       \* the bad outcomes to be checked
    Tools,          \* the tools of the agent,
    External,       \* those of them with effects, which run between segments,
    Guarded,        \* and those in approval.tools
    ToolLimit,      \* limits.tool_calls
    MaxPaid,        \* how many answers the models give
    MaxCrashes

ASSUME LlmAssumption ==
    /\ {LastPosition, Retries, ToolLimit, MaxPaid, MaxCrashes} \subseteq Nat
    /\ IsFiniteSet(Tools) /\ External \cup Guarded \subseteq Tools
    /\ Outcomes \cap {"output", "invalid", "tools"} = {}

VARIABLES
    policy,    \* output.on_error, on_refusal and on_truncated
    node,      \* where it is, and how it ended
    state,     \* SegmentState: what one segment hands to the next
    segment,   \* the segment that runs
    answers,   \* the answers of the models that the conversation holds
    calls,     \* the tool calls in them
    failures,  \* the attempts reported as failed
    ledger     \* how many answers were given, and asked for an output, and the crashes

vars == <<policy, node, state, segment, answers, calls, failures, ledger>>

Models == 0 .. LastPosition
FirstSlot == [index |-> 0, spent |-> 0]

\* `granted` are the approved calls the segment has run.
NewSegment == [answered |-> 0, rejected |-> <<>>, called |-> 0, granted |-> {}]

Init ==
    /\ policy \in [Outcomes -> {"fail", "retry"}
                                \cup (IF LastPosition > 0 THEN {"fallback"} ELSE {})]
    /\ node = [at |-> "asking", result |-> "none"]
    /\ state = [offset |-> 0, round |-> 0, slot |-> FirstSlot, results |-> 0]
    /\ segment = NewSegment
    /\ answers = <<>> /\ calls = <<>> /\ failures = <<>>
    /\ ledger = [paid |-> 0, judged |-> 0, crashes |-> 0]

CallsAt(places) == {i \in DOMAIN calls : calls[i].at \in places}

----------------------------------------------------------------------------
\* An answer comes from the first model of the rest of the chain that is reached.
Asks(p) ==
    /\ node.at = "asking" /\ CallsAt({"cleared"}) = {}
    /\ ledger.paid < MaxPaid
    /\ p \in state.slot.index .. LastPosition
Answers(p, fate) == answers' = Append(answers, [model |-> p, fate |-> fate])

\* The failures of a segment: each rejected answer by its number in the node. When
\* the segment fails, nothing came of the last of them.
Events(rejected, exhausted) ==
    [i \in DOMAIN rejected |->
        [attempt |-> state.offset + rejected[i], cause |-> "invalid",
         action |-> IF exhausted /\ i = Len(rejected) THEN "none" ELSE "repair"]]

Counts(judged) == ledger' = [ledger EXCEPT !.paid = @ + 1, !.judged = @ + judged]
Ends(result) == node' = [at |-> "ended", result |-> result]

Completes(p) ==
    /\ Asks(p) /\ Answers(p, "output")
    /\ failures' = failures \o Events(segment.rejected, FALSE)
    /\ Ends("succeeded")
    /\ Counts(1)
    /\ UNCHANGED <<policy, state, segment, calls>>

\* Slip: every segment may repair as often as the agent says.
AllRetries == Retries
OutputRetries == IF state.slot.spent < Retries THEN Retries - state.slot.spent ELSE 0

\* An answer that is no valid output is sent back to be repaired, in the same
\* segment, as long as the retries last.
Rejects(p) ==
    /\ Asks(p) /\ Answers(p, "invalid")
    /\ LET rejected == Append(segment.rejected, segment.answered + 1) IN
       \/ /\ Len(segment.rejected) < OutputRetries
          /\ segment' = [segment EXCEPT !.answered = @ + 1, !.rejected = rejected]
          /\ UNCHANGED <<node, failures>>
       \/ /\ Len(segment.rejected) >= OutputRetries
          /\ failures' = failures \o Events(rejected, TRUE)
          /\ Ends("failed")
          /\ UNCHANGED segment
    /\ Counts(1)
    /\ UNCHANGED <<policy, state, calls>>

----------------------------------------------------------------------------
\* Slip: whichever model answered, the slot is the one the segment began with.
SlotOfTheSegment(p) ==
    [index |-> state.slot.index, spent |-> state.slot.spent + Len(segment.rejected)]
\* Where the node stands after the answer of p: when a later model of the chain has
\* stood in, the node has moved on to it, with its own count.
AnsweredSlot(p) ==
    [index |-> p,
     spent |-> Len(segment.rejected) + (IF p = state.slot.index THEN state.slot.spent ELSE 0)]

\* The strategies: what is done, and the slot the next segment asks.
OutcomeStep(p, outcome) ==
    LET slot == AnsweredSlot(p) IN
    CASE policy[outcome] = "retry" /\ slot.spent < Retries ->
           [action |-> "retry", slot |-> [slot EXCEPT !.spent = @ + 1]]
      [] policy[outcome] = "fallback" /\ slot.index < LastPosition ->
           [action |-> "fallback", slot |-> [index |-> slot.index + 1, spent |-> 0]]
      [] OTHER -> [action |-> "none", slot |-> slot]

\* Slip: the next segment numbers its answers from the start of this one.
OffsetKept == state.offset
NextOffset == state.offset + segment.answered + 1

\* An answer that ends with a bad outcome is dropped: the request is made again, or
\* the node gives up.
Drops(p, outcome) ==
    /\ Asks(p) /\ Answers(p, outcome)
    /\ LET step == OutcomeStep(p, outcome)
           failure == [attempt |-> state.offset + segment.answered + 1, cause |-> outcome,
                       action |-> step.action]
       IN /\ failures' = failures \o Events(segment.rejected, FALSE) \o <<failure>>
          /\ \/ /\ step.action = "none"
                /\ Ends("failed")
                /\ UNCHANGED <<state, segment>>
             \/ /\ step.action # "none"
                /\ state' = [state EXCEPT !.offset = NextOffset, !.slot = step.slot, !.results = 0]
                /\ segment' = NewSegment
                /\ UNCHANGED node
    /\ Counts(1)
    /\ UNCHANGED <<policy, calls>>

----------------------------------------------------------------------------
\* A call is run within the segment, or between segments if it has effects; and a
\* guarded one only once somebody has agreed to it.
NewCall(tool) ==
    [tool |-> tool, approved |-> FALSE,
     at |-> CASE tool \in Guarded -> "waits"
              [] tool \in External \ Guarded -> "due"
              [] OTHER -> "settled",
     runs |-> IF tool \in Guarded \cup External THEN 0 ELSE 1]
WithinLimit(called) == state.results + segment.called + Cardinality(called) <= ToolLimit
NewCalls(called) == LET tools == SetToSeq(called) IN [i \in DOMAIN tools |-> NewCall(tools[i])]

\* The segment ends with calls it may not run. Its rejected answers are reported,
\* and how many they were is forgotten.
Defers(called) ==
    /\ node' = [node EXCEPT !.at = IF called \cap Guarded # {} THEN "deciding" ELSE "calling"]
    /\ state' = [state EXCEPT !.offset = NextOffset, !.results = Cardinality(called),
                              !.round = @ + (IF called \cap Guarded # {} THEN 1 ELSE 0)]
    /\ segment' = NewSegment
    /\ failures' = failures \o Events(segment.rejected, FALSE)
    /\ ledger' = [ledger EXCEPT !.paid = @ + 1, !.judged = 0]

CallsTools(p, called) ==
    /\ Asks(p) /\ Answers(p, "tools")
    /\ WithinLimit(called)
    /\ calls' = calls \o NewCalls(called)
    /\ \/ /\ called \cap (Guarded \cup External) = {}
          /\ segment' = [segment EXCEPT !.answered = @ + 1, !.called = @ + Cardinality(called)]
          /\ Counts(0)
          /\ UNCHANGED <<node, state, failures>>
       \/ /\ called \cap (Guarded \cup External) # {}
          /\ Defers(called)
    /\ UNCHANGED policy

\* The calls would exceed the limit, and none is run.
CallsTooManyTools(p, called) ==
    /\ Asks(p) /\ Answers(p, "tools")
    /\ ~WithinLimit(called)
    /\ failures' = failures \o Events(segment.rejected, TRUE)
    /\ Ends("failed")
    /\ Counts(0)
    /\ UNCHANGED <<policy, state, segment, calls>>

\* A tool that is run in the segment raises an exception the node has no code for.
\* It leaves the step without the segment's failures.
ToolRaises(p, called) ==
    /\ Asks(p) /\ Answers(p, "tools")
    /\ WithinLimit(called)
    /\ called \ (Guarded \cup External) # {}
    /\ calls' = calls \o NewCalls(called)
    /\ Ends("raised")
    /\ Counts(0)
    /\ UNCHANGED <<policy, state, segment, failures>>

\* Slip: who agrees to one call agrees to all of them.
Settled(granted) ==
    [i \in DOMAIN calls |->
        IF calls[i].at # "waits" THEN calls[i]
        ELSE [calls[i] EXCEPT !.at = IF granted # {} THEN "cleared" ELSE "settled",
                              !.approved = i \in granted]]
Verdicts(granted) ==
    [i \in DOMAIN calls |->
        IF calls[i].at # "waits" THEN calls[i]
        ELSE IF i \in granted THEN [calls[i] EXCEPT !.at = "cleared", !.approved = TRUE]
        ELSE [calls[i] EXCEPT !.at = "settled"]]

\* The approval gate answers for each call, or the wait runs out.
Decides(granted) ==
    /\ node.at = "deciding" /\ granted \subseteq CallsAt({"waits"})
    /\ calls' = Verdicts(granted)
    /\ node' = [node EXCEPT !.at = "calling"]
    /\ UNCHANGED <<policy, state, segment, answers, failures, ledger>>
NobodyDecides ==
    /\ node.at = "deciding"
    /\ Ends("failed")
    /\ UNCHANGED <<policy, state, segment, answers, calls, failures, ledger>>

\* A call between segments is a durable step of its own. If its process dies before
\* the result is recorded, it is made again.
Invokes(i) ==
    /\ node.at = "calling" /\ i \in CallsAt({"due"})
    /\ calls' = [calls EXCEPT ![i].runs = @ + 1, ![i].at = "settled"]
    /\ UNCHANGED <<policy, node, state, segment, answers, failures, ledger>>
DiesInCall(i) ==
    /\ node.at = "calling" /\ i \in CallsAt({"due"})
    /\ ledger.crashes < MaxCrashes
    /\ calls' = [calls EXCEPT ![i].runs = @ + 1]
    /\ ledger' = [ledger EXCEPT !.crashes = @ + 1]
    /\ UNCHANGED <<policy, node, state, segment, answers, failures>>
CallRaises(i) ==
    /\ node.at = "calling" /\ i \in CallsAt({"due"})
    /\ calls' = [calls EXCEPT ![i].runs = @ + 1]
    /\ Ends("failed")
    /\ UNCHANGED <<policy, state, segment, answers, failures, ledger>>

Resumes ==
    /\ node.at = "calling" /\ CallsAt({"due"}) = {}
    /\ node' = [node EXCEPT !.at = "asking"]
    /\ UNCHANGED <<policy, state, segment, answers, calls, failures, ledger>>

\* The segment runs the approved calls before it asks a model. Those with effects
\* end it at once: they are made between this segment and the next.
Cleared(i) ==
    IF calls[i].at # "cleared" THEN calls[i]
    ELSE IF calls[i].tool \in External THEN [calls[i] EXCEPT !.at = "due"]
    ELSE [calls[i] EXCEPT !.at = "settled", !.runs = @ + 1]
RunsGranted ==
    /\ node.at = "asking" /\ CallsAt({"cleared"}) # {}
    /\ calls' = [i \in DOMAIN calls |-> Cleared(i)]
    /\ \/ /\ \E i \in CallsAt({"cleared"}) : calls[i].tool \in External
          /\ node' = [node EXCEPT !.at = "calling"]
          /\ state' = [state EXCEPT !.results =
                           Cardinality({i \in CallsAt({"cleared"}) : calls[i].tool \in External})]
          /\ UNCHANGED segment
       \/ /\ \A i \in CallsAt({"cleared"}) : calls[i].tool \notin External
          /\ segment' = [segment EXCEPT !.granted = CallsAt({"cleared"})]
          /\ UNCHANGED <<node, state>>
    /\ UNCHANGED <<policy, answers, failures, ledger>>

----------------------------------------------------------------------------
\* The segment fails: no model of the chain could be reached, the call took too long
\* or went silent, or the limit of requests is reached.
CallFails ==
    /\ node.at = "asking"
    /\ failures' = failures \o Events(segment.rejected, TRUE)
    /\ Ends("failed")
    /\ UNCHANGED <<policy, state, segment, answers, calls, ledger>>

\* The process dies in a segment and recovers: the step begins again, and with it
\* every answer it had and every approved call it had run.
Dies ==
    /\ node.at = "asking"
    /\ ledger.crashes < MaxCrashes
    /\ answers' = SubSeq(answers, 1, Len(answers) - segment.answered)
    /\ calls' = [i \in DOMAIN calls |-> IF i \in segment.granted
                                        THEN [calls[i] EXCEPT !.at = "cleared"] ELSE calls[i]]
    /\ segment' = NewSegment
    /\ ledger' = [ledger EXCEPT !.crashes = @ + 1, !.judged = @ - Len(segment.rejected)]
    /\ UNCHANGED <<policy, node, state, failures>>

Answered(p) ==
    \/ Completes(p) \/ Rejects(p)
    \/ \E outcome \in Outcomes : Drops(p, outcome)
    \/ \E called \in (SUBSET Tools) \ {{}} :
         CallsTools(p, called) \/ CallsTooManyTools(p, called) \/ ToolRaises(p, called)
Called(i) == Invokes(i) \/ DiesInCall(i) \/ CallRaises(i)

Next ==
    \/ \E p \in Models : Answered(p)
    \/ \E granted \in SUBSET DOMAIN calls : Decides(granted)
    \/ \E i \in DOMAIN calls : Called(i)
    \/ NobodyDecides \/ Resumes \/ RunsGranted \/ CallFails \/ Dies

Spec == Init /\ [][Next]_vars

----------------------------------------------------------------------------
Fates == Outcomes \cup {"output", "invalid", "tools"}
TypeOK ==
    /\ policy \in [Outcomes -> {"fail", "retry", "fallback"}]
    /\ node \in [at : {"asking", "deciding", "calling", "ended"},
                 result : {"none", "succeeded", "failed", "raised"}]
    /\ state \in [offset : Nat, round : Nat, results : Nat,
                 slot : [index : Models, spent : 0 .. Retries]]
    /\ segment.answered \in Nat /\ segment.called \in Nat
    /\ segment.rejected \in Seq(1 .. segment.answered)
    /\ Len(segment.rejected) <= segment.answered
    /\ segment.granted \subseteq DOMAIN calls
    /\ answers \in Seq([model : Models, fate : Fates])
    /\ ledger \in [paid : Nat, judged : Nat, crashes : 0 .. MaxCrashes]

\* The run's history names each answer that failed, by its number in the whole
\* node, and once: across segments, repairs, reissued requests, answers that called
\* tools, and crashes (attempt_offset; failures.exchanges). A node that a tool's
\* exception ended keeps the failures of its last segment to itself.
Failed == {i \in DOMAIN answers : answers[i].fate \in Outcomes \cup {"invalid"}}
Reported(i) == \E k \in DOMAIN failures : failures[k].attempt = i
FailuresAreTheFailedAttempts ==
    /\ \A k \in DOMAIN failures :
          /\ failures[k].attempt \in Failed
          /\ failures[k].cause = answers[failures[k].attempt].fate
          /\ \A j \in 1 .. k - 1 : failures[j].attempt < failures[k].attempt
          /\ \A i \in Failed : i < failures[k].attempt => Reported(i)
    /\ node.result \in {"succeeded", "failed"} => \A i \in Failed : Reported(i)

\* What a reported failure says came next is what came: after "fallback" no model up
\* to the one that failed is asked again in this node, whoever had stood in for
\* whom and whatever was deferred since, after "retry" none before it, and after a
\* bad outcome that led to "none" there is no answer (outcome_step, reissued_state).
Stands(failure, i) ==
    CASE failure.action = "fallback" -> answers[i].model > answers[failure.attempt].model
      [] failure.action = "retry"    -> answers[i].model >= answers[failure.attempt].model
      [] failure.action = "none"     -> failure.cause = "invalid"
      [] OTHER                       -> TRUE
ActionsComeTrue ==
    \A k \in DOMAIN failures : \A i \in DOMAIN answers :
        i > failures[k].attempt => Stands(failures[k], i)

\* Whatever the policies, and however often one model stands in for another, a node
\* asks for an output at most so many times before it has one, fails or has a call
\* deferred: repairs, retries and fallbacks share one budget per model
\* (output_retries, answered_slot, retry_outcome, fallback_outcome).
AnswersAreBounded == ledger.judged <= (LastPosition + 1) * (Retries + 1)

\* A guarded call is run if and only if it was approved, whichever calls it came
\* with; an approved call with effects is deferred a second time and still is; and
\* only the death of a process runs a call again (ApprovalFilter, _resume, _call).
CallsMeetTheirDecision ==
    \A i \in DOMAIN calls :
        /\ calls[i].runs <= 1 + ledger.crashes
        /\ calls[i].tool \in Guarded /\ calls[i].runs > 0 => calls[i].approved
        /\ calls[i].at = "settled" =>
              (calls[i].runs > 0 <=> calls[i].approved \/ calls[i].tool \notin Guarded)

\* "one model answers at most output.retries + 1 times for a node"
OneModelAnswers ==
    \A p \in Models :
        Cardinality({i \in DOMAIN answers : answers[i].model = p /\ answers[i].fate # "tools"})
            <= Retries + 1

\* "caps how many tools the model may call in one step; past the cap the step fails"
ToolCallsAreCapped == Len(calls) <= ToolLimit

\* "A crash midway through a long tool-calling exchange only replays the one turn or
\* call that was actually running - not the turns the model already finished."
FinishedTurnsStand == [][Len(answers') >= Len(answers)]_vars
=============================================================================
