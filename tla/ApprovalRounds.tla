--------------------------- MODULE ApprovalRounds ---------------------------
(****************************************************************************)
(* The waits one execution of an LLM node opens, round after round, for people *)
(* to decide the tool calls its model asked for (engine/human/approval.py,     *)
(* LlmNodeExecutor._resume), and the people who answer them. The rounds share  *)
(* one event, in which each wait replaces the record of the one before it, and *)
(* one index row; the attempt of a wait names its topic, starts at the number  *)
(* of the round and goes up when the wait escalates.                           *)
(*                                                                             *)
(* HumanWait has the inside of one wait: deadlines, answers that are refused by *)
(* the waiter, scripted answers. Here a wait publishes in one step, and every  *)
(* answer that is let through is given in time and fits the form. The segments *)
(* between two rounds are LlmNode's. DBOS is external.                         *)
(****************************************************************************)
EXTENDS Naturals, Sequences

CONSTANTS
    People,     \* who answers; nothing asks who the assignee is
    MaxRounds,  \* how often the model asks for a guarded tool
    Plans       \* what approval.on_timeout may be

ASSUME RoundsAssumption == MaxRounds \in Nat \ {0} /\ Plans \subseteq {"fail", "escalate"}

VARIABLES
    plan,     \* approval.on_timeout
    round,    \* SegmentState.approval_round
    wait,     \* the record of the wait, as published
    topics,   \* by attempt, the answers sent and not received
    sent,     \* the idempotency keys the workflow has seen
    person,   \* by person, the call of `resume` that is under way
    decided,  \* by round, the answer it went on with
    told      \* the answers whose callers were told "accepted" or "too late"

roundsVars == <<plan, round, wait, topics, sent, person, decided, told>>

Rounds == 1 .. MaxRounds
Attempts == 1 .. MaxRounds + 1

\* A form is rendered for the round and the attempt that wait then, and an answer
\* given on it keeps its client_op_id: an answer is told by its form.
Forms == [by : People, round : Rounds, attempt : Attempts]
NoForm == [by |-> "nobody", round |-> 0, attempt |-> 0]
AtRest == [at |-> "idle", form |-> NoForm, to |-> 0]

RoundsInit ==
    /\ plan \in Plans
    /\ round = 0
    /\ wait = [state |-> "none", attempt |-> 0, resolvedBy |-> NoForm]
    /\ topics = [a \in Attempts |-> <<>>]
    /\ sent = {}
    /\ person = [p \in People |-> AtRest]
    /\ decided = <<>>
    /\ told = {}

----------------------------------------------------------------------------
(* The node *)

Waits(attempt) == wait' = [state |-> "waiting", attempt |-> attempt, resolvedBy |-> NoForm]

\* Slip: every round waits for the first attempt.
OpensFirstAttempt ==
    /\ wait.state \in {"none", "resolved"} /\ round < MaxRounds
    /\ round' = round + 1
    /\ Waits(1)
    /\ UNCHANGED <<plan, topics, sent, person, decided, told>>

\* The model asks for a guarded tool, for the first time or once more.
OpensRound ==
    /\ wait.state \in {"none", "resolved"} /\ round < MaxRounds
    /\ round' = round + 1
    /\ Waits(round + 1)
    /\ UNCHANGED <<plan, topics, sent, person, decided, told>>

Receives ==
    /\ wait.state = "waiting" /\ topics[wait.attempt] # <<>>
    /\ LET answer == Head(topics[wait.attempt]) IN
       /\ topics' = [topics EXCEPT ![wait.attempt] = Tail(@)]
       /\ wait' = [wait EXCEPT !.state = "resolved", !.resolvedBy = answer]
       /\ decided' = Append(decided, answer)
    /\ UNCHANGED <<plan, round, sent, person, told>>

\* The deadline has passed, whatever the topic holds.
TimesOut ==
    /\ wait.state = "waiting"
    /\ wait' = [wait EXCEPT !.state = "timed_out"]
    /\ UNCHANGED <<plan, round, topics, sent, person, decided, told>>

\* A wait escalates once; a wait that does not fails the node.
Escalates ==
    /\ wait.state = "timed_out" /\ plan = "escalate" /\ wait.attempt = round
    /\ Waits(wait.attempt + 1)
    /\ UNCHANGED <<plan, round, topics, sent, person, decided, told>>

----------------------------------------------------------------------------
(* The people *)

Goes(p, call) ==
    /\ person' = [person EXCEPT ![p] = call]
    /\ UNCHANGED <<plan, round, wait, decided>>
Hears(p, result) ==
    /\ told' = told \cup (IF result = "turned_away" THEN {}
                          ELSE {[form |-> person[p].form, result |-> result]})
    /\ Goes(p, AtRest)
    /\ UNCHANGED <<topics, sent>>

\* A person who is in no call opens the form of the wait that is shown.
Looks(p) ==
    /\ person[p].at \in {"idle", "unsure"} /\ wait.state = "waiting"
    /\ Goes(p, [at |-> "form", to |-> 0,
                form |-> [by |-> p, round |-> round, attempt |-> wait.attempt]])
    /\ UNCHANGED <<topics, sent, told>>

\* RESUME_GUARDS: the wait is open, and the form was rendered for its attempt.
LetsThrough(form) == wait.state = "waiting" /\ form.attempt = wait.attempt

\* The answer is submitted: read the record, judge, and send to the record's topic.
Submits(p) ==
    /\ person[p].at = "form"
    /\ wait.resolvedBy # person[p].form /\ LetsThrough(person[p].form)
    /\ Goes(p, [person[p] EXCEPT !.at = "sending", !.to = wait.attempt])
    /\ UNCHANGED <<topics, sent, told>>
IsTurnedAway(p) ==
    /\ person[p].at = "form"
    /\ wait.resolvedBy # person[p].form /\ ~LetsThrough(person[p].form)
    /\ Hears(p, "turned_away")
\* A submission that is repeated with the same key (or retried by its client).
IsReplayed(p) ==
    /\ person[p].at = "form"
    /\ wait.resolvedBy = person[p].form
    /\ Hears(p, "accepted")

Sends(p) ==
    /\ person[p].at = "sending"
    /\ topics' = IF person[p].form \in sent THEN topics
                 ELSE [topics EXCEPT ![person[p].to] = Append(@, person[p].form)]
    /\ sent' = sent \cup {person[p].form}
    /\ Goes(p, [person[p] EXCEPT !.at = "confirming"])
    /\ UNCHANGED told

\* Slip: a resolved wait confirms every answer to its attempt.
ConfirmsTheWait(form) ==
    IF wait.attempt # form.attempt THEN "too_late"
    ELSE IF wait.state = "resolved" THEN "accepted"
    ELSE IF wait.state = "timed_out" THEN "too_late"
    ELSE "none"

\* confirmation: what the record says of an answer, "none" while it says nothing.
Confirmation(form) ==
    IF wait.resolvedBy = form THEN "accepted"
    ELSE IF wait.attempt # form.attempt THEN "too_late"
    ELSE IF wait.state = "resolved" THEN "turned_away"
    ELSE IF wait.state = "timed_out" THEN "too_late"
    ELSE "none"

Confirms(p) ==
    /\ person[p].at = "confirming"
    /\ Confirmation(person[p].form) # "none"
    /\ Hears(p, Confirmation(person[p].form))

\* The window of the confirmation ends. The client may repeat the call.
ConfirmEnds(p) ==
    /\ person[p].at = "confirming"
    /\ Goes(p, [person[p] EXCEPT !.at = "unsure"])
    /\ UNCHANGED <<topics, sent, told>>
Repeats(p) ==
    /\ person[p].at = "unsure"
    /\ Goes(p, [person[p] EXCEPT !.at = "form", !.to = 0])
    /\ UNCHANGED <<topics, sent, told>>

Acts(p) ==
    \/ Looks(p) \/ Submits(p) \/ IsTurnedAway(p) \/ IsReplayed(p)
    \/ Sends(p) \/ Confirms(p) \/ ConfirmEnds(p) \/ Repeats(p)

RoundsNext ==
    \/ OpensRound \/ Receives \/ TimesOut \/ Escalates
    \/ \E p \in People : Acts(p)

RoundsSpec == RoundsInit /\ [][RoundsNext]_roundsVars

----------------------------------------------------------------------------
\* The answer a round went on with was given on a form that showed the calls of that
\* round: one that was sent late, repeated, or stayed behind in the topic of an earlier
\* round never decides other calls. Where waits escalate, all that can be said is that
\* the form showed the same attempt (approval_round, wait_topic, reject_stale_attempt).
RoundsKeepApart ==
    \A r \in DOMAIN decided :
        \/ decided[r].round = r /\ decided[r].attempt \in {r, r + 1}
        \/ plan = "escalate" /\ decided[r].round = r - 1 /\ decided[r].attempt = r

\* Whoever is told "accepted" gave an answer that some round went on with, though its
\* record may be gone by then; and however often an answer is repeated it decides one
\* round only (confirmation, resolved_by, the idempotency keys).
AcceptedMeansDecided ==
    /\ \A t \in told : t.result = "accepted" => \E r \in DOMAIN decided : decided[r] = t.form
    /\ \A r, s \in DOMAIN decided : decided[r] = decided[s] => r = s

\* Each round has a wait of its own, and is not decided by an answer to another.
VerdictsMeetTheirRound == \A r \in DOMAIN decided : decided[r].round = r

\* "attempt changed while the answer was on its way to the workflow"
TooLateWasNotTaken ==
    \A t \in told : t.result = "too_late" => \A r \in DOMAIN decided : decided[r] # t.form
=============================================================================
