------------------------------ MODULE HumanWait ------------------------------
(****************************************************************************)
(* One wait for a person's answer: the waiter inside the node's workflow      *)
(* (engine/human/waiter.py), the record it publishes and the index row the    *)
(* inbox lists, and the calls of HumanWaits.resume (engine/human/resume.py)   *)
(* that send an answer to it and poll for what became of it.                  *)
(*                                                                          *)
(* DBOS is external: a message is kept by topic until it is received, a       *)
(* message whose key the workflow has seen is dropped, `recv` times out only  *)
(* with its topic empty, and a process that dies resumes at the step it had   *)
(* not recorded, so it is a slow process here.                                *)
(*                                                                          *)
(* Time is told relative to the deadline of the attempt that waits: before    *)
(* it, exactly at it, or past it.                                             *)
(****************************************************************************)
EXTENDS Integers, Sequences, FiniteSets

CONSTANTS
    Callers,           \* the calls of `resume`
    Ops,               \* the client_op_ids they may carry
    OpsOf,             \* and which of them each may
    ScriptedAttempts,  \* the attempts the run's answer book has an answer for
    StrayOps           \* the messages sent to a topic around `resume`

FirstAttempt == 1
Attempts == FirstAttempt .. FirstAttempt + 1

ASSUME ScriptAssumption == ScriptedAttempts \subseteq Attempts

VARIABLES
    plan,      \* ExpiryPlan of the node
    clock,     \* the time, relative to the deadline of the attempt that waits
    waiter,    \* where the waiter is, and its record
    record,    \* the record as published in the workflow's event
    indexed,   \* the row of the wait index
    topics,    \* by attempt, the messages not yet received
    sentKeys,  \* the idempotency keys the workflow has seen
    outcome,   \* WaitOutcome
    calls      \* the calls of `resume`: `attempt` is the form's, `to` the record's

waiterVars == <<waiter, record, indexed, outcome>>
vars == <<plan, clock, waiterVars, topics, sentKeys, calls>>

-----------------------------------------------------------------------------

Plans == {"fail", "default", "escalate"}
Outcomes == {"none", "answered", "expired", "defaulted", "default_rejected"}

Clock == 0 .. 2
Deadline == 1

ScriptOp(attempt) == <<"scripted", attempt>>
AllOps == Ops \cup StrayOps \cup {ScriptOp(a) : a \in ScriptedAttempts}
NoOp == <<"nobody", 0>>

\* Clients make the ids of their calls themselves: none is the id of another sender.
ASSUME OpsAssumption ==
    /\ OpsOf \in [Callers -> SUBSET Ops]
    /\ Ops \cap (StrayOps \cup {ScriptOp(a) : a \in ScriptedAttempts}) = {}
    /\ NoOp \notin Ops \cup StrayOps

Envelopes == [op : AllOps, sentAt : Clock, good : BOOLEAN]

WaitStates == {"none", "waiting", "resolved", "timed_out"}
WaitRecords == [state : WaitStates, attempt : Attempts, resolvedBy : AllOps \cup {NoOp},
                ignored : SUBSET AllOps]
NoRecord == [state |-> "none", attempt |-> FirstAttempt, resolvedBy |-> NoOp, ignored |-> {}]

WaiterSteps == {"open", "publish", "index", "deliver", "clock", "recv", "expire", "ended"}
Entry(r) == [state |-> r.state, attempt |-> r.attempt]

Refusals == {"not_waiting", "already_resumed", "timed_out", "stale", "invalid"}
Results == {"none", "accepted", "replayed", "sent"} \cup Refusals
Calls == [at : {"idle", "send", "confirm", "answered"}, op : Ops \cup {NoOp},
          attempt : Attempts, to : Attempts, sentAt : Clock, result : Results]
Idle == [at |-> "idle", op |-> NoOp, attempt |-> FirstAttempt, to |-> FirstAttempt, sentAt |-> 0,
         result |-> "none"]

\* wait_topic: each attempt has a topic of its own.
Topic(attempt) == attempt

-----------------------------------------------------------------------------

Init ==
    /\ plan \in Plans
    /\ clock = 0
    /\ waiter = [at |-> "open", rec |-> NoRecord, next |-> "deliver"]
    /\ record = NoRecord
    /\ indexed = Entry(NoRecord)
    /\ topics = [a \in Attempts |-> <<>>]
    /\ sentKeys = {}
    /\ outcome = "none"
    /\ calls = [c \in Callers |-> Idle]

\* Both adapters' `send`: a key the workflow has seen drops the message.
SendTo(attempt, envelope) ==
    /\ topics' = IF envelope.op \in sentKeys THEN topics
                 ELSE [topics EXCEPT ![Topic(attempt)] = Append(@, envelope)]
    /\ sentKeys' = sentKeys \cup {envelope.op}

-----------------------------------------------------------------------------
(* HumanWaiter *)

\* The waiter publishes `rec` next, and goes on at `next` once it is indexed.
Publishing(rec, next) == waiter' = [at |-> "publish", rec |-> rec, next |-> next]
GoesTo(next) == waiter' = [waiter EXCEPT !.at = next]

Open ==
    /\ waiter.at = "open"
    /\ Publishing([NoRecord EXCEPT !.state = "waiting"], "deliver")
    /\ clock' = 0
    /\ UNCHANGED <<plan, record, indexed, outcome, topics, sentKeys, calls>>

Publish ==
    /\ waiter.at = "publish"
    /\ record' = waiter.rec
    /\ GoesTo("index")
    /\ UNCHANGED <<plan, clock, indexed, outcome, topics, sentKeys, calls>>

\* Slip: only an open wait is indexed.
IndexOpenWait ==
    /\ waiter.at = "index"
    /\ indexed' = IF waiter.rec.state = "waiting" THEN Entry(waiter.rec) ELSE indexed
    /\ GoesTo(waiter.next)
    /\ outcome' = IF waiter.next = "ended" THEN "answered" ELSE outcome
    /\ UNCHANGED <<plan, clock, record, topics, sentKeys, calls>>

Index ==
    /\ waiter.at = "index"
    /\ indexed' = Entry(waiter.rec)
    /\ GoesTo(waiter.next)
    /\ outcome' = IF waiter.next = "ended" THEN "answered" ELSE outcome
    /\ UNCHANGED <<plan, clock, record, topics, sentKeys, calls>>

(* `_deliver_scripted`: the answer book was checked when the run started, and the
   envelope is as old as the wait. *)
DeliverScripted ==
    /\ waiter.at = "deliver"
    /\ LET attempt == waiter.rec.attempt IN
       IF attempt \in ScriptedAttempts
       THEN SendTo(attempt, [op |-> ScriptOp(attempt), sentAt |-> 0, good |-> TRUE])
       ELSE UNCHANGED <<topics, sentKeys>>
    /\ GoesTo("clock")
    /\ UNCHANGED <<plan, clock, record, indexed, outcome, calls>>

(* The head of `_receive`: with no time remaining the attempt times out, whatever
   its topic holds. *)
CheckClock ==
    /\ waiter.at = "clock"
    /\ IF clock >= Deadline
       THEN Publishing([waiter.rec EXCEPT !.state = "timed_out"], "expire")
       ELSE GoesTo("recv")
    /\ UNCHANGED <<plan, clock, record, indexed, outcome, topics, sentKeys, calls>>

\* Slip: an answer given at the deadline is late.
LateAtDeadline(envelope) == envelope.sentAt >= Deadline

\* judge_answer
Late(envelope) == envelope.sentAt > Deadline
Accepts(envelope) == ~Late(envelope) /\ envelope.good

Resolved(rec, op) == [rec EXCEPT !.state = "resolved", !.resolvedBy = op]
Ignored(rec, op) == [rec EXCEPT !.ignored = @ \cup {op}]

Receive ==
    /\ waiter.at = "recv"
    /\ topics[Topic(waiter.rec.attempt)] # <<>>
    /\ LET topic == Topic(waiter.rec.attempt)
           envelope == Head(topics[topic])
       IN /\ topics' = [topics EXCEPT ![topic] = Tail(@)]
          /\ IF Accepts(envelope)
             THEN Publishing(Resolved(waiter.rec, envelope.op), "ended")
             ELSE Publishing(Ignored(waiter.rec, envelope.op), "clock")
    /\ UNCHANGED <<plan, clock, record, indexed, outcome, sentKeys, calls>>

ReceiveTimesOut ==
    /\ waiter.at = "recv"
    /\ topics[Topic(waiter.rec.attempt)] = <<>>
    /\ clock >= Deadline
    /\ GoesTo("clock")
    /\ UNCHANGED <<plan, clock, record, indexed, outcome, topics, sentKeys, calls>>

Ends(result) ==
    /\ outcome' = result
    /\ GoesTo("ended")
    /\ UNCHANGED <<plan, clock, record, indexed, topics, sentKeys, calls>>

\* The escalated wait carries FAIL_ON_EXPIRY.
PlanOf(attempt) == IF attempt = FirstAttempt THEN plan ELSE "fail"

ExpireFails ==
    /\ waiter.at = "expire"
    /\ PlanOf(waiter.rec.attempt) = "fail"
    /\ Ends("expired")

\* `_apply_default`: the form may reject the plan's value.
ExpireDefaults ==
    /\ waiter.at = "expire"
    /\ PlanOf(waiter.rec.attempt) = "default"
    /\ \E result \in {"defaulted", "default_rejected"} : Ends(result)

(* `_escalate`: the next attempt has a deadline, a topic and an assignee of its own. *)
ExpireEscalates ==
    /\ waiter.at = "expire"
    /\ PlanOf(waiter.rec.attempt) = "escalate"
    /\ Publishing([waiter.rec EXCEPT !.state = "waiting", !.attempt = @ + 1], "deliver")
    /\ clock' = 0
    /\ UNCHANGED <<plan, record, indexed, outcome, topics, sentKeys, calls>>

WaiterStep ==
    \/ Open \/ Publish \/ Index \/ DeliverScripted \/ CheckClock
    \/ Receive \/ ReceiveTimesOut
    \/ ExpireFails \/ ExpireDefaults \/ ExpireEscalates

-----------------------------------------------------------------------------
(* HumanWaits.resume *)

Move(c, call) ==
    /\ calls' = [calls EXCEPT ![c] = call]
    /\ UNCHANGED <<plan, clock, waiterVars>>

\* Slip: no guard against the form of an earlier attempt.
RejectionOfAnyForm(attempt, good) ==
    IF record.state = "resolved" THEN "already_resumed"
    ELSE IF record.state = "timed_out" \/ clock > Deadline THEN "timed_out"
    ELSE IF ~good THEN "invalid"
    ELSE "none"

\* RESUME_GUARDS, in their order; "none" lets the answer through.
Rejection(attempt, good) ==
    IF record.state = "resolved" THEN "already_resumed"
    ELSE IF record.state = "timed_out" THEN "timed_out"
    ELSE IF attempt # record.attempt THEN "stale"
    ELSE IF clock > Deadline THEN "timed_out"
    ELSE IF ~good THEN "invalid"
    ELSE "none"

\* What `resume` returns at once, and the answer it lets through.
Answered(op, attempt, result) ==
    [at |-> "answered", op |-> op, attempt |-> attempt, to |-> FirstAttempt, sentAt |-> 0,
     result |-> result]
LetThrough(op, attempt) ==
    [at |-> "send", op |-> op, attempt |-> attempt, to |-> record.attempt, sentAt |-> clock,
     result |-> "none"]

(* The record, the clock and the guards. The form was rendered for the attempt
   that waited then. *)
Resume(c) ==
    /\ calls[c].at = "idle"
    /\ \E op \in OpsOf[c], attempt \in Attempts, good \in BOOLEAN :
         LET refused == Rejection(attempt, good)
         IN  /\ attempt <= record.attempt
             /\ Move(c, IF record.state = "none" THEN Answered(op, attempt, "not_waiting")
                        ELSE IF record.resolvedBy = op THEN Answered(op, attempt, "replayed")
                        ELSE IF refused = "none" THEN LetThrough(op, attempt)
                        ELSE Answered(op, attempt, refused))
    /\ UNCHANGED <<topics, sentKeys>>

SendAnswer(c) ==
    /\ calls[c].at = "send"
    /\ SendTo(calls[c].to, [op |-> calls[c].op, sentAt |-> calls[c].sentAt, good |-> TRUE])
    /\ Move(c, [calls[c] EXCEPT !.at = "confirm"])

\* Slip: a resolved wait confirms every answer.
ConfirmsAnyAnswer(call) ==
    IF record.state = "resolved" THEN "accepted"
    ELSE IF record.attempt # call.attempt \/ record.state = "timed_out" THEN "timed_out"
    ELSE "none"

\* confirmation: what the published record says of the answer, "none" while it says nothing.
Confirmation(call) ==
    IF record.resolvedBy = call.op THEN "accepted"
    ELSE IF call.op \in record.ignored THEN "invalid"
    ELSE IF record.attempt # call.attempt THEN "timed_out"
    ELSE IF record.state = "resolved" THEN "already_resumed"
    ELSE IF record.state = "timed_out" THEN "timed_out"
    ELSE "none"

Confirm(c) ==
    /\ calls[c].at = "confirm"
    /\ Confirmation(calls[c]) # "none"
    /\ Move(c, [calls[c] EXCEPT !.at = "answered", !.result = Confirmation(calls[c])])
    /\ UNCHANGED <<topics, sentKeys>>

\* The confirm window ends without a confirmation.
ConfirmEnds(c) ==
    /\ calls[c].at = "confirm"
    /\ Move(c, [calls[c] EXCEPT !.at = "answered", !.result = "sent"])
    /\ UNCHANGED <<topics, sentKeys>>

CallStep(c) == Resume(c) \/ SendAnswer(c) \/ Confirm(c) \/ ConfirmEnds(c)

-----------------------------------------------------------------------------

(* A message reaches a topic around `resume`: before the wait opens, past its
   deadline, or with a payload no form accepts. *)
Stray ==
    \E op \in StrayOps \ sentKeys, attempt \in Attempts, sentAt \in {0, 2}, good \in BOOLEAN :
        /\ SendTo(attempt, [op |-> op, sentAt |-> sentAt, good |-> good])
        /\ UNCHANGED <<plan, clock, waiterVars, calls>>

Tick ==
    /\ clock < 2
    /\ clock' = clock + 1
    /\ UNCHANGED <<plan, waiterVars, topics, sentKeys, calls>>

Next == WaiterStep \/ (\E c \in Callers : CallStep(c)) \/ Stray \/ Tick

Spec == Init /\ [][Next]_vars

(* Time passes and the engine runs the workflow. No call has to be made. *)
Fairness == WF_vars(WaiterStep) /\ WF_vars(Tick)
FairSpec == Spec /\ Fairness

-----------------------------------------------------------------------------

TypeOK ==
    /\ plan \in Plans
    /\ clock \in Clock
    /\ waiter \in [at : WaiterSteps, rec : WaitRecords, next : WaiterSteps]
    /\ record \in WaitRecords
    /\ indexed \in [state : WaitStates, attempt : Attempts]
    /\ topics \in [Attempts -> Seq(Envelopes)]
    /\ sentKeys \in SUBSET AllOps
    /\ outcome \in Outcomes
    /\ calls \in [Callers -> Calls]

(* Whoever is told "accepted" gave the answer the node goes on with: two people who
   answer at once are never both told so, and a repeated call is told so again
   whatever happened since. And an answer that every call refused is never the
   one: no refusal is given while the answer may still be taken from its topic
   (resume, confirmation). *)
CallersAreToldTheTruth ==
    /\ \A c \in Callers : calls[c].result \in {"accepted", "replayed"} =>
          record.state = "resolved" /\ record.resolvedBy = calls[c].op
    /\ \A op \in Ops : record.resolvedBy = op =>
          \E c \in Callers : calls[c].op = op /\ calls[c].result \notin Refusals

(* An answer is taken for the attempt its form was rendered for, and it was given
   by that attempt's deadline: an answer meant for the first assignee never
   settles the wait of the second. *)
AnswersMeetTheirAttempt ==
    \A op \in Ops : record.resolvedBy = op =>
        \E c \in Callers :
            /\ calls[c].op = op
            /\ calls[c].attempt = record.attempt
            /\ calls[c].sentAt <= Deadline

(* While the waiter listens the inbox lists its attempt, and once the wait has an
   outcome the inbox lists it no more (publish, index.record). *)
InboxShowsTheWait ==
    /\ waiter.at \in {"clock", "recv"} => indexed = Entry(waiter.rec) /\ record = waiter.rec
    /\ outcome # "none" => indexed = Entry(record) /\ record.state \in {"resolved", "timed_out"}

(* An answer that was given in time and heads the topic of a waiter that listens
   is taken: the guard of the call and the judgement of the waiter agree on the
   deadline, the instant of the deadline included. *)
HeardAnswerIsTaken ==
    \A op \in Ops :
        (/\ waiter.at = "recv"
         /\ topics[Topic(waiter.rec.attempt)] # <<>>
         /\ Head(topics[Topic(waiter.rec.attempt)]).op = op)
        ~> (record.state = "resolved" /\ record.resolvedBy = op)
=============================================================================
