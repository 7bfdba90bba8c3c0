----------------------------- MODULE SeriesDrive -----------------------------
(****************************************************************************)
(* The drive loop of one series: `drive_attempts` with its AttemptWindow,    *)
(* AttemptQueue and SpendLedger, the attempt workflows it enqueues on the    *)
(* SERIES_ATTEMPTS queue, and the attempt rows they write.                   *)
(* (packages/aqven/src/aqven/series/workflow.py)                             *)
(*                                                                          *)
(* One process is the series workflow. It fills the window, pauses at the    *)
(* spend gate when nothing runs and work remains, and otherwise takes one    *)
(* finished attempt at a time. Every attempt is a process of its own.        *)
(* Money is counted in whole micros. The record's status, the approvals and  *)
(* the cancellation are the subject of SeriesLifecycle.                      *)
(****************************************************************************)
EXTENDS Integers, Sequences, FiniteSets, Functions

CONSTANTS
    Total,          \* SeriesRun.total: cases x repeats x variants
    Cap0,           \* the cap the drive starts with
    Caps,           \* the caps a person may continue the series with
    Costs,          \* what a run, or the judges of an attempt, may cost
    CallMax,        \* the most one model call costs
    Parallel,       \* the most model calls of one run that are under way together
    Lives,          \* the most lives of the process that one run spans
    ProbeWidth,     \* PROBE_WIDTH
    Lookahead,      \* LOOKAHEAD
    AttemptSlots,   \* ATTEMPT_SLOTS, the concurrency of the attempts queue
    RateLimitTries  \* RATE_LIMIT_TRIES

ASSUME TotalAssumption == Total \in Nat \ {0}
ASSUME CapAssumption == Cap0 \in Nat /\ Caps \subseteq Nat
ASSUME CostAssumption ==
    /\ Costs \subseteq Nat
    /\ CallMax \in Nat
    /\ {Parallel, Lives} \subseteq Nat \ {0}
ASSUME WidthAssumption ==
    /\ ProbeWidth \in Nat \ {0}
    /\ Lookahead \in Nat \ {0}
    /\ ProbeWidth <= Lookahead
    /\ AttemptSlots \in Nat \ {0}
    /\ RateLimitTries \in Nat \ {0}

VARIABLES
    pc,        \* where drive_attempts is
    ledger,    \* SpendLedger
    cursor,    \* AttemptQueue.cursor: the next ordinal that was never tried
    requeued,  \* AttemptQueue.requeued: tries to repeat, oldest first
    done,      \* AttemptQueue.done
    pending,   \* AttemptWindow.pending: the tries the loop waits for
    attempts,  \* the attempt workflows, by the id of the try
    rows       \* the attempt rows of the series store, by ordinal

queueVars == <<cursor, requeued, done>>
vars == <<pc, ledger, queueVars, pending, attempts, rows>>

-----------------------------------------------------------------------------

Ordinals == 0 .. Total - 1
FirstTry == 1

\* AttemptTry. Its workflow id is a function of both fields, and of nothing else.
Entries == [ordinal : Ordinals, tries : FirstTry .. RateLimitTries]

Ledgers == [cap : Nat, reserve : Nat, spent : Nat]

AttemptStates == {"none", "enqueued", "open", "judging", "closed", "requeued", "failed"}
Attempts == [state : AttemptStates, limit : Nat, cost : Nat, spend : Nat]
NoAttempt == [state |-> "none", limit |-> 0, cost |-> 0, spend |-> 0]

RowStates == {"none", "running", "finished"}
Rows == [state : RowStates, tries : 0 .. RateLimitTries, spend : Nat]
NoRow == [state |-> "none", tries |-> 0, spend |-> 0]

-----------------------------------------------------------------------------
(* SpendLedger *)

Committed(l, n) == l.spent + l.reserve * n
Headroom(l, n) == l.cap - Committed(l, n)
\* Slip: only the spend counts, not what is set aside.
OpenForSpend(l, n) == l.spent * 10 < l.cap * 9
OpenFor(l, n) == Committed(l, n) * 10 < l.cap * 9
\* Slip: every run may cost the whole cap.
LimitOfTheCap(l, n) == l.cap
LimitMicros(l, n) == IF Headroom(l, n) > 1 THEN Headroom(l, n) ELSE 1
AddSpend(l, usd) ==
    [l EXCEPT !.spent = @ + usd, !.reserve = IF usd > @ THEN usd ELSE @]

(* AttemptQueue and AttemptWindow *)

Waiting == cursor < Total \/ requeued # <<>>
Width == IF done > 0 THEN Lookahead ELSE ProbeWidth
Room == Waiting /\ Cardinality(pending) < Width
Active == Waiting \/ pending # {}
MayLaunch == Room /\ OpenFor(ledger, Cardinality(pending))
\* Slip: a repeated try keeps its number.
SameTry(e) == e
Again(e) == [e EXCEPT !.tries = @ + 1]

\* take: a fresh ordinal while there is one, then the oldest requeued try.
Taken == IF cursor < Total THEN [ordinal |-> cursor, tries |-> FirstTry] ELSE Head(requeued)
TakeNext ==
    IF cursor < Total
    THEN cursor' = cursor + 1 /\ UNCHANGED requeued
    ELSE requeued' = Tail(requeued) /\ UNCHANGED cursor

-----------------------------------------------------------------------------

Init ==
    /\ pc = "fill"
    /\ ledger = [cap |-> Cap0, reserve |-> 0, spent |-> 0]
    /\ cursor = 0
    /\ requeued = <<>>
    /\ done = 0
    /\ pending = {}
    /\ attempts = [e \in Entries |-> NoAttempt]
    /\ rows = [o \in Ordinals |-> NoRow]

(* One turn of the loop in `fill`: take an entry and enqueue its workflow. A
   workflow id that was used before gives back the workflow it already names. *)
Launch ==
    /\ pc = "fill"
    /\ MayLaunch
    /\ TakeNext
    /\ pending' = pending \cup {Taken}
    /\ attempts' =
         IF attempts[Taken].state = "none"
         THEN [attempts EXCEPT ![Taken] = [NoAttempt EXCEPT
                  !.state = "enqueued",
                  !.limit = LimitMicros(ledger, Cardinality(pending))]]
         ELSE attempts
    /\ UNCHANGED <<pc, ledger, done, rows>>

(* `fill` ends, and the loop tests `paused`: it enters the spend gate with
   nothing pending and work waiting, and else waits for a finished attempt. *)
FillEnds ==
    /\ pc = "fill"
    /\ Active
    /\ ~MayLaunch
    /\ pc' = IF pending = {} THEN "gate" ELSE "wait"
    /\ UNCHANGED <<ledger, queueVars, pending, attempts, rows>>

\* Slip: any cap continues the series.
ApproveAnyCap ==
    /\ pc = "gate"
    /\ \E cap \in Caps : ledger' = [ledger EXCEPT !.cap = cap]
    /\ pc' = "fill"
    /\ UNCHANGED <<queueVars, pending, attempts, rows>>

(* `spend_gate` returns the cap of the approval. `approved_cap` refused every cap
   that is not above the current one. *)
Approve ==
    /\ pc = "gate"
    /\ \E cap \in Caps :
         /\ cap > ledger.cap
         /\ ledger' = [ledger EXCEPT !.cap = cap]
    /\ pc' = "fill"
    /\ UNCHANGED <<queueVars, pending, attempts, rows>>

\* AttemptQueue.settle
Settle(e, again) ==
    IF again
    THEN requeued' = Append(requeued, Again(e)) /\ UNCHANGED <<cursor, done>>
    ELSE done' = done + 1 /\ UNCHANGED <<cursor, requeued>>

\* Slip: the row of a workflow that raised is left as it was.
UnfinishedRow(e) == rows[e.ordinal]

(* `fail_attempt`: the row of a workflow that raised is closed over whatever it
   held, with the spend of this try's run and of the judges. *)
FailedRow(e) == [state |-> "finished", tries |-> e.tries, spend |-> attempts[e].spend]

(* `next_finished`: any attempt that has returned or raised is popped, its spend
   added and its entry settled. *)
NextFinished(e) ==
    /\ pc = "wait"
    /\ e \in pending
    /\ attempts[e].state \in {"closed", "requeued", "failed"}
    /\ pending' = pending \ {e}
    /\ ledger' = AddSpend(ledger, attempts[e].spend)
    /\ Settle(e, attempts[e].state = "requeued")
    /\ rows' = IF attempts[e].state = "failed"
               THEN [rows EXCEPT ![e.ordinal] = FailedRow(e)]
               ELSE rows
    /\ pc' = "fill"
    /\ UNCHANGED attempts

(* `while window.active` is left. *)
Driven ==
    /\ pc = "fill"
    /\ ~Active
    /\ pc' = "driven"
    /\ UNCHANGED <<ledger, queueVars, pending, attempts, rows>>

-----------------------------------------------------------------------------
(* run_attempt *)

Running == {e \in Entries : attempts[e].state \in {"open", "judging"}}

(* What a run may have cost when it ends. Its branches share one UsageBudget, which
   reserves nothing: the calls that are under way when the limit is reached are
   answered and counted too. The budget is in memory, so a run that is recovered
   counts from nothing again. *)
Overspent(limit) == limit + Parallel * CallMax
RunCosts(limit) == {c \in Costs : c <= Lives * Overspent(limit)}

(* The queue starts the workflow and `open_attempt` upserts the row: an existing
   row only takes the new run id, and only while it is running. *)
OpenAttempt(e) ==
    /\ attempts[e].state = "enqueued"
    /\ Cardinality(Running) < AttemptSlots
    /\ attempts' = [attempts EXCEPT ![e].state = "open"]
    /\ rows' = [rows EXCEPT ![e.ordinal] =
                  CASE @.state = "none"    -> [@ EXCEPT !.state = "running", !.tries = e.tries]
                    [] @.state = "running" -> [@ EXCEPT !.tries = e.tries]
                    [] OTHER               -> @]
    /\ UNCHANGED <<pc, ledger, queueVars, pending>>

(* The subject's run ends, and `inspect_attempt` reads its cost. A rate-limited
   try that `requeues` allows returns a requeued summary and leaves the row be. *)
SubjectEnds(e) ==
    /\ attempts[e].state = "open"
    /\ \E cost \in RunCosts(attempts[e].limit), rateLimited \in BOOLEAN :
         attempts' = [attempts EXCEPT ![e] =
            IF rateLimited /\ e.tries < RateLimitTries
            THEN [@ EXCEPT !.state = "requeued", !.cost = cost, !.spend = cost]
            ELSE [@ EXCEPT !.state = "judging", !.cost = cost]]
    /\ UNCHANGED <<pc, ledger, queueVars, pending, rows>>

(* The judges run, each in a run of its own, and `close_attempt` writes the
   finished row with both costs. *)
CloseAttempt(e) ==
    /\ attempts[e].state = "judging"
    /\ \E checks \in Costs :
         LET spend == attempts[e].cost + checks IN
         /\ attempts' = [attempts EXCEPT ![e].state = "closed", ![e].spend = spend]
         /\ rows' = [rows EXCEPT ![e.ordinal] =
                       [state |-> "finished", tries |-> e.tries, spend |-> spend]]
    /\ UNCHANGED <<pc, ledger, queueVars, pending>>

(* The workflow raises, or is cancelled, between two of its steps. `run_spend`
   later reads what its runs had cost until then. *)
AttemptRaises(e) ==
    /\ attempts[e].state \in {"enqueued", "open", "judging"}
    /\ \E more \in {0} \cup Costs :
         /\ attempts[e].state = "enqueued" => more = 0
         /\ attempts' = [attempts EXCEPT ![e].state = "failed",
                                         ![e].spend = attempts[e].cost + more]
    /\ UNCHANGED <<pc, ledger, queueVars, pending, rows>>

-----------------------------------------------------------------------------

SeriesStep == Launch \/ FillEnds \/ (\E e \in Entries : NextFinished(e)) \/ Driven
AttemptStep(e) == OpenAttempt(e) \/ SubjectEnds(e) \/ CloseAttempt(e) \/ AttemptRaises(e)
Next == SeriesStep \/ Approve \/ (\E e \in Entries : AttemptStep(e))

Spec == Init /\ [][Next]_vars

(* The executor runs the workflows it has started, and a person who keeps
   continuing a paused series is what it needs to end. *)
Fairness ==
    /\ WF_vars(SeriesStep)
    /\ WF_vars(Approve)
    /\ \A e \in Entries : WF_vars(AttemptStep(e))
FairSpec == Spec /\ Fairness

-----------------------------------------------------------------------------

TypeOK ==
    /\ pc \in {"fill", "wait", "gate", "driven"}
    /\ ledger \in Ledgers
    /\ cursor \in 0 .. Total
    /\ requeued \in Seq(Entries)
    /\ done \in Nat
    /\ pending \in SUBSET Entries
    /\ attempts \in [Entries -> Attempts]
    /\ rows \in [Ordinals -> Rows]

-----------------------------------------------------------------------------
(* Where an ordinal is: the queue, the window and the rows tell it apart. *)

OrdinalsOf(S) == {e.ordinal : e \in S}
Requeued == Range(requeued)
Fresh == cursor .. Total - 1
Returned(e) == attempts[e].state \in {"closed", "requeued", "failed"}
Uncounted == Fresh \cup OrdinalsOf(pending) \cup OrdinalsOf(Requeued)
Counted == Ordinals \ Uncounted

OneTryPerOrdinal ==
    /\ \A e, f \in pending \cup Requeued : e.ordinal = f.ordinal => e = f
    /\ \A i, j \in DOMAIN requeued : requeued[i] = requeued[j] => i = j
    /\ pending \cap Requeued = {}
    /\ \A e \in pending \cup Requeued : e.ordinal < cursor

(* Every ordinal is in one place: never tried, pending once, requeued once, or
   counted; and `done` is the number of the counted ones. So a series of `total`
   attempts counts each of them once, whatever order they finish or are requeued
   in (AttemptQueue.take and settle, AttemptWindow.next_finished). *)
EachAttemptCountedOnce ==
    /\ OneTryPerOrdinal
    /\ done = Cardinality(Counted)

(* A counted attempt has a finished row, so the analysis that follows the drive
   reads one finished row for every attempt of the plan, the failed and the
   repeated ones included (fail_attempt, close_attempt). *)
CountedAttemptsHaveRows ==
    \A o \in Counted : rows[o].state = "finished"

(* Until an attempt has counted, at most one runs: the probe that tells the
   ledger what an attempt costs. A requeued probe does not open the window, and
   the window never exceeds its lookahead (AttemptQueue.width). *)
ProbeRunsAlone ==
    /\ Cardinality(pending) <= Lookahead
    /\ done = 0 => Cardinality(pending) <= ProbeWidth

(* Before any attempt has counted, the series has spent no more than its cap and
   the calls one run has under way together, once for every life of the process
   the probe spans: its limit is what is left of the cap
   (SpendLedger.limit_micros), and every life holds it to that limit anew. *)
ProbeStaysWithinCap ==
    done = 0 => ledger.spent <= Lives * Overspent(ledger.cap)

(* A series pauses only when it has to: work waits, nothing runs, and 90% of the
   cap is spent. No running attempt is left behind at the gate. *)
PauseIsNearTheCap ==
    pc = "gate" =>
        /\ Waiting
        /\ pending = {}
        /\ ledger.spent * 10 >= ledger.cap * 9

(* The series ends with every attempt of the plan counted. *)
DrivenIsComplete ==
    pc = "driven" =>
        /\ Counted = Ordinals
        /\ \A e \in Entries : attempts[e].state = "none" \/ Returned(e)

(* A try is enqueued under a workflow id that was never used: a repeated ordinal
   gets a new id, so it runs again instead of returning the first try's result
   (AttemptTry.again, try_workflow_id). *)
TriesNeverReuseAWorkflow ==
    [][pending' \ pending \subseteq {e \in Entries : attempts[e].state = "none"}]_vars

(* No try is enqueued once 90% of the cap is spent, nor does the cap ever
   shrink (fill, spend_gate). *)
NoLaunchAtTheThreshold ==
    [][/\ (\E e \in Entries : attempts[e].state = "none" /\ attempts'[e].state # "none")
            => ledger.spent * 10 < ledger.cap * 9
       /\ ledger'.cap >= ledger.cap]_vars

(* The drive ends, as long as a person continues the series when it pauses: no
   attempt is left at the back of the queue, and the loop never waits for a window
   that is empty (AttemptWindow.active, paused). *)
DriveEnds == <>(pc = "driven")
=============================================================================
