------------------------------- MODULE FanRun -------------------------------
(****************************************************************************)
(* A run with one node that fans out: the run's workflow (engine/interpreter, *)
(* engine/control/parallel and mapping), the branch workflows it starts and   *)
(* collects, the event stream it writes, and the summary row that the         *)
(* projection and the listing keep of that stream (engine/summaries).         *)
(*                                                                          *)
(* The run is replayed from its first line after a crash. DBOS is external:   *)
(* it keeps the answer of every step of a workflow in the order the steps     *)
(* were taken, gives a replayed run those answers, refuses any step of a      *)
(* cancelled workflow, and starts a child of a known id once. Starting a      *)
(* branch, writing to the stream, waiting for the first branch to end, taking *)
(* a branch's result and cancelling branches are such steps; everything else  *)
(* the run knows is in memory and is worked out again.                        *)
(****************************************************************************)
EXTENDS Integers, Sequences, FiniteSets, SequencesExt

CONSTANTS
    Nodes,       \* the fan nodes a run may be of
    Listed,      \* those whose runs are listed while they go on
    Ends,        \* how a branch may end
    MaxCrashes,  \* crashes of the server
    MaxLost      \* projections the summary database refuses

VARIABLES
    node,        \* the node of this run
    status,      \* status of the run's workflow
    journal,     \* the steps recorded for it
    branches,    \* status of each branch workflow
    stream,      \* the run's event stream
    run,         \* what the executor of the run holds in memory
    row,         \* the run's row in aqven_run_summaries
    lister,      \* a listing of runs in progress: RunSummaries.refresh or ready
    backfilled,  \* RunSummaries.backfilled of this server
    crashes, lost

vars == <<node, status, journal, branches, stream, run, row, lister, backfilled, crashes, lost>>

-----------------------------------------------------------------------------

JoinPolicies == {"all", "any", "first_success", "quorum_skip", "quorum_fail"}
ItemPolicies == {"skip", "default", "fail"}
ParallelNodes == [kind : {"parallel"}, policy : JoinPolicies, minOk : Nat, width : Nat \ {0},
                  concurrency : {0}, ordered : BOOLEAN]
MapNodes == [kind : {"map"}, policy : ItemPolicies, minOk : {0}, width : Nat, concurrency : Nat,
             ordered : BOOLEAN]
FanNodes == ParallelNodes \cup MapNodes

ASSUME NodesAssumption == Nodes \subseteq FanNodes /\ Listed \subseteq Nodes
ASSUME EndsAssumption == Ends \subseteq {"ok", "failed", "error"}
ASSUME BoundsAssumption == MaxCrashes \in Nat /\ MaxLost \in Nat

IsMap == node.kind = "map"
Kids == 1 .. node.width
Fan == 0

\* MapRun.limit; a parallel node starts all its branches.
Limit == IF IsMap /\ node.concurrency # 0 THEN node.concurrency ELSE node.width

RunStarted == <<"run_started", Fan, "">>
NodeStarted(n) == <<"node_started", n, "">>
NodeFinished(n, word) == <<"node_finished", n, word>>
Progress(done) == <<"progress", done, "">>
ItemRecovered(k) == <<"recovered", k, node.policy>>
RunFinished(bill, word) == <<"run_finished", bill, word>>

Finished(log) == log # <<>> /\ log[Len(log)][1] = "run_finished"

-----------------------------------------------------------------------------
(* The run in memory *)

Fresh == [at |-> "write", outbox |-> <<RunStarted>>, then |-> "boundary", pos |-> 0,
          started |-> 0, pending |-> {}, ticket |-> 0, good |-> {}, bad |-> {},
          deferred |-> {}, done |-> 0, outcome |-> "open", bill |-> 0, log |-> <<>>]

\* Its workflow returned, or was cancelled and raised at the step it came to.
Gone == [Fresh EXCEPT !.at = "gone"]

\* Branches in the order they were started.
InOrder(ks) ==
    CHOOSE s \in [1 .. Cardinality(ks) -> ks] : \A i, j \in DOMAIN s : i < j => s[i] < s[j]

\* The events a branch buffered, as its result carried them.
Buffered(r, k) == <<NodeStarted(k), NodeFinished(k, IF k \in r.good THEN "ok" ELSE "failed")>>

\* _flush_deferred: all those of the first branch, then those of the next.
Told(r) ==
    [i \in 1 .. 2 * Cardinality(r.deferred) |->
        Buffered(r, InOrder(r.deferred)[(i + 1) \div 2])[IF i % 2 = 1 THEN 1 ELSE 2]]

\* Slip: the deferred events follow the event that was to wait for them.
EmitsFirst(r, event, then) ==
    [r EXCEPT !.at = "write", !.outbox = <<event>> \o Told(r), !.deferred = {},
              !.then = then]

\* StreamEventSink.emit: the deferred events go first.
Emits(r, event, then) ==
    [r EXCEPT !.at = "write", !.outbox = Told(r) \o <<event>>, !.deferred = {},
              !.then = then]

Closes(r) == Emits(r, NodeFinished(Fan, r.outcome), "closed")

\* Slip: a node that succeeds leaves the branches it did not need.
LeavesOnlyFailuresClean(r, outcome) ==
    LET left == [r EXCEPT !.outcome = outcome] IN
    IF r.pending = {} \/ outcome = "ok" THEN Closes([left EXCEPT !.pending = {}])
    ELSE [left EXCEPT !.at = "cancel"]

\* The `finally` of both nodes: the branches still pending are cancelled.
Leaves(r, outcome) ==
    LET left == [r EXCEPT !.outcome = outcome] IN
    IF r.pending = {} THEN Closes(left) ELSE [left EXCEPT !.at = "cancel"]

\* MapRun._drain with _fill, ParallelRun._start with _join: on to the next await.
GoesOn(r) ==
    IF r.started < node.width /\ Cardinality(r.pending) < Limit
    THEN [r EXCEPT !.at = "start"]
    ELSE IF r.pending = {} THEN Leaves(r, IF IsMap THEN "ok" ELSE "failed")
    ELSE IF node.ordered
    THEN [r EXCEPT !.at = "result", !.ticket = CHOOSE k \in r.pending : \A l \in r.pending : k <= l]
    ELSE [r EXCEPT !.at = "first"]

ItemDone(r) == Emits([r EXCEPT !.done = @ + 1], Progress(r.done + 1), "on")

\* What follows an emit.
Proceeds(r) ==
    IF r.then = "boundary" THEN [r EXCEPT !.at = "boundary"]
    ELSE IF r.then = "enter" /\ IsMap THEN Emits(r, Progress(0), "on")
    ELSE IF r.then \in {"enter", "on"} THEN GoesOn(r)
    ELSE IF r.then = "settled" THEN ItemDone(r)
    ELSE IF r.then = "closed" THEN Emits(r, RunFinished(r.bill, r.outcome), "return")
    ELSE [r EXCEPT !.at = "return"]

\* Slip: quorum counts the branches that ended.
EnoughEnded(r) == Cardinality(r.good \cup r.bad) >= node.minOk

Enough(r) == Cardinality(r.good) >= node.minOk

\* join_all, join_any, first_success, quorum
Join(r) ==
    CASE node.policy = "all" ->
            IF r.bad # {} THEN "fail" ELSE IF r.pending # {} THEN "wait" ELSE "done"
      [] node.policy = "any" ->
            IF r.bad # {} THEN "fail" ELSE IF r.good = {} THEN "wait" ELSE "done"
      [] node.policy = "first_success" ->
            IF r.good # {} THEN "done" ELSE IF r.pending # {} THEN "wait" ELSE "fail"
      [] node.policy = "quorum_fail" /\ r.bad # {} -> "fail"
      [] OTHER ->
            IF Enough(r) THEN "done"
            ELSE IF Cardinality(r.good) + Cardinality(r.pending) < node.minOk THEN "fail"
            ELSE "wait"

BranchJoined(r) ==
    IF Join(r) = "wait" THEN GoesOn(r)
    ELSE Leaves(r, IF Join(r) = "done" THEN "ok" ELSE "failed")

\* MapRun._settle and _apply
ItemSettled(r, k) ==
    IF k \in r.good THEN ItemDone(r)
    ELSE IF node.policy = "fail" THEN Leaves(r, "failed")
    ELSE Emits(r, ItemRecovered(k), "settled")

\* collect_branch and what the node makes of it; a branch that raised has no result.
Collected(r, k, end) ==
    LET left == [r EXCEPT !.pending = @ \ {k}, !.ticket = 0]
        got == [left EXCEPT !.bill = @ + 1, !.deferred = @ \cup {k},
                            !.good = IF end = "ok" THEN @ \cup {k} ELSE @,
                            !.bad = IF end = "failed" THEN @ \cup {k} ELSE @]
    IN IF end = "error" THEN Leaves(left, "failed")
       ELSE IF IsMap THEN ItemSettled(got, k) ELSE BranchJoined(got)

-----------------------------------------------------------------------------
(* Its steps *)

Steps == {"boundary", "write", "start", "first", "result", "cancel"}

Replaying == run.pos < Len(journal)
Recorded == journal[run.pos + 1]

\* What the step the run is at is about.
About(r) == IF r.at = "write" THEN <<Head(r.outbox)>>
            ELSE IF r.at = "start" THEN <<r.started + 1>>
            ELSE IF r.at = "result" THEN <<r.ticket>>
            ELSE IF r.at \in {"first", "cancel"} THEN InOrder(r.pending)
            ELSE <<>>

Took(r) == [r EXCEPT !.pos = @ + 1]

\* Slip: the answer of a wait is not recorded but found anew.
StepForgetsWaits(answers, answer) ==
    /\ status = "PENDING"
    /\ IF Replaying
       THEN /\ Recorded.step = run.at
            /\ IF run.at = "first" THEN answer \in answers ELSE answer = Recorded.answer
            /\ UNCHANGED journal
       ELSE /\ answer \in answers
            /\ journal' = Append(journal, [step |-> run.at, about |-> About(run), answer |-> answer])

\* A step of the run's workflow, answered now or by the journal.
Step(answers, answer) ==
    /\ status = "PENDING"
    /\ IF Replaying
       THEN Recorded.step = run.at /\ answer = Recorded.answer /\ UNCHANGED journal
       ELSE /\ answer \in answers
            /\ journal' = Append(journal, [step |-> run.at, about |-> About(run), answer |-> answer])

Boundary ==
    /\ run.at = "boundary"
    /\ Step({0}, 0)
    /\ run' = Emits(Took(run), NodeStarted(Fan), "enter")
    /\ UNCHANGED <<node, status, branches, stream, row, lister, backfilled, crashes, lost>>

WriteEvent ==
    /\ run.at = "write"
    /\ Step({0}, 0)
    /\ stream' = IF Replaying THEN stream ELSE Append(stream, Head(run.outbox))
    /\ run' = [Took(run) EXCEPT !.outbox = Tail(@), !.log = Append(@, Head(run.outbox)),
                           !.at = IF Len(run.outbox) = 1 THEN "project" ELSE "write"]
    /\ UNCHANGED <<node, status, branches, row, lister, backfilled, crashes, lost>>

StartBranch ==
    /\ run.at = "start"
    /\ Step({0}, 0)
    /\ branches' = IF Replaying THEN branches
                   ELSE [branches EXCEPT ![run.started + 1] = "running"]
    /\ run' = GoesOn([Took(run) EXCEPT !.started = @ + 1, !.pending = @ \cup {run.started + 1}])
    /\ UNCHANGED <<node, status, stream, row, lister, backfilled, crashes, lost>>

FirstFinished ==
    /\ run.at = "first"
    /\ \E k \in run.pending :
        /\ Step({l \in run.pending : branches[l] \in Ends}, k)
        /\ run' = [Took(run) EXCEPT !.at = "result", !.ticket = k]
    /\ UNCHANGED <<node, status, branches, stream, row, lister, backfilled, crashes, lost>>

Collect ==
    /\ run.at = "result"
    /\ \E end \in Ends :
        /\ Step({branches[run.ticket]}, end)
        /\ run' = Collected(Took(run), run.ticket, end)
    /\ UNCHANGED <<node, status, branches, stream, row, lister, backfilled, crashes, lost>>

CancelPending ==
    /\ run.at = "cancel"
    /\ Step({0}, 0)
    /\ branches' = IF Replaying THEN branches
                   ELSE [k \in Kids |-> IF k \in run.pending /\ branches[k] = "running"
                                        THEN "cancelled" ELSE branches[k]]
    /\ run' = Closes([Took(run) EXCEPT !.pending = {}])
    /\ UNCHANGED <<node, status, stream, row, lister, backfilled, crashes, lost>>

Return ==
    /\ run.at = "return"
    /\ status = "PENDING"
    /\ status' = "SUCCESS"
    /\ run' = Gone
    /\ UNCHANGED <<node, journal, branches, stream, row, lister, backfilled, crashes, lost>>

-----------------------------------------------------------------------------
(* The summary row *)

NoRow == [admission |-> "none", seq |-> 0, log |-> <<>>, settled |-> FALSE, seen |-> "none"]

(* PROJECT: a row keeps the fold of the longest log it was given. The fold is a
   function of the log it was made of, which stands for it here. *)
Projected(r, seq, log) ==
    IF r.admission # "none" /\ seq <= r.seq THEN r
    ELSE [r EXCEPT !.admission = IF @ = "none" THEN "pending" ELSE @, !.seq = seq, !.log = log,
                   !.settled = @ \/ Finished(log)]

Resumes == IF status = "PENDING" THEN Proceeds(run) ELSE Gone

\* RunProjection.written, which the run waits for but which is no step of it.
Project ==
    /\ run.at = "project"
    /\ row' = Projected(row, Len(run.log), run.log)
    /\ run' = Resumes
    /\ UNCHANGED <<node, status, journal, branches, stream, lister, backfilled, crashes, lost>>

\* The summary database refuses the write: the run logs a warning and goes on.
ProjectFails ==
    /\ run.at = "project"
    /\ lost < MaxLost
    /\ lost' = lost + 1
    /\ run' = Resumes
    /\ UNCHANGED <<node, status, journal, branches, stream, row, lister, backfilled, crashes>>

Idle == [at |-> "idle", backfills |-> FALSE, seen |-> "none", log |-> <<>>]

(* OPEN_ROWS, or a run that `ready` finds without a row: RunSummaries looks for
   those once in the life of a server, before the first listing. *)
ListReads ==
    /\ lister.at = "idle" /\ node \in Listed
    /\ \/ row.admission = "none" /\ ~backfilled
       \/ row.admission = "pending"
       \/ row.admission = "listed" /\ ~row.settled
    /\ lister' = [Idle EXCEPT !.at = "observe", !.backfills = row.admission = "none",
                              !.seen = IF Finished(row.log) THEN "finished" ELSE "none"]
    /\ backfilled' = (backfilled \/ row.admission # "none")
    /\ UNCHANGED <<node, status, journal, branches, stream, run, row, crashes, lost>>

\* DbosWorkflowCatalog.observe; `settled_out_of_band` decides whether to fold.
ListObserves ==
    /\ lister.at = "observe"
    /\ lister' = [lister EXCEPT !.seen = status,
                     !.at = IF lister.backfills \/ (status # "PENDING" /\ lister.seen # "finished")
                            THEN "fold" ELSE "apply"]
    /\ UNCHANGED <<node, status, journal, branches, stream, run, row, backfilled, crashes, lost>>

\* RunSummaries._folded
ListFolds ==
    /\ lister.at = "fold"
    /\ lister' = [lister EXCEPT !.at = "repair", !.log = stream]
    /\ UNCHANGED <<node, status, journal, branches, stream, run, row, backfilled, crashes, lost>>

\* Slip: a run that was folded counts as settled.
RepairedAlways(r) == [Projected(r, Len(lister.log), lister.log) EXCEPT !.settled = TRUE]

\* Slip: what settles a row is only its last event.
RepairedNever(r) == Projected(r, Len(lister.log), lister.log)

\* PROJECT and SETTLE of what was folded: a row is settled when its run has ended.
Repaired(r) ==
    LET folded == Projected(r, Len(lister.log), lister.log)
    IN [folded EXCEPT !.settled = @ \/ lister.seen # "PENDING"]

\* SqliteRunSummaryStore.apply: ADMIT or OBSERVE, PROJECT and SETTLE in one transaction.
ListApplies ==
    /\ lister.at \in {"apply", "repair"}
    /\ LET admitted == [row EXCEPT !.admission = "listed", !.seen = lister.seen]
       IN row' = IF lister.at = "repair" THEN Repaired(admitted) ELSE admitted
    /\ backfilled' = TRUE
    /\ lister' = Idle
    /\ UNCHANGED <<node, status, journal, branches, stream, run, crashes, lost>>

-----------------------------------------------------------------------------
(* The world around the run *)

BranchEnds(k, end) ==
    /\ branches[k] = "running"
    /\ branches' = [branches EXCEPT ![k] = end]
    /\ UNCHANGED <<node, status, journal, stream, run, row, lister, backfilled, crashes, lost>>

\* DbosEngineFacade.cancel, once its view showed a run that had not ended.
CancelRun ==
    /\ status = "PENDING"
    /\ status' = "CANCELLED"
    /\ branches' = [k \in Kids |-> IF branches[k] = "running" THEN "cancelled" ELSE branches[k]]
    /\ run' = IF run.at = "project" THEN run ELSE Gone
    /\ UNCHANGED <<node, journal, stream, row, lister, backfilled, crashes, lost>>

\* The server dies; the next one replays the run unless it has ended.
Crash ==
    /\ crashes < MaxCrashes
    /\ crashes' = crashes + 1
    /\ run' = IF status = "PENDING" THEN Fresh ELSE Gone
    /\ lister' = Idle
    /\ backfilled' = FALSE
    /\ UNCHANGED <<node, status, journal, branches, stream, row, lost>>

Init ==
    /\ node \in Nodes
    /\ status = "PENDING"
    /\ journal = <<>>
    /\ branches = [k \in Kids |-> "unborn"]
    /\ stream = <<>>
    /\ run = Fresh
    /\ row = NoRow
    /\ lister = Idle
    /\ backfilled = TRUE
    /\ crashes = 0
    /\ lost = 0

RunStep == Boundary \/ WriteEvent \/ StartBranch \/ FirstFinished \/ Collect \/ CancelPending
           \/ Return \/ Project \/ ProjectFails
ListStep == ListReads \/ ListObserves \/ ListFolds \/ ListApplies
SomeBranchEnds == \E k \in Kids, end \in Ends : BranchEnds(k, end)

Next == RunStep \/ ListStep \/ SomeBranchEnds \/ CancelRun \/ Crash

Spec == Init /\ [][Next]_vars

(* The executor goes on, branches end, and runs keep being listed. *)
FairSpec ==
    /\ Spec
    /\ WF_vars(RunStep) /\ WF_vars(ListStep) /\ WF_vars(SomeBranchEnds)

-----------------------------------------------------------------------------

Statuses == {"PENDING", "SUCCESS", "CANCELLED"}

TypeOK ==
    /\ node \in Nodes
    /\ status \in Statuses
    /\ branches \in [Kids -> Ends \cup {"unborn", "running", "cancelled"}]
    /\ run.at \in Steps \cup {"project", "return", "gone"}
    /\ run.pos \in 0 .. Len(journal)
    /\ run.started \in 0 .. node.width /\ run.done \in 0 .. node.width
    /\ run.pending \subseteq 1 .. run.started
    /\ (run.good \cup run.bad) \cap run.pending = {} /\ run.good \cap run.bad = {}
    /\ row.admission \in {"none", "pending", "listed"} /\ row.settled \in BOOLEAN
    /\ lister.at \in {"idle", "observe", "fold", "repair", "apply"}
    /\ crashes \in 0 .. MaxCrashes /\ lost \in 0 .. MaxLost

(* A replayed run takes the steps it took before, about the same things
   (guarded_execute and the supervisors read nothing a crash loses). *)
StepsRepeat ==
    Replaying /\ run.at \in Steps => Recorded.step = run.at /\ Recorded.about = About(run)

Has(event) == \E i \in DOMAIN stream : stream[i] = event
Place(event) == CHOOSE i \in DOMAIN stream : stream[i] = event
FanWords == {"ok", "failed"}
FanEnd(word) == NodeFinished(Fan, word)
FanEnded == \E word \in FanWords : Has(FanEnd(word))
ToldKids == {k \in Kids : Has(NodeFinished(k, branches[k]))}
TakenKids == {k \in Kids : \E i \in DOMAIN journal :
                /\ journal[i].step = "result" /\ journal[i].about = <<k>>
                /\ journal[i].answer # "error"}

(* Every event is told once, a branch's start right before its end, and a node
   that finished has told of exactly the branches it took a result from, before
   its own end; the run's bill is for those branches. *)
LogIsWhole ==
    /\ IsInjective(stream)
    /\ \A k \in ToldKids : Place(NodeFinished(k, branches[k])) = Place(NodeStarted(k)) + 1
    /\ FanEnded =>
        /\ ToldKids = TakenKids
        /\ {n \in Kids \cup {Fan} : Has(NodeStarted(n))} = ToldKids \cup {Fan}
        /\ \A k \in ToldKids : \A word \in FanWords :
              Has(FanEnd(word)) => Place(NodeFinished(k, branches[k])) < Place(FanEnd(word))
    /\ Finished(stream) => stream[Len(stream)][2] = Cardinality(ToldKids)

(* Nothing of a node runs once the node has ended or its run was cancelled. *)
BranchesEnd ==
    FanEnded \/ status # "PENDING" => \A k \in Kids : branches[k] # "running"

Ended(word) == {k \in Kids : branches[k] = word}
FirstResult == CHOOSE i \in DOMAIN journal :
                  journal[i].step = "result" /\ \A j \in 1 .. i - 1 : journal[j].step # "result"

(* A node that finished kept the promise of its policy, by how its branches
   really ended, unless a branch workflow itself broke; and a map that goes on
   after a failure has recorded a recovery for exactly the items that failed. *)
JoinKeepsItsPromise ==
    \A word \in FanWords : Has(FanEnd(word)) /\ Ended("error") = {} =>
        LET won == word = "ok" IN
        /\ node.policy \in {"all", "fail"} => (won <=> Ended("ok") = Kids)
        /\ node.policy = "any" => (won <=> journal[FirstResult].answer = "ok")
        /\ node.policy = "first_success" => (won <=> Ended("ok") # {})
        /\ node.policy \in {"quorum_skip", "quorum_fail"} /\ won =>
              Cardinality(Ended("ok")) >= node.minOk
        /\ node.policy = "quorum_skip" /\ ~won =>
              node.width - Cardinality(Ended("failed")) < node.minOk
        /\ node.policy = "quorum_fail" =>
              IF won THEN Ended("failed") \cap TakenKids = {}
              ELSE Ended("failed") # {} \/ node.width < node.minOk
        /\ node.policy \in {"skip", "default"} =>
              won /\ {k \in Kids : Has(ItemRecovered(k))} = Ended("failed")

(* A row that is never looked at again shows the whole run and how it ended. *)
SettledRowIsWhole ==
    row.settled /\ row.admission = "listed" =>
        /\ row.log = stream
        /\ Finished(stream) \/ (row.seen = status /\ status # "PENDING")

(* A run that ended shows as ended in the listing, once it has a row there: it
   has one after its first event, or after the next start of the server. *)
EndedRunsSettle ==
    node \in Listed /\ status # "PENDING" /\ (row.admission # "none" \/ ~backfilled)
        ~> row.settled /\ row.admission = "listed"
=============================================================================
