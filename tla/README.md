# AQVEN in TLA+

AQVEN runs LLM flows as durable workflows, experiments with them in *series* of attempts, asks people
for answers in the middle of a run, and lets a person, a studio and agents edit one project's files.
This directory holds TLA+ models of the parts of it where the order of events matters, the
configurations that check them with TLC, and proofs checked with TLAPS.

Paths below are relative to `src/packages/aqven/src/aqven/` unless they begin with `src/`.

## 1. The system

| Component | State it keeps | Operations | Talks to | What is hard | What makes it right |
| --- | --- | --- | --- | --- | --- |
| **Series drive** `series/workflow.py` | queue (cursor, requeued, done), window of pending tries, spend ledger, attempt rows | fill, pause, take a finished attempt, requeue, finish; per attempt: open, run, judge, close, raise | attempts queue of DBOS, series store, spend gate | attempts end in any order, are rate limited and repeated, raise half way | each attempt counted once, run under a new workflow id each try, row finished; spend near its cap |
| **Series lifecycle** `series/workflow.py`, `series/jobs.py`, `series/store.py` | one record per series: status, cap, pause reason; an approvals topic | gate, pause, mark approved, finalize; start, get, approve, cancel | DBOS (messages, cancellation, recovery) | read-await-write on one row from two sides; crashes; repeated clicks | an approval meets its own pause; a series ends |
| **Series planning and analysis** `series/planner.py`, `analysis.py`, `stats.py`, `findings.py` | none | plan, analyse, publish | store, project files | statistics | numeric, not a matter of order |
| **Human waits** `engine/human/` | record in the workflow's event, index row, topic per attempt, idempotency keys | wait, receive, judge, time out, escalate, default; resume, confirm | DBOS, SQLite index, answer book of the run | answers race each other, the deadline and the escalation | who is told "accepted" gave the answer; a form answers the attempt it was made for |
| **Write service** `write/` | lock file, transaction folders, intents, drafts | hold, refresh, release, break; stage, commit, publish, recover; patch, write, save | files of the project | processes die at any line; leases expire | one writer at a time; a transaction happens whole or not at all |
| **Flow interpreter** `engine/interpreter.py`, `engine/control/`, `engine/branches.py` | scope of a run, branch outcomes | run node, parallel, map, loop, choose | executors, events | branches fail and are cancelled while siblings run | join policies |
| **Run facade** `engine/facade.py`, `engine/forking.py` | workflow records | start, fork, cancel, wait | DBOS | cancel races an end; fork reuses a prefix | a fork repeats exactly what it should |
| **Run events** `engine/events.py`, `engine/projection.py`, `engine/summaries/` | event stream, folded summaries | emit, fold, follow | DBOS streams | concurrent branches number events | order and completeness of the projection |
| **Model access** `models/` | the budget of a run, a lane per model (capacity, pause, streak), the pacing of a provider, cassettes | check the budget, ask for a slot, pause, pace, send, retry, count; fall back, record | providers, attempts of a series | calls that are under way together share one budget, and are rate-limited while others wait in the same lane | no call starts in a pause or closer than the pacing; the budget is overstepped by what is under way only; every call ends |
| **LLM nodes** `engine/llm/`, `engine/assembly/` | per execution: the slot in the chain, the number of answers and of rounds, the conversation | run a segment, repair, retry, fall back, defer, call a tool, resume | pydantic_ai, models, tools, approval gate | one budget is counted in two places; a stand-in answers; calls are guarded, have effects, or both; a crash repeats a step | failures are numbered and announced rightly; retries are bounded; a guarded call runs if and only if it was approved |
| **Approval gate** `engine/human/approval.py` | the wait of the round, in the event all rounds of a node share | open a round, escalate, fail | human waits, LLM nodes | rounds follow one another while answers to earlier ones are still on their way | an answer decides the round it was given for |
| **Chat** `chat/` | per session: turn, pending messages, client, write tasks, approvals; the journal of the thread | send, stop, close, reload settings, answer; read, write, connect, fail | the Claude and Codex processes | every call waits several times, and the turn it is about may end, fail or be followed by another meanwhile | the journal shows the turn there is; a message reaches an agent once; a closed session stays closed; a session comes to rest |
| **Server** `server/` | last reading of the project, window of events, a simulation, followers, held progress | read, refresh, simulate, publish, follow, relay | disk, watcher, clients, series and chat | edits arrive while the tree is read, checked, simulated or told; readers fall behind the window | an answer is as fresh as its question; a gap is told; the last event about health is true |
| **App** `app/` | settings, secrets, runtime file | start, stop | everything | start-up order | |
| **Checker, loader, compiler, IR, spec, factors** | none | pure functions of project files | | | |
| **Datasets, preview, templates, testing, console, client, codegen, views** | none of their own | formats and commands | the server | | |
| `src/packages/aqven-llm` | none | typed library of a project's own code | | | |
| `src/apps/studio`, `src/apps/site` | UI state | calls of the above | server | | |

DBOS, the durable workflow engine, is not part of the repository. The modules model it from how the code
uses it, and `PROJECT.json` marks those definitions external: a workflow runs its steps in order; a step
that returned is never repeated and one that did not is repeated after a crash; cancelling a workflow lets
the step it is in finish and starts no other; a message is kept by topic until it is received and is
dropped when its idempotency key was seen; an id that was enqueued before names the same workflow.

## 2. The modules

### SeriesDrive — the drive loop and its attempts

| State | Code |
| --- | --- |
| `pc` | where `drive_attempts` is: in `fill`, waiting in `next_finished`, at the spend gate, or past the loop |
| `ledger` | `SpendLedger` in whole micros |
| `cursor`, `requeued`, `done` | `AttemptQueue` |
| `pending` | `AttemptWindow.pending` |
| `attempts` | the attempt workflows by the id of their try, with the limit they got and what they cost |
| `rows` | the attempt rows of the series store |

| Action | Code |
| --- | --- |
| `Launch` | one turn of `fill`: `take`, `limit_micros`, `enqueue_attempt` |
| `FillEnds`, `Driven` | the tests of `paused` and `active` in `drive_attempts` |
| `Approve` | `spend_gate` returns the cap `approved_cap` let through |
| `NextFinished` | `next_finished` with `attempt_summary`, `fail_attempt`, `add` and `settle` |
| `OpenAttempt`, `SubjectEnds`, `CloseAttempt`, `AttemptRaises` | `run_attempt` step by step |

A requeued try's own fields (its error, its outcome class) and the judges' documents are left out. A run's
cost (`RunCosts`) is any cost its usage limit lets it reach: the `UsageBudget` belongs to the run and is shared
by its parallel and map branches, it is checked before a call, counted after it, and reserves nothing, so the
calls that are under way when the limit is reached (`Parallel`, at `CallMax` each) pass it together. The budget
is in memory (`RunBudgets`), so a run that a restarted process recovers counts from nothing: `Lives` says how
many lives of the process a run may span. The judges run each in a run of its own, and there may be any number
of them, so what they cost together has no bound.

### SeriesSpend, MCSeriesDrive — how far the spend may pass the cap

SeriesDrive with a history variable, `surprised`. The ledger sets aside, for each running attempt, the
dearest cost seen so far. A bound on the overshoot holds exactly as long as no attempt comes back dearer
than that while others run; the module states the bound under that condition. MCSeriesDrive is the drive with this history and the
refinement below, for TLC.

### AttemptBoard, SeriesDriveRefinement — what a series promises

AttemptBoard is the promise without queue, window or ledger: each attempt of the plan is tried at most
`RATE_LIMIT_TRIES` times, one try at a time, and counted once, after its last try. SeriesDriveRefinement
maps the drive to it (`PlaceOf` reads the queue and the window, `TriesOf` the workflow ids in use).

### SeriesLifecycle — one record, two sides

`record` is the row of the store; `wf` is the series workflow with the half of the step it is in; `topic`
and `sentKeys` are the approvals DBOS holds; `callers` are the service calls in progress, each at the await
it has reached. Every read and every write of the record is an action of its own, because each is an
awaited call. `store.update` is `Updated`, `store.settle` is `Settled`.

### HumanWait — one wait for an answer

`waiter` is the position of `HumanWaiter` and the record it holds, `record` the record as published,
`indexed` the row of the inbox, `topics` the messages by attempt, `calls` the calls of `HumanWaits.resume`.
Time is counted from the deadline of the attempt that waits: before it, at it, past it. A crash adds no
behaviour: the waiter resumes at the step it had not recorded, so a crashed process is a slow one.

### WriteLock — the project lock

`file` is `.aqven/lock`: who created it, whether it is still blank or names its holder, whether its TTL is
over. `at` is the position of each process in `acquire`, its edit and `release`. Creating the file and
naming its holder are two steps, reading a stale file and unlinking it are two, and so are reading one's own
file and unlinking it. `Refresh` replaces the file whoever made it, as `os.replace` does.

### WriteTransaction — one edit of several files

| State | Code |
| --- | --- |
| `disk` | the project's files; their contents are the operation that wrote them |
| `request` | what the client of an operation id asks: targets, deletions, expected contents |
| `call` | a call of `patch_flow` or `write_bytes`, from the first look at the journal to its answer |
| `txn`, `todo` | the folder under `.aqven/txn`; how far its publisher has come |
| `lock` | the project lock, as WriteLock makes it |
| `proc` | the life of a server: `down`, `early` (its engine runs, `_serve_locked`), `recovering` (the lifespan of its application, `write_recovery`), `up`, or `stopping` because recovery failed |
| `overtaken` | history: an intent was put in place while another waited for a recovery |
| `journal` | `MemoryIntentJournal` of each process |

`Stage`, `CommitIntent`, `CallPublishes`, `CallPublished` and `Record` are the lines of `Transaction.run` and
`_committed` between which a process can die; `WriteFails` is an `OSError` at any of them. `Start`,
`OpenFolder`, `RecoveryPublishes`, `RecoveryPublished`, `RecoveryFails`, `RecoveryIsBusy` and `Serve` are
`WriteService.recover`. `Launch` comes before it: the engine of a server runs first (`app/runtime.py:246`) and takes
up the series it finds, whose workflow may write a finding (`series/workflow.py:587`) with the same `WriteService`
before and while the application recovers (`app/composition.py:175`). So `Ask` is open to a call as soon as the
process is there, and recovery and such a call race for the lock; the one that waits too long gives up, which ends
the server if it is the recovery. `Exit` ends a server whose recovery failed.

Processes that write and never recover (the stdio
MCP server, the dataset commands) are not modelled: an intent one of them leaves is rolled over later edits
when the server starts, as over those of an early call. The targets are moved in any order here and in a fixed one in the code. Saving a prompt's draft,
dry runs, the exclusive notices, the files a validator derives (which no `expects` has to name) and files
written past the write service are left out.

### AtomicFiles, WriteTransactionRefinement — what an edit promises

AtomicFiles is one step per edit: all its targets at once, each as the edit expects it, or never. In the
mapping an edit happens when its intent is in place; a target that still has to be moved counts as moved.
`EditsAreAtomic` says that the service implements it until an edit is committed over an intent that waits for a
recovery (`overtaken`), and that no call of the only server does that once the server is up, unless a file operation
failed. It is as much as the code keeps: recovery asks nothing of the files it overwrites.

### FanRun — a run with a node that fans out

| State | Code |
| --- | --- |
| `node` | the `parallel` or `map` node of the run: its policy, width and concurrency; `ordered` is the replay mode, whose join takes branches in their order |
| `status`, `journal`, `branches` | the run's workflow, the steps recorded of it, and the workflows of its branches, all DBOS's |
| `stream` | the run's event stream |
| `run` | what `interpret` holds in memory: where it is, `ParallelRun` or `MapRun`, `StreamEventSink` with the deferred events, `RunProjection` with its fold |
| `row` | the run's row in `aqven_run_summaries`; a fold is told by the log it was made of |
| `lister`, `backfilled` | one call of `RunSummaries.refresh` or `ready`, await by await |

| Action | Code |
| --- | --- |
| `Boundary`, `WriteEvent`, `StartBranch`, `FirstFinished`, `Collect`, `CancelPending` | the steps of the run's workflow: `node_boundary`, `write_stream_async`, `start_branch`, `first_finished`, `collect_branch`, `cancel`; each with what the code does up to its next await |
| `Project`, `ProjectFails` | `RunProjection.written`, which is awaited and is not a step |
| `Return` | `run_flow` returns |
| `ListReads`, `ListObserves`, `ListFolds`, `ListApplies` | `open_rows` or `admissions`; `observe`; `_folded`; `apply` |
| `BranchEnds`, `CancelRun`, `Crash` | a branch's workflow ends, `EngineFacade.cancel`, the server dies |

A replayed run starts from its first line with an empty memory and is answered by `journal` as far as it
goes. A memory is replaced as a whole (`Emits`, `GoesOn`, `Leaves` take one and give one), so that the proofs can
say what a journal makes of it. A branch is one node that ends well, fails, or breaks (its workflow raises); nested fans, loops, the
values nodes pass on, output deltas and the early exits of `interpret` (no plan, no such flow, a bad
selection) are left out.

### ClaudeRunner — a chat session and its agent

| State | Code |
| --- | --- |
| `runner` | `ClaudeSessionRunner`: its turn, its pending messages, the client and the messages written to it, the delivery and the write tasks behind the lock `_sending`, the approvals; with `ClaudeEventNormalizer`'s state and the last events of the journal |
| `agent` | the process behind the current client: the texts on their way to it, and whether it works, hangs or is dead |
| `jobs` | `interrupt`, `close_session`, `apply_settings` and the readers of failed clients, each at the await it has reached |
| `session` | what `close_session` leaves open until it stores the session as closed: a second close that has stored it already (`sealed`), a call that found no runner and settled the journal (`swept`), a message that built another runner (`crossed`), the turns such runners have open, and the messages that wait for one |

Every call of the runner is a chain of awaits on one event loop, and what lies between two of them is a
function from a runner to a runner: `OpenTurn`, `TurnClosed`, `Abort`, `ThenDelivery` (`_cancel_delivery`,
then `_cancel_writes`, then `_drop_client`, and what each kind of call does after it). `Become` runs a
suspended call on. `TaskBegins`, `Connects`, `QueryDone`, `QueryFails`, `ConnectFails` and `TaskDisconnects`
are `_deliver`, `_write` and `_fail` under the lock; `AgentTakes`, `AgentSpeaks` and `AgentEnds` are what
`_consume` and the normalizer do with the messages of the agent. The contents of messages and events, the
deduplication of commands by the ledger, the skills probe, the MCP configuration file, reopening a session, and
the Codex runner are left out. `used` keeps what the properties except: `late`, an approval was settled after its
turn, and `forgot`, a turn began while the delivery of an older one still waited for the lock, so that
`_delivery` no longer names that one.

`close_session` takes the runner out of the backend first (`chat/claude_backend.py:101`), waits for it, and stores
the session as closed last (`:105`); `_require_open` refuses only then. So an open approval can still be answered; a
stop (`StopWhileClosing`) and a second close (`CloseAgain`) find no runner and settle the journal under the turn that
is still being closed; and a message (`SendWhileClosing`) builds another runner over the same session. Of that
runner the model has what the two share, which is the journal, the turn numbers and the approvals: it opens turns
(`SendWhileClosing`, `OtherContinues`), ends them and goes on to a message that waits (`OtherEnds`), shows what its
agent does (`OtherShows`) and resolves the approvals of the session (`OtherResolves`). Its queue, agent and
failures are those of any runner and are not modelled twice; whether a stop finds it busy is left open.

### SpecChannel — the project's event channel

| State | Code |
| --- | --- |
| `past` | the trees the disk has held; a tree is what the specification says and how many other files it has |
| `server` | `ProjectWorkspace` (the last state, the queue at its lock, the calls that wait), `SpecEventHub` (log, snapshot, key of the index, health), `SimulationFeed`, and the generators of `follow` |
| `watcher` | `watch_project`: what the file system has not told yet, the batches, `settle` and `consume` |
| `relay` | the tasks of `ResearchRelay` in their order, the timer and the held notice of `ProgressThrottle` |

`GetsLock`, `TakesSnapshot` and `Builds` are `ProjectWorkspace.state` await by await; the step that answers a
call also does what its caller does next (`Continue`): `refresh`, `apply_simulation`, or the page. `Starts`,
`Simulates` and `Reaped` are a simulation's process; `Joins`, `AfterResync`, `AfterEvent` and `Wakes` are a
follower between its yields. A ticket of `ProjectWorkspace.state` is a call in `covered`, the calls that were
asked when the reading began: who gives up and asks again has a new one (`Asked`). Inputs are edits, page reads, notices, connections (from the follower's own
last event, from the newest, or from a number of another server), and the failures of readings, of
simulations and of the watcher.

Four histories say where the code makes no promise, and the properties are stated up to them. `slid`: the
window moved past a follower, or events were told, while its client held a resync; `follow` sees a stale
cursor only when it starts. `raced`: the timer of the throttle fired while a later notice was already on its
way to it. `torn`, with a specification that was changed and changed back (`Hidden`): a check or a simulation
reads the disk by itself after the snapshot it is filed under, and the next snapshot looks unchanged.
`failed`: a failed refresh or simulation is not tried again until the next edit. A server on which no
specification was edited has not simulated anything (`sims = <<>>`).

### ModelLane — calls of one model under load

| State | Code |
| --- | --- |
| `ledger` | the `RunUsage` of a run that `UsageBudget` checks before a call and adds to after it |
| `lane`, `queue` | `ModelLane` and its `CapacityLimiter`: capacity, `_resume_at`, the streak of successes; who waits for a slot |
| `pacing` | `RateLimiter._next` of the provider, as how far ahead it is reserved |
| `call` | where a call is in `retrying`, `slot`, `acquire` and the stream; its attempt, its clock, and whether its slot is of the lane's generation |

Instants are kept as what is left of each wait, and `Tick` takes one off all of them; a sleeper wakes on time
(`Due`). The lane's mode is one of the three strategies of `on_rate_limit`. A 429 comes with any
`retry-after` up to one past the longest wait, or with none. `caught` marks a call that a 429 of another call
finds between its pause and its pacing: the code does not look at the pause again there. Token
and cost limits, the outcome gate, cassettes and the fallback to another model are left out; the slots are
those of anyio's `CapacityLimiter`, in the order of asking.

### LlmNode — one execution of an LLM node

| State | Code |
| --- | --- |
| `state` | `SegmentState`: the number the next answer follows, the approval round, the slot (model and retries spent), and how many results of calls the segment is given |
| `segment` | `LlmSegmentRunner._run`: the answers of the open segment, those it rejected, the calls it counts, the approved calls it ran |
| `answers`, `calls` | the conversation in `messages_json`: which model gave each answer and what became of it; each call of a tool, whether it was approved and how often it ran |
| `failures` | the `attempt_failed` events of the node |
| `ledger` | bounds and history: the answers given, those asked for an output since the last deferral, the crashes |

| Action | Code |
| --- | --- |
| `Completes`, `Rejects`, `Drops`, `CallsTools` | one answer in `_run`: an output, an invalid one (`_failed` when the retries are over), a bad outcome (`_abandoned` of the runner and of the executor, `OutcomeStep`), calls of tools |
| `Defers`, `Resumes`, `RunsGranted` | the end of a segment with calls it may not run; `_resume`; the approved calls at the start of the next one |
| `Decides`, `NobodyDecides` | `_decisions`, with any decision for each call |
| `Invokes`, `CallRaises`, `DiesInCall` | `_call`, a durable step of its own |
| `CallsTooManyTools`, `ToolRaises`, `CallFails`, `Dies` | the ways a segment ends otherwise |

pydantic_ai is external: that it asks the chain from its first model at each request, counts the answers it
rejects, and counts calls against the limit once when it sees them and once more when it is given their
results. `MCLlmNode` bounds the conversations that call tools (`ToolsComeSoon`). The usage a
node reports, the values of outputs, the classification of errors, streams, nested inferences, checks and images
are left out.

### ApprovalRounds — the rounds of approvals of one execution

`wait` is the record in the event that all waits of an address share, `topics` the answers by attempt, `round`
the approval round, `person` the call of `resume` each person is in, and `decided` the answer each round went
on with. A wait publishes in one step, and answers are given in time and fit the form: HumanWait has what
happens otherwise. A round starts with its own number as attempt (`OpensRound`) and goes one up when it
escalates (`Escalates`).

## 3. The runs

| Run | Configuration | What it asks |
| --- | --- | --- |
| `series_drive` | 3 attempts, window 1 then 2, 2 slots, 2 tries, caps 8 and 2000, costs 4 and 20, two calls of price 1 under way in a run, two lives of the process, fairness | rows, window and spend in every order of the attempts, the refinement of AttemptBoard, and that the drive ends |
| `series_lifecycle` | 1 starter, 1 reader, 1 approver, 1 canceller, cap up to 3, 1 crash, fairness | an approval meets its pause, and a series that was created ends, against a cancellation |
| `human_wait` | 2 calls with 2 operation ids, a stray message, an answer book for the second attempt, fairness | who is told what, which answers may settle a wait; a heard answer is taken |
| `write` | 1 server, 2 calls, 2 operation ids, 2 files, 2 crashes, 1 failing file operation, fairness | refinement of AtomicFiles up to an edit over a waiting intent, which only a call from before the recovery makes while no file operation failed; answers and files agree, retries and rivals; intents are settled |
| `write_lock` | 3 processes, 2 of which may die, fairness | the lock is exclusive; a dead holder's lock goes |
| `fan_run` | nodes of every policy with up to 3 branches, concurrency 1, 2 or none, and an empty map; branches end in 3 ways; 1 crash, 1 lost projection; the runs of 2 of the nodes are listed meanwhile; fairness | replay, join and item policies, what reaches the stream, leftover branches, and the run's row |
| `chat` | 2 messages, a third after a forgotten delivery, 1 stop, 1 close, 1 change of settings, 2 events of the agent, fairness | the journal and the turn agree, but for what is called while the session is being closed; a closed runner is quiet, nothing is written twice to an agent, the session comes to rest |
| `spec_channel` | 1 follower, window 2, 2 specifications, 2 attempts before the last one, 4 inputs of which 2 mix all kinds, fairness | fresh answers, no silent gap, progress in order, health comes to rest |
| `model_lane` | 2 callers and 4 calls, 3 strategies, capacity 2, 1 request allowed, pacing 2, waits up to 2, 2 and 3 attempts, fairness | pauses hold, how far the budget is overstepped, every call ends |
| `llm_node` | 2 models, 2 retries, 2 bad outcomes with every policy, 7 answers; tools with and without effects, guarded or not, limit 2, in conversations of 3 answers; 1 crash | failures and announcements, bounded retries, each call and its decision |
| `approval_rounds` | 2 people, 2 rounds, both timeouts | whose answer decides which round, and who is told so |
| `approval_escalated` | the same, ends in a violation | whether each round is decided by an answer to itself |

The exact values are in the `.cfg` of each run. Why they are enough: the drive's queue, window and ledger
tell apart a first and a repeated try, a probe and a full window, one and several pending attempts, a cap
before and after an approval, and every one of these is reached with three attempts; the dear cost is what a
probe under the whole cap reaches only with its two calls under way in both lives. A record's races need
one caller of each kind and one step of the workflow. A wait has at
most two attempts in the code itself (the escalated wait cannot escalate), and two operation ids tell a
repeated call from a rival one. Two files are what it takes for an edit to be half done; two calls with two
operation ids are an edit and its retry or its rival (the calls are interchangeable, so MCWriteTransaction
names the first one and its operation); two crashes are one in an edit and one in its recovery. Two processes that may die and one that may not are a leftover
lock, a breaker that dies too, and one that still asks; the proof of exclusion covers any number. Two
branches end before or after one another and before or after the run looks; the quorum and the window of a
map need a third, to be decided with one left over. One crash can fall at every step of a run, and a second would only
repeat a replay. The row is the same for every node, so a listing is interleaved with two short ones
(`Listed`).

A chat session has one turn and one client at a time; a second message is the queue, a failure that follows
another failure takes two events, and the second stop, which forces the turn, is met by the timeout of the
first. A client holds one open approval at a time. A delivery is forgotten only
with a third message, so MCClaudeRunner sends messages in the order of their numbers and the last one only where
that has happened, or where a second runner was built and no event happens. A run with a second runner, or with a second
close that stores the session as closed, has at most one event: it meets the agent of the runner that is being closed at
each of its awaits. The proofs have no such bound. In SpecChannel, two simulations overlap with two edits and a
third makes the first come back; the window of 2 loses an event with the third. The full product of four
inputs is too large, so MCSpecChannel lets the first two be of any kind and then goes on with followers and
notices on an unchanged disk, with the disk alone, or with edits of the specification. In ModelLane two callers are one that is
rate-limited and one that is in any other place; four calls let both come back after the budget is spent; a
capacity of 2 is cut to 1 and grows again.

One run ends in a violation on purpose: in `approval_escalated` the escalated wait of round 1 and the wait of
round 2 are the same attempt on the same topic, and an answer to the one decides the other
(`src/packages/aqven/tests/engine/human/test_human_approval_rounds.py:88` has separate waits, without an
escalation). `RoundsKeepApart` says in `approval_rounds` that this is the only way.

Other sentences of the documentation, of a test or of an error message that the code does not keep are stated
in the modules next to what does hold, with a configuration each that makes TLC show the difference. They are
not among the runs:

* `tlc -config MCSeriesCancelled.cfg SeriesLifecycle`: a step that began before a cancellation overwrites the
  cancelled record after the caller was answered (`src/apps/site/src/content/docs/engine/run-a-series.md:63`).
* `tlc -config WriteRetry.cfg WriteTransactionRefinement`: a server that died after a commit refuses the retry
  of the edit it committed, because the results of operation ids are in its memory
  (`src/apps/site/src/content/docs/mcp-cli/edit-a-flow.md:56`). `RetriesMeetTheFirst` is what holds.
* `tlc -config WriteEarly.cfg WriteTransactionRefinement`: a server dies with an intent in place, and the next one's
  engine takes up a series that writes its finding before the application has recovered; recovery then publishes the
  intent over it (`write/service.py:125`, `write/txn.py:129`), so that of two operations "applied atomically"
  (`src/apps/site/src/content/docs/mcp-cli/edit-a-flow.md:18`) the earlier wins in files the later had already
  changed. `EditsAreAtomic` is what holds.
* `tlc -config WriteLockBroken.cfg WriteLock`: two processes that break the lock of a dead one can both hold it
  afterwards (`src/packages/aqven/tests/write/test_write_files.py:85`). `Exclusive` is what holds.
* `tlc -config LlmRepairs.cfg LlmNode`: a deferred call of a tool gives the model its repairs back, so that it
  answers more often than `output.retries + 1` times
  (`src/apps/site/src/content/docs/concepts/what-happens-when-a-model-is-called.md:90`). `AnswersAreBounded` is
  what holds.
* `tlc -config LlmToolCap.cfg LlmNode`: every segment counts its calls of tools from zero, so that one step
  calls more of them than `limits.tool_calls` (`src/apps/site/src/content/docs/engine/tool-node.md:178`).
* `tlc -config LlmCrash.cfg LlmNode`: a crash takes back the turns of a segment, which are one checkpoint
  (`src/apps/site/src/content/docs/concepts/run-survives-a-crash.md:21`).
* `tlc -config ChatForgotten.cfg ClaudeRunner`: a closed session connects an agent. A turn that begins while the
  delivery of an older one waits for `_sending` overwrites `_delivery` (`chat/claude_runner.py:140`); `close` cancels
  the last one only (`chat/claude_runner.py:355`), and the forgotten one then takes the lock and connects
  (`src/packages/aqven/tests/chat/test_chat_backend.py:257`, "test_close_stops_client_ends_stream_and_resume_reuses_backend_session").
  `ClosedIsQuiet` is what holds.
* `tlc -config ChatClosing.cfg ClaudeRunner`: of the session the same test says less still. A message that comes
  while `close_session` waits is taken, by a runner that `close` never hears of (`chat/claude_backend.py:131`), and the
  session is stored as closed with a turn that runs. `ClosedIsQuiet` is about the runner that was closed.
* `tlc -config ApprovalConfirm.cfg ApprovalRounds`: an answer that was taken is refused as late when the next
  round has replaced the record its caller polls (the message at `engine/human/resume.py:119`).

More differences between code and documents that the models made visible have no configuration, for they are
not questions of order, or are accepted by a test:

* the spend a series shows leaves out what a requeued try cost (it is in the ledger and in no row;
  `src/apps/site/src/content/docs/engine/read-a-series.md:104`), and a series is also `failed` when its
  workflow failed or was never started (`src/apps/site/src/content/docs/mcp-cli/experiments-and-series.md:55`);
* a delivery that fails waits for its client to disconnect and then ends the turn that runs by then. If a stop
  ended the failed turn meanwhile, that is the turn of a queued message, which gets the error and no answer;
  `src/packages/aqven/tests/chat/test_chat_queued_messages.py:148` has a queued message survive a crashed agent,
  when nothing else happens;
* a stop that comes while `close_session` waits finds no runner and finishes the turn in the journal as lost
  (`chat/claude_backend.py:90`), and the runner that is being closed finishes it a second time;
* "Every call of that model pauses, not only the one that failed"
  (`src/apps/site/src/content/docs/integrations/model-providers.md:255`), except a call that waits for its
  pacing when the rate limit comes, which is sent into the pause (`caught`);
* the retries of server errors and of rate limits share one attempt number and one clock
  (`models/backoff.py:160`).

For LlmNode, seven answers are two models that use up their retries and one answer more; three answers are a
call that is deferred, approved, deferred again and answered, with a bad answer around it; longer conversations
with tools multiply what a new segment has reset. A third approval
round adds nothing to the collision of neighbouring ones, and the proof has any number of rounds.

### Bounds

`MaxCap` (SeriesLifecycle) ends the doubling of the cap: a drive under that cap pauses no more. `MaxCrashes`
bounds the restarts, and in WriteTransaction the deaths of processes; `MaxFaults` bounds the operations that
raise. In FanRun `MaxCrashes` bounds the
restarts and `MaxLost` the projections that fail; the nodes are those of MCFanRun. WriteLock needs no bound: `Mortal` and `Slow` only say what may go wrong. `RateLimitTries` is the code's own bound on tries. `Caps` and `Costs` are finite sets
of amounts chosen around the 90% threshold. In ClaudeRunner `MaxEvents` bounds what
happens by itself: agents that die, hang, fail to start, wake up or ask, and changes of settings. In SpecChannel
`MaxInputs` bounds all inputs and `SharedInputs`, in MCSpecChannel, those that mix all kinds. In ModelLane
`MaxAsks` bounds the calls of the run, and the pacing is reserved two intervals ahead at most by other lanes.
In LlmNode `MaxPaid` bounds the answers and `MaxCrashes` the deaths; `Retries` and `ToolLimit` are the
agent's own. In ApprovalRounds `MaxRounds` bounds the rounds. In HumanWait `Clock` ends one tick past the deadline, after
which nothing in the code changes with time.

### Fairness

`SeriesDrive!Fairness` and `SeriesLifecycle!Fairness` say that the engine runs the workflows it has started
and that a person continues a series that paused: without the second no paused series ends, in the code
either. A reader polls, as the studio and the `aqven series wait` command do while a series is open;
reconciliation happens only in those calls. Nothing is fair about starting, cancelling or crashing.
`WriteTransaction!Fairness` runs the threads of a living process and starts a server again that died or whose recovery failed; `WriteLock!FairLockSpec`
lets time pass and edits end, and nobody has to ask for the lock or to wait for it longer than it likes.
`FanRun!FairSpec` lets the executor go on, branches end, and runs be listed, as the studio does while it is
open; nobody has to cancel.
`ClaudeRunner!Fairness` lets every suspended call and task go on, an agent that neither hangs nor died
read and end its work, and every open approval be settled, as its own timeout does; nobody has to answer one.
`SpecChannel!ChannelFairness` runs the event loop, ends every thread and process, and lets a connected client read on;
no watcher has to fail and nobody has to edit. `ModelLane!Fairness` lets time pass, and the provider answer
or fail every request and end every stream, as the request timeout of the HTTP client makes it.
`HumanWait!Fairness` needs only the engine and the clock: no call has to be made for a wait to end.

### Mutants

Definitions whose comment begins with "Slip:" are plausible errors in the operator that follows them
(a dropped guard, a missing reset, a key too coarse). No specification uses them; each is the mutated form
with which one property of one run is shown to be violable.

## 4. The proofs

TLAPS checks the theorems below for every value of the constants that satisfies the assumptions named in the
modules. Each module of proofs extends the module it is about, and a theorem that states a property of a run has it
in `PROJECT.json`. Some modules of proofs extend two components, whose names are therefore kept apart:
LlmNode_proofs has ApprovalRounds, WriteTransaction_proofs has WriteLock, and ChatAndChannel_proofs has ClaudeRunner
and SpecChannel, which share nothing but lemmas.

| Module | For every | Theorems |
| --- | --- | --- |
| `SeriesDrive_proofs` | plan, window at least as wide as the probe, cap, cost and retry bound | `DriveTypes`, `CountedOnce`, `NewWorkflowPerTry`, `CountedHaveRows`, `ProbeFirst`, `PausesNearTheCap`, `DrivenCompletes`, `ThresholdHolds`; `ProbeWithinCap`, with `ProbeWidth = 1` as its hypothesis (the value in the code; two probes may overspend together); `DriveImplementsBoard`, the refinement of AttemptBoard; `SpendStaysInBudget`, `PlannedSpendStaysInBudget` of SeriesSpend |
| `HumanWait_proofs` | set of callers and operation ids, book of scripted answers, stray messages | `CallersToldTheTruth`, `AnswersForTheirAttempt`, `InboxIsTrue` |
| `SeriesLifecycle_proofs` | set of callers, caps, number of crashes | `LifecycleTypes`, `ApprovalsReachTheirPause` |
| `WriteTransaction_proofs` | set of files, operations, calls and servers, number of crashes and faults | `WriteInvHolds`, `AnswersAreTrue`, `RetriesGetTheResult`; `EditsHappenAtOnce`, the refinement of AtomicFiles up to an edit over an intent that waits, for any number of servers, crashes and faults; its second part, that no call of a recovered server makes such an edit, is for one server and no failed file operation (stated in the property). Of WriteLock, with the calls and servers as its contenders: `LockTypes`; `LockIsExclusive`, `HolderKeepsTheFile` when the edits of living processes end within the TTL (`Slow = FALSE`, stated in the theorems) and as long as none has died (stated in the properties) |
| `FanRun_proofs` | node of any policy, width and concurrency, number of crashes and lost projections | `RunInvHolds`, `TypesHold`, `ReplayRepeats`, `LogHolds`, `NothingOutlivesTheNode`, `PoliciesKeepTheirPromise`, `SettledRowsShowTheRun`: every safety property of the run |
| `ModelLane_proofs` | finite set of calls, ceiling, streak, limit, interval and bound on waits and retries | `LaneTypes`, `PausesHold`, `BudgetIsOversteppedByWhatIsUnderWay`, `StartsKeepTheInterval` |
| `LlmNode_proofs` | chain of models, retries, policies, finite set of tools, number of answers and crashes | `AnswersStayBounded`, `CallsAreDecidedAndRun`, `FailuresNameTheirAttempts`, `AnnouncedActionsComeTrue`. Of ApprovalRounds, for every set of people, number of rounds and timeout: `RoundsAreKeptApart`, `WhoIsAcceptedDecided` |
| `ChatAndChannel_proofs` | set of messages and stops, number of events | Of ClaudeRunner: `ChatInvHolds`, `JournalIsTrue`, `ClosedStaysQuiet`, `MessagesAreWrittenOnce`: every safety property of the run, with everything that can be called while the session is being closed |
| | set of followers and specifications, window, batch limit, series and number of inputs | Of SpecChannel: `ChannelInvHolds`, `NothingIsMissed`, `ProgressStaysInOrder`, `AnswersComeFresh`: every safety property of the run |

Five of the properties proved of the drive (`EachAttemptCountedOnce`, `ProbeRunsAlone`, `PauseIsNearTheCap`,
`DrivenIsComplete`, `NoLaunchAtTheThreshold`), the type invariants, `HolderOwnsTheFile` of the lock and
`StartsArePaced` of the lane are not in a run as well: the refinement, the liveness runs and the other properties
exercise the same steps.

What is assumed of the constants is what the code makes of them: callers, operation ids and processes have names
of their own, bounds are numbers, an agent's tools are finitely many, the nodes of a run are those the compiled
flow can hold. Where `EditsAreAtomic` names one server (`OneServer`), that is a real restriction: of two servers on one
project one may die while it publishes an edit, and the other, long up, takes the lock and edits the same files before
anyone has recovered the first one's intent.

### The drive

The argument for the drive has four inductive parts. `TypeInv` is TypeOK. `AttemptInv` ties the places of
an ordinal together: EachAttemptCountedOnce alone is not inductive, since a pending try whose workflow does
not exist yet, or a requeued try whose next workflow id was used already, would break it; so it also says
which workflows exist for an ordinal that is fresh, pending, requeued or counted, and what its row holds.
`LoopInv` says what the loop knows at each `pc` (nothing is awaited with an empty window, a driven loop has
no work left). `GateInv` keeps what the spend gate relies on: with nothing pending the reserve plays no
part, so a window that cannot launch has spent the threshold. Counting uses the cardinality lemmas of
FiniteSetTheorems for one ordinal leaving or entering a finite set.

The refinement adds `UsedTries`: the tries of an ordinal that were enqueued are exactly those up to the one
that is pending, or up to the one before the requeued one. So `Launch` maps to `Try`, `NextFinished` to
`PutBack` or `Count`, and every other step leaves the board as it is. `ProbeInv` says that the probe runs
under what is left of the cap, and that a requeued try has passed its limit by no more than a run may, which
is what its calls under way cost, in every life of the process. What the earlier probes spent is taken off the
limit of the next one, so the bound does not grow with their number (`SpentIsTakenOff`).

For SeriesSpend the invariant is about the running attempts: without a surprise all of them but one fit
under the threshold with their reserves. Launch keeps it because `open_for` was just tested; a finished
attempt keeps it because its spend is at most the reserve that was set aside for it.

### The record of a series

That an approval meets its pause is a matter of what people have looked at. `PauseInv` says of everyone who saw a
series wait: either the key of what he saw was sent before, or it is the pause the record shows now and the workflow
has not gone past it (`SeenInv`). So a message that is new is for that pause and is its first (`TopicInv`). What keeps
it so is `FlowInv`, the record and the workflow's cap at each step: the two differ only after an approval of a
series that had ended meanwhile, and then no one can send another. The halves of a step that a cancellation falls
between are where it matters: a pause written over a cancelled record has the cap the workflow goes by.

### The waits

That callers are told the truth says nothing of a message that is still on its way, and so is not inductive.
`WaitInv` follows an answer from its sender to the record: `WaiterInv` says what the waiter has published and
indexed wherever it is, `MessageInv` that a key is in one message at most and never again once it was received,
`CallInv` that a call which goes on was let through by the guards of the attempt it is for, and `SenderInv` that
the sender of an answer is not refused while the answer may yet be taken, nor after it was.

For the rounds of approvals, the invariant ties each answer under way to a form that was shown: its attempt is its
round or the next, its topic is its attempt, and its round is none to come. The wait is of the current round, so an
answer it takes is of that round, or of the one before with the attempt this one began with. `Taken` adds that an
answer is in one place: with its sender, in a topic, or decided on.

### The edits

For the lock, Exclusive is not inductive: a process that has created the file and not yet named itself would
be overtaken. `SteadyInv` says that whoever made the file is the one it belongs to, named or not, that it is
not old, and that nobody is about to break it; then only its owner can remove it.

`WriteInv` has what an answer rests on: whose the lock is, what a call's folder holds at each step with what it has
written and is yet to write (an answer "ok" is given when nothing is left, a refusal when nothing was written), that
a server recovers only what belongs to calls that are over, and that a recorded operation id belongs to a call that was
answered. Atomicity needs two parts more. `IntentInv` says that the files are as a call found them from its check until
its intent is in place (`CheckedStands`), whoever else has an intent, and that until an edit is committed over a
waiting intent there is one intent at a time (`OneIntent`) and what it has published is as it makes it
(`WrittenIsFresh`). With these the step that puts an intent in place is the step of AtomicFiles (`CommitsAlone`), and
every other one is a stutter. `ServedInv` is for the second part: with one server and no failed operation an intent
belongs to the call that has the lock while the server is up, and to a folder it has yet to open while it recovers; so a
call of a server that is up, which needs the lock, finds none. Before recovery it may find one, and after a failed
operation too.

### The run

A run is replayed by its code and not by its model, so an invariant about what it holds in memory would have to hold
of every memory a replay comes through. `RunInv` says it once: there is a history `h` of memories, one for each
entry of the journal, each made from the one before by the step and the answer of that entry; the executor holds one
of them, or has none. `StepsRepeat` follows at once, for the executor of a replayed run is at a memory of `h` and the
next entry is what took `h` on. A crash puts it back to `h[0]`; a recorded step makes `h` longer.

Everything else is said of the last memory, the tip, for that is where the branches and the stream are. `Tale`: what
it has said or is about to say is told once, is known to be true (`Known`, one disjunct for each kind of event), and
tells a branch's end right after its start; nothing follows the end of the run, and only that follows the end of the
node. `Branching` and `Results`: the branches it counts as ended ended so, those that run are pending, and the journal
has the results it took. `Judged`: before the node decides, nothing it took decides; after, the branches taken bear
the outcome out (`Verdict`). That verdict and the ends of the branches together are the promise of each policy. A
branch that raised ends a node without a verdict, which is why `JoinKeepsItsPromise` excepts it.

The row needs an invariant of its own, `RowInv`: a projection and a listing hold a prefix of the stream, and a stream
that tells the run's end, or whose run is over, grows no more (`StreamMoves`). So a prefix that has finished is the
whole stream, and so is what a listing folds after it saw the run over. A row that was settled by a listing is not
given to a listing again.

### The lane and the node

For the lane, `NoStartInAPause` and `OverstepsByWhatIsUnderWay` are inductive once the types are known: a call
comes to its pacing with the pause at 0, a 429 that lengthens the pause marks it, and time only shortens the
pause; only a check that found room adds to the calls under way, and a response that is counted is a call
less (`BudgetStep`). `StartsArePaced` is not: `PacedInv` says that the reserved moments are an interval apart
from each other, from the last start and from the next free one, so that whichever comes first keeps the
distance. That the doubling of a pause is a number rests on the cardinality of a power set (`PowerIsNat`).

For the answers of a node, the bound alone is not inductive. `Budget` says what pays for them: the models the
slot has passed with a whole budget each, what the slot has spent, and what the open segment has rejected. A
stand-in that answers moves the slot on, which frees more than the rejected answers it takes along
(`LaterModelIsWorthMore`); a crash takes back what the segment had counted.

For its calls of tools, the invariant says where each stands: in the segment's turn, waiting for its verdict or for
its run, or done, with the crashes that may have repeated it. For its failures, `HInv` keeps the conversation in
two pieces, what was there before the segment and what the segment added, because a segment numbers its failures from
the offset it was given; a failure is of the answer at its number. For the announced actions, the slot that the next
segment begins with is the one the last failure promised.

### The chat session

The runner's calls are chains of awaits, and what lies between two of them is a function from a runner to a runner
that calls others. So the proof is about relations first: `Inner` (the queues stay), `Grows` (turns open and close, and
what was pending becomes writes) and `Runs` (tasks are cancelled and the client dropped besides). Each is closed under
composition, every operator of the model is shown to be in one of them, and an action has only to be looked at for
what it does beyond (`Good`, and `ComesToClose` for a call that closes).

`NeverWrittenTwice` speaks of two steps of a message, its sending and its receipt, and is not inductive. `OneWay`
says that a message is on its way either as the delivery that opened a turn or as a write, never as both;
`OnTheWayIsNew` that the text a task hands to the current client has not been written to it, and `OldClients` that
the generation of every write is one that exists: so a new client has been given nothing. `JournalInv` adds to the
property which state the journal shows of a turn that runs; it is a relation between a runner and what is `Said` of
the calls it shares the journal with, so that one proof serves a step of the runner, after which that is the same,
and a call that settles the journal under it or opens a turn of its own, which only loosens it (`JournalLoosens`). For `ClosedIsQuiet`, `CloseInv` says how far a close has
come at each of its awaits (`Phase`): no delivery, then no task, then no client. A step between two of them must not
bring back what is gone, which rests on the only delivery there is being the one `_delivery` names (`LastDelivery`):
a turn that begins while an older delivery waits breaks that, and the proof attempt is how it was found.

### The channel

`NoSilentGap` needs what a follower holds and not only where its cursor is: its batch has consecutive events, and the
first was told (`Reading`). Steps that only add events keep that (`Tells`), most add none (`Leaves`).

For `NoLateProgress` a notice can be in four places: published to the relay, at the throttle, held back, told. `Line`
says of any two in the relay's queue that the one which has got further is the older (`Rank`), and that progress
handed out by the timer has nothing but unannounced notices before it; `HeldIsNext` that what is held back is older
than all that is on its way, `ToldBefore` that what was told is older still. It is lost when the timer fires
while a later notice is at the throttle: that is `raced`.

`AnswersAreFresh` is about steps, and `FreshInv` says what a caller would be shown now. `Shows`: the tree of the
workspace was on the disk since the caller asked and its report is of that time or later. It holds of every caller
that an ended reading has answered; of the others, whoever checks a tree has one that is new to all it will answer
(`Spans`), which is so because one caller at a time has the lock (`Locked`) and it covers none that asked
afterwards. A reading that finds the specification as it was keeps the report: either that is of the same
specification, or two edits have put the old one back, and the report was torn (`Hides`). A reading that covers a
caller, who gives up and asks again, would break `Spans`; the first version of the model took the two calls for one,
and the proof attempt showed it. Steps of the hub and of the simulations leave all this alone, but for a simulation
whose call is given up (`Calm`, `Aside`).

### What stays with TLC

Liveness and everything with ENABLED is out of reach of the prover. So is induction over data: where a lemma speaks
of a set of any size (the branches in order, the first result of a journal, the number of branches taken) it is
proved from a smallest counterexample, with the well-foundedness of strict inclusion among finite sets, which the
library states (`SmallestSubset`, `LeastOfMany`). Checked by TLC only are the liveness properties: `SeriesEnds`,
`EndedRunsSettle`, `HeardAnswerIsTaken`, `IntentsAreSettled`, `SessionComesToRest`, `HealthComesToRest` and the
others. Every invariant, action property and refinement of a passing run is stated by a theorem, the refinement of
AtomicFiles for one server.

## 5. Not modelled

The components without a module are listed in `PROJECT.json` with the reason. In the modelled ones:
progress notices and the run events of a series' attempts (they change no state the properties read), the analysis of a series, the
text of errors, the contents of forms and answers, and the price cache that `start` and `approve` warm.

The assembly of prompts and the checks of an LLM node transform data; the retries of one call of a model are
ModelLane's. Nested inferences run inside a segment and have no state of their own that outlives it; image
outputs that cannot be stored end a segment without its failures. The Codex
runner follows another protocol of the same shape as the Claude runner. The common frame that joins several
feeds into one stream (`server/event_feeds.py`), reopening chat sessions from the journal, and fork of runs
have state of their own and no module yet.

The hazards in `PROJECT.json` are those a property covers. What the code also risks, and no property states:
an answer given in time behind a refused one is never judged once the deadline passes (`engine/human/waiter.py:166`);
recovery publishes an intent without comparing the files with what its edit expected (`write/txn.py:129`), over
findings its own server wrote before it, over edits of processes that do not recover and over those that followed a
failed file operation; a message that is sent while its session is being closed leaves a runner behind
(`chat/claude_backend.py:131`); a retry after its server died may be refused for what the first call did
(`write/service.py:107`); a follower that is suspended while it yields misses what the window forgets meanwhile
(`server/spec_channel.py:300`), and a timer that fires while a later notice is on its way may tell the older
progress last (`server/research_relay.py:77`); an
edit that outlives its TTL loses the lock unnoticed (`write/lock.py:46`) and a leftover lock is read and unlinked in
two steps (`write/lock.py:142`); runs without a row are looked for once in the life of a server
(`engine/summaries/service.py:123`) and a run in progress is billed by the sum of its executions
(`engine/summaries/model.py:33`); what a requeued try cost is in no row (`series/workflow.py:740`); held progress
may be lost and not only late (`server/research_relay.py:77`); a deferral forgets what it had rejected
(`engine/llm/executor.py:403`), and an exception of a tool takes the usage and failures of its segment with it
(`engine/llm/executor.py:154`).

## 6. Plan

1. Drafts and the files a validator derives, in WriteTransaction.
2. The loop node and fans inside fans; fork of runs.
3. The Codex runner, and a session reopened from its journal.
4. LlmNode over ModelLane: the token and cost limits, and what a lane does to a fallback; nested inferences.
