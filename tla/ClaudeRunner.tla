---------------------------- MODULE ClaudeRunner ----------------------------
(****************************************************************************)
(* One chat session on the Claude backend (chat/claude_runner.py): the turns  *)
(* of a thread, the messages sent while one runs, the agent process that is   *)
(* connected and dropped under them, the approvals it asks for, and the calls *)
(* that stop, close or reconfigure the session. Everything runs on one event  *)
(* loop: an action is what happens between two awaits. What such a step does  *)
(* to the runner is a function of its state, the record "runner"; a call that *)
(* is suspended is an entry of "jobs" that waits for its next step.           *)
(*                                                                            *)
(* close_session (chat/claude_backend.py) takes the runner out of the backend *)
(* first and stores the session as closed last. What is called in between     *)
(* finds no runner, and a message builds another one over the same journal:    *)
(* of that runner "session" has what the two share.                           *)
(****************************************************************************)
EXTENDS Naturals, Sequences, SequencesExt, FiniteSets

CONSTANTS
    Ops,          \* the messages of the user, by client_op_id
    Stops,        \* the calls of interrupt
    Close,        \* the call of close_session
    Reload,       \* the call of apply_settings
    MaxEvents     \* how often, together, agents die, fail to start, hang, wake
                  \* up by themselves or ask, and the settings change

ASSUME BoundsAssumption == MaxEvents \in Nat /\ IsFiniteSet(Stops)

VARIABLES
    runner,       \* the session runner, its normalizer and its journal
    agent,        \* the agent process behind the current client
    jobs,         \* the calls and the readers that are suspended
    session,      \* what is called while the runner is being closed
    used          \* the clients and the events so far, and what went unnoticed

vars == <<runner, agent, jobs, session, used>>

NoTurn == 0
NoClient == 0
Clients == 1 .. (1 + 2 * (MaxEvents + Cardinality(Stops)))

\* A reader of a client that fails is a job under the client's number.
Calls == Stops \cup {Close, Reload}
Jobs == Calls \cup Clients
ASSUME NamesAssumption ==
    Close # Reload /\ {Close, Reload} \cap (Stops \cup Clients) = {} /\ Stops \cap Clients = {}

\* Nobody looks at the process of a client that was dropped.
NewAgent == [inbox |-> <<>>, works |-> FALSE, dead |-> FALSE, deaf |-> FALSE,
             got |-> [o \in Ops |-> 0]]

Unused == [kind |-> "none", at |-> "none", gone |-> NoClient, turn |-> NoTurn]
Returned == [Unused EXCEPT !.kind = "over"]

\* runner.at tells where the task is that holds the lock _sending, the first of
\* "tasks". The journal is kept as the ledger reads it: its last state event, and
\* the turn whose start is its last turn boundary. Of the session: whether a second
\* close has stored it as closed; whether a call that found no runner may have
\* settled the journal of a turn that ran; whether a message built another runner,
\* the turns such runners have open, and the messages that wait for one.
Init ==
    /\ runner = [turn |-> NoTurn, turns |-> 0, state |-> "idle",
                 interrupting |-> FALSE, closed |-> FALSE,
                 journal |-> [state |-> "idle", open |-> NoTurn],
                 pending |-> <<>>, ops |-> [o \in Ops |-> "unsent"],
                 client |-> NoClient, written |-> [o \in Ops |-> NoClient],
                 tasks |-> <<>>, at |-> "lock", via |-> NoClient, delivery |-> NoTurn,
                 asks |-> [c \in Clients |-> "none"]]
    /\ agent = NewAgent
    /\ jobs = [j \in Jobs |-> Unused]
    /\ session = [sealed |-> FALSE, swept |-> FALSE, crossed |-> FALSE,
                  turns |-> {}, waiting |-> {}]
    /\ used = [clients |-> 0, events |-> 0, late |-> FALSE, forgot |-> FALSE]

\* The members of s that are wanted, in the order of s (SelectSeq, as a function).
Keep(s, wanted) ==
    LET places == {i \in 1 .. Len(s) : s[i] \in wanted}
        order == CHOOSE f \in [1 .. Cardinality(places) -> places] :
                     \A i, j \in DOMAIN f : i < j => f[i] < f[j]
    IN  [i \in 1 .. Cardinality(places) |-> s[order[i]]]

-----------------------------------------------------------------------------
(* The normalizer and the journal. *)

Shown(r, state) ==
    IF state = r.state \/ (r.interrupting /\ state \notin {"interrupting", "idle"})
    THEN r
    ELSE [r EXCEPT !.state = state, !.journal.state = state]

\* Slip: a turn that is being stopped ends without its last event.
FinishedUnlessStopped(r) ==
    IF r.interrupting THEN Shown([r EXCEPT !.interrupting = FALSE], "idle")
    ELSE [Shown(r, "idle") EXCEPT !.journal = [state |-> "finished", open |-> NoTurn]]

Finished(r) ==
    [Shown([r EXCEPT !.interrupting = FALSE], "idle")
        EXCEPT !.journal = [state |-> "finished", open |-> NoTurn]]

SettledStates == {"idle", "finished"}

Settle(r) ==
    IF r.journal.state \in SettledStates THEN r
    ELSE [r EXCEPT !.journal = [state |-> "finished", open |-> NoTurn]]

Resolve(r) ==
    [r EXCEPT !.asks = [c \in Clients |-> IF @[c] = "open" THEN "resolved" ELSE @[c]]]

-----------------------------------------------------------------------------
(* Turns and the messages that wait for one. *)

OpenTurn(r) ==
    LET id == r.turns + 1 IN
    Shown([r EXCEPT !.turn = id, !.turns = id, !.interrupting = FALSE,
                    !.journal.open = id], "thinking")

WriteTask(o) == [kind |-> "write", op |-> o, turn |-> NoTurn]
DeliverTask(o, turn) == [kind |-> "deliver", op |-> o, turn |-> turn]

IsWritten(r, o) == r.client # NoClient /\ r.written[o] = r.client
Unwritten(r) == {o \in Ops : ~IsWritten(r, o)}

ScheduleWrites(r, ops) ==
    [r EXCEPT !.tasks = @ \o [i \in 1 .. Len(ops) |-> WriteTask(ops[i])]]

\* Slip: the message the turn is for counts as written when it is taken.
TurnClosedUnwritten(r) ==
    IF r.pending = <<>> THEN [r EXCEPT !.turn = NoTurn]
    ELSE LET next == OpenTurn([r EXCEPT !.turn = NoTurn, !.pending = Tail(@),
                                        !.ops[Head(r.pending)] = "turn"])
         IN ScheduleWrites(next, Keep(next.pending, Unwritten(next)))

TurnClosed(r) ==
    IF r.pending = <<>> THEN [r EXCEPT !.turn = NoTurn]
    ELSE LET next == OpenTurn([r EXCEPT !.turn = NoTurn, !.pending = Tail(@),
                                        !.ops[Head(r.pending)] = "turn"])
         IN ScheduleWrites(next, Keep(r.pending, Unwritten(next)))

ContinueTurn(r) == IF r.turn # NoTurn \/ r.closed THEN r ELSE OpenTurn(r)

Delivered(r, o) ==
    IF Contains(r.pending, o)
    THEN [r EXCEPT !.pending = Keep(@, Ops \ {o}), !.ops[o] = "delivered"]
    ELSE r

Abort(r) == IF r.turn = NoTurn THEN r ELSE TurnClosed(Finished(Resolve(r)))

-----------------------------------------------------------------------------
(* The calls that stop a turn or drop the client. A call runs on until it has *)
(* to wait: for the cancelled delivery, for the cancelled writes, for the      *)
(* agent to acknowledge a stop, or for the client to disconnect. An outcome is *)
(* the runner it leaves and what it waits for.                                 *)

Outcome(kind, r, at, gone) == [kind |-> kind, runner |-> r, at |-> at, gone |-> gone]

IsWrite(task) == task.kind = "write"
Writes(r) == {t \in Range(r.tasks) : IsWrite(t)}
Delivery(r) == {t \in Range(r.tasks) : t.kind = "deliver" /\ t.turn = r.delivery}

\* A cancelled task that holds the lock hands it on.
Without(r, cancelled) ==
    LET handsOn == r.tasks # <<>> /\ Head(r.tasks) \in cancelled
    IN  [r EXCEPT !.tasks = Keep(@, Range(@) \ cancelled),
                  !.at = IF handsOn THEN "lock" ELSE @,
                  !.via = IF handsOn THEN NoClient ELSE @]

Ends(kind, r) ==
    Outcome(kind,
            CASE kind = "reload" -> r
              [] kind = "close"  -> Settle(Abort([r EXCEPT !.interrupting = TRUE]))
              [] OTHER           -> Abort(r),
            "none", NoClient)

ThenDrop(kind, r) ==
    IF r.client = NoClient THEN Ends(kind, r)
    ELSE Outcome(kind, [r EXCEPT !.client = NoClient], "drop", r.client)

AfterWrites(kind, r) == IF kind = "request" THEN Ends(kind, r) ELSE ThenDrop(kind, r)

ThenWrites(kind, r) ==
    IF Writes(r) # {}
    THEN Outcome(kind, Without(r, Writes(r)), "writes", NoClient)
    ELSE AfterWrites(kind, r)

ThenDelivery(kind, r) ==
    IF Delivery(r) # {}
    THEN Outcome(kind, Without(r, Delivery(r)), "delivery", NoClient)
    ELSE IF kind = "request" /\ r.client # NoClient
    THEN Outcome(kind, r, "ack", r.client)
    ELSE ThenWrites(kind, r)

\* A text is on its way to a live agent.
OnItsWay ==
    /\ runner.tasks # <<>> /\ runner.at = "query"
    /\ runner.via = runner.client /\ runner.client # NoClient /\ ~agent.dead

Arrives ==
    agent' = [agent EXCEPT !.inbox = Append(@, Head(runner.tasks).op),
                           !.got[Head(runner.tasks).op] = @ + 1]

\* The text of a task that is cancelled may have arrived.
AgentAfter(r) ==
    IF r.client = NoClient THEN agent' = NewAgent
    ELSE \/ UNCHANGED agent
         \/ OnItsWay /\ r.at # "query" /\ Arrives

\* The job j does as the outcome says. The turn it is about stays the one that
\* ran when it began.
Become(j, outcome) ==
    /\ runner' = outcome.runner
    /\ jobs' = [jobs EXCEPT ![j] =
                   IF outcome.at = "none" THEN Returned
                   ELSE [kind |-> outcome.kind, at |-> outcome.at, gone |-> outcome.gone,
                         turn |-> IF @.at = "none" THEN runner.turn ELSE @.turn]]
    /\ AgentAfter(outcome.runner)

-----------------------------------------------------------------------------
(* The calls of the user. *)

\* The backend has the runner: close_session takes it first.
Held == jobs[Close].kind = "none"

Happens ==
    /\ used.events < MaxEvents
    /\ used' = [used EXCEPT !.events = @ + 1]

Send(o) ==
    /\ Held /\ runner.ops[o] = "unsent"
    /\ runner' =
          IF runner.turn = NoTurn
          THEN LET r == OpenTurn([runner EXCEPT !.ops[o] = "turn"])
               IN [r EXCEPT !.tasks = Append(@, DeliverTask(o, r.turn)), !.delivery = r.turn]
          ELSE ScheduleWrites([runner EXCEPT !.pending = Append(@, o), !.ops[o] = "queued"], <<o>>)
    /\ used' = [used EXCEPT !.forgot = @ \/ (runner.turn = NoTurn /\ Delivery(runner) # {})]
    /\ UNCHANGED <<agent, jobs, session>>

Interrupt(s) ==
    /\ Held /\ jobs[s] = Unused
    /\ Become(s,
          IF runner.turn = NoTurn THEN Outcome("idle", Settle(runner), "none", NoClient)
          ELSE IF runner.interrupting THEN ThenDelivery("force", Resolve(runner))
          ELSE ThenDelivery("request",
                  Resolve(Shown([runner EXCEPT !.interrupting = TRUE], "interrupting"))))
    /\ UNCHANGED <<session, used>>

\* Only a message builds a runner: before the first there is nothing to close.
HasRunner == Held /\ \E o \in Ops : runner.ops[o] # "unsent"

\* Slip: the messages that wait are not dropped.
CloseKeepsPending ==
    /\ HasRunner
    /\ Become(Close, Outcome("close", Resolve([runner EXCEPT !.closed = TRUE]), "sleep", NoClient))
    /\ UNCHANGED <<session, used>>

CloseSession ==
    /\ HasRunner
    /\ Become(Close, Outcome("close",
          Resolve([runner EXCEPT !.closed = TRUE, !.pending = <<>>,
                                 !.ops = [o \in Ops |-> IF @[o] = "queued" THEN "dropped" ELSE @[o]]]),
          "sleep", NoClient))
    /\ UNCHANGED <<session, used>>

ReloadSettings ==
    /\ Happens /\ Held /\ jobs[Reload] = Unused
    /\ Become(Reload, ThenDrop("reload", runner))
    /\ UNCHANGED session

\* The session is stored as closed when close_session has nothing left to wait for.
Stored == session.sealed \/ jobs[Close].kind = "over"

Answer(c) ==
    /\ ~Stored /\ runner.asks[c] = "open"
    /\ runner' = [runner EXCEPT !.asks[c] = "resolved"]
    /\ UNCHANGED <<agent, jobs, session, used>>

-----------------------------------------------------------------------------
(* The calls of the user while close_session waits, and the runners they build. *)

Closing == jobs[Close].at # "none"

\* There is no runner to stop, or one that runs no turn.
StopWhileClosing(s) ==
    /\ Closing /\ ~Stored /\ jobs[s] = Unused
    /\ Become(s, Outcome("idle", Settle(runner), "none", NoClient))
    /\ session' = [session EXCEPT !.swept = TRUE]
    /\ UNCHANGED used

\* A second close comes to its end.
CloseAgain ==
    /\ ~Held
    /\ runner' = Settle(runner)
    /\ session' = IF Closing THEN [session EXCEPT !.sealed = TRUE, !.swept = TRUE] ELSE session
    /\ UNCHANGED <<agent, jobs, used>>

\* Another runner opens a turn, for a message that waited or another, and has ended
\* the one it had.
OtherTurn(r) ==
    LET id == r.turns + 1
    IN  [r EXCEPT !.turns = id, !.journal = [state |-> "thinking", open |-> id]]

OtherOpens(ended, taken) ==
    session' = [session EXCEPT !.crossed = TRUE, !.waiting = @ \ taken,
                               !.turns = (@ \ ended) \cup {runner.turns + 1}]

SendWhileClosing(o) ==
    /\ Closing /\ ~Stored /\ runner.ops[o] = "unsent"
    /\ \/ /\ runner' = [OtherTurn(runner) EXCEPT !.ops[o] = "other"]
          /\ OtherOpens({}, {})
       \/ /\ session.turns # {}
          /\ runner' = [runner EXCEPT !.ops[o] = "other"]
          /\ session' = [session EXCEPT !.waiting = @ \cup {o}]
    /\ UNCHANGED <<agent, jobs, used>>

OtherEnds(t) ==
    /\ t \in session.turns
    /\ \/ /\ runner' = [runner EXCEPT !.journal = [state |-> "finished", open |-> NoTurn]]
          /\ session' = [session EXCEPT !.turns = @ \ {t}]
       \/ /\ runner' = OtherTurn(runner)
          /\ \E o \in session.waiting : OtherOpens({t}, {o})
    /\ UNCHANGED <<agent, jobs, used>>

\* Its agent goes on by itself.
OtherContinues ==
    /\ session.crossed /\ Happens
    /\ runner' = OtherTurn(runner)
    /\ OtherOpens({}, {})
    /\ UNCHANGED <<agent, jobs>>

\* It shows what its agent does: one state stands for all that are not settled.
OtherShows ==
    /\ session.crossed
    /\ runner' = [runner EXCEPT !.journal.state = "thinking"]
    /\ UNCHANGED <<agent, jobs, session, used>>

\* A stop, a close or the end of its turn resolves the approvals of the session.
OtherResolves ==
    /\ session.crossed
    /\ runner' = Resolve(runner)
    /\ UNCHANGED <<agent, jobs, session, used>>

-----------------------------------------------------------------------------
(* Suspended calls go on. *)

CancelledTasksEnd(j) ==
    /\ jobs[j].at \in {"delivery", "writes"}
    /\ Become(j, IF jobs[j].at = "delivery" THEN ThenWrites(jobs[j].kind, runner)
                 ELSE AfterWrites(jobs[j].kind, runner))
    /\ UNCHANGED <<session, used>>

\* Disconnecting cancels the approvals the client waits for.
Disconnects(j) ==
    /\ jobs[j].at = "drop" /\ runner.asks[jobs[j].gone] = "none"
    /\ Become(j, Ends(jobs[j].kind, runner))
    /\ UNCHANGED <<session, used>>

Awakes(j) ==
    /\ jobs[j].at = "sleep"
    /\ Become(j, ThenDelivery(jobs[j].kind, runner))
    /\ UNCHANGED <<session, used>>

IsCurrent(j) == jobs[j].gone = runner.client

StopAcknowledged(j) ==
    /\ jobs[j].at = "ack" /\ (IsCurrent(j) => ~agent.dead)
    /\ Become(j, Outcome("request", runner, "none", NoClient))
    /\ UNCHANGED <<session, used>>

StopTimesOut(j) ==
    /\ jobs[j].at = "ack" /\ IsCurrent(j)
    /\ Become(j, ThenDelivery("force", Resolve(runner)))
    /\ UNCHANGED <<session, used>>

StopFails(j) ==
    /\ jobs[j].at = "ack" /\ IsCurrent(j) /\ agent.dead
    /\ Become(j, ThenDrop("fail", runner))
    /\ UNCHANGED <<session, used>>

ReaderFails(c) ==
    /\ c = runner.client /\ agent.dead
    /\ Become(c, ThenDrop("fail", runner))
    /\ UNCHANGED <<session, used>>

-----------------------------------------------------------------------------
(* The task that holds the lock: a message is delivered or written. *)

Task == Head(runner.tasks)
HasTask(at) == runner.tasks # <<>> /\ runner.at = at
TaskDone(r) == [r EXCEPT !.tasks = Tail(@), !.at = "lock", !.via = NoClient]

\* Slip: what was scheduled is written.
TaskAlwaysWrites ==
    /\ HasTask("lock")
    /\ runner' = IF runner.client = NoClient THEN [runner EXCEPT !.at = "connect"]
                 ELSE [runner EXCEPT !.at = "query", !.via = runner.client]
    /\ UNCHANGED <<agent, jobs, session, used>>

TaskBegins ==
    /\ HasTask("lock")
    /\ runner' = IF runner.client = NoClient THEN [runner EXCEPT !.at = "connect"]
                 ELSE IF IsWrite(Task) /\ IsWritten(runner, Task.op) THEN TaskDone(runner)
                 ELSE [runner EXCEPT !.at = "query", !.via = runner.client]
    /\ UNCHANGED <<agent, jobs, session, used>>

Connects ==
    LET c == used.clients + 1 IN
    /\ HasTask("connect")
    /\ runner' = [runner EXCEPT !.client = c, !.at = "query", !.via = c]
    /\ agent' = NewAgent
    /\ used' = [used EXCEPT !.clients = c]
    /\ UNCHANGED <<jobs, session>>

QueryDone ==
    /\ HasTask("query")
    /\ runner' = TaskDone(IF IsWrite(Task) THEN [runner EXCEPT !.written[Task.op] = runner.via]
                          ELSE runner)
    /\ IF OnItsWay THEN Arrives ELSE UNCHANGED agent
    /\ UNCHANGED <<jobs, session, used>>

\* The task that fails keeps the lock until the client is disconnected. A write
\* fails the turn only of the client it went to, a delivery of any.
TaskFails ==
    LET outcome == ThenDrop("fail", runner) IN
    /\ runner' = IF outcome.at = "drop"
                 THEN [outcome.runner EXCEPT !.at = "drop", !.via = outcome.gone]
                 ELSE TaskDone(outcome.runner)
    /\ agent' = NewAgent

ConnectFails ==
    /\ HasTask("connect") /\ Happens
    /\ TaskFails
    /\ UNCHANGED <<jobs, session>>

QueryFails ==
    /\ HasTask("query") /\ ~OnItsWay
    /\ IF IsWrite(Task) /\ runner.via # runner.client
       THEN runner' = TaskDone(runner) /\ UNCHANGED agent
       ELSE TaskFails
    /\ UNCHANGED <<jobs, session, used>>

TaskDisconnects ==
    /\ HasTask("drop") /\ runner.asks[runner.via] = "none"
    /\ runner' = TaskDone(Ends("fail", runner).runner)
    /\ UNCHANGED <<agent, jobs, session, used>>

-----------------------------------------------------------------------------
(* The agent, and the approvals it asks for. *)

Live == runner.client # NoClient /\ ~agent.dead
Blocked == Live /\ runner.asks[runner.client] # "none"

\* It takes up a text, between turns or as a step of the one it works on, and
\* echoes it under the id it was written with.
AgentTakes ==
    /\ Live /\ ~agent.deaf /\ ~Blocked /\ agent.inbox # <<>>
    /\ agent' = [agent EXCEPT !.inbox = Tail(@), !.works = TRUE]
    /\ runner' = Delivered(ContinueTurn(runner), Head(agent.inbox))
    /\ UNCHANGED <<jobs, session, used>>

\* It speaks where no turn is open.
AgentSpeaks ==
    /\ Live /\ ~Blocked /\ agent.works /\ runner.turn = NoTurn /\ ~runner.closed
    /\ runner' = ContinueTurn(runner)
    /\ UNCHANGED <<agent, jobs, session, used>>

AgentEnds ==
    /\ Live /\ ~agent.deaf /\ ~Blocked /\ agent.works
    /\ agent' = [agent EXCEPT !.works = FALSE]
    /\ runner' = TurnClosed(Finished(runner))
    /\ UNCHANGED <<jobs, session, used>>

\* Work it left in the background ends, and it goes on by itself.
AgentWakes ==
    /\ Live /\ ~agent.works /\ Happens
    /\ agent.inbox = <<>> /\ \E o \in Ops : agent.got[o] > 0
    /\ agent' = [agent EXCEPT !.works = TRUE]
    /\ UNCHANGED <<runner, jobs, session>>

AgentBreaks ==
    /\ Live /\ Happens
    /\ \E how \in {"dead", "deaf"} : ~agent[how] /\ agent' = [agent EXCEPT ![how] = TRUE]
    /\ UNCHANGED <<runner, jobs, session>>

\* It speaks before it asks, which opens a turn unless the session is closed.
CanUseTool ==
    /\ Live /\ ~Blocked /\ agent.works
    /\ runner.turn # NoTurn \/ runner.closed
    /\ used.events < MaxEvents
    /\ used' = [used EXCEPT !.events = @ + 1, !.late = @ \/ runner.turn = NoTurn]
    /\ runner' = Shown([runner EXCEPT !.asks[runner.client] = "open"], "waiting_approval")
    /\ UNCHANGED <<agent, jobs, session>>

\* The verdict is in, or it took too long, or the client was disconnected. The
\* approvals of another runner count among those that still wait.
ApprovalSettles(c) ==
    /\ runner.asks[c] # "none"
    /\ \E state \in {"waiting_approval", "thinking"} :
          /\ runner' = Shown([runner EXCEPT !.asks[c] = "none"], state)
          /\ ~session.crossed => (state = "waiting_approval"
                                      <=> \E d \in Clients \ {c} : runner.asks[d] = "open")
    /\ used' = [used EXCEPT !.late = @ \/ runner.turn = NoTurn]
    /\ UNCHANGED <<agent, jobs, session>>

-----------------------------------------------------------------------------

Terminating ==
    /\ ~Held \/ \A o \in Ops : runner.ops[o] # "unsent"
    /\ runner.turn = NoTurn /\ runner.tasks = <<>> /\ \A j \in Jobs : jobs[j].at = "none"
    /\ UNCHANGED vars

JobGoesOn(j) ==
    \/ CancelledTasksEnd(j) \/ Disconnects(j) \/ Awakes(j)
    \/ StopAcknowledged(j) \/ StopTimesOut(j) \/ StopFails(j)

Next ==
    \/ \E o \in Ops : Send(o)
    \/ \E s \in Stops : Interrupt(s) \/ StopWhileClosing(s)
    \/ \E o \in Ops : SendWhileClosing(o)
    \/ \E t \in session.turns : OtherEnds(t)
    \/ OtherContinues \/ OtherShows \/ OtherResolves
    \/ CloseSession \/ CloseAgain
    \/ ReloadSettings
    \/ \E c \in Clients : Answer(c) \/ ApprovalSettles(c) \/ ReaderFails(c)
    \/ \E j \in Jobs : JobGoesOn(j)
    \/ TaskBegins \/ Connects \/ ConnectFails \/ QueryDone \/ QueryFails \/ TaskDisconnects
    \/ AgentTakes \/ AgentSpeaks \/ AgentEnds \/ AgentWakes \/ AgentBreaks \/ CanUseTool
    \/ Terminating

Spec == Init /\ [][Next]_vars

Fairness ==
    /\ \A j \in Jobs : WF_vars(JobGoesOn(j))
    /\ \A c \in Clients : WF_vars(ApprovalSettles(c)) /\ WF_vars(ReaderFails(c))
    /\ WF_vars(TaskBegins) /\ WF_vars(Connects \/ ConnectFails)
    /\ WF_vars(QueryDone \/ QueryFails) /\ WF_vars(TaskDisconnects)
    /\ WF_vars(AgentTakes) /\ WF_vars(AgentEnds)

FairSpec == Spec /\ Fairness

-----------------------------------------------------------------------------
(* Properties. *)

IsSuspended(j) == jobs[j].at # "none"
Comes(j) == IsSuspended(j) /\ jobs'[j].at = "none"

\* The turns the journal may have open instead of the runner's: while the runner is
\* being closed, none, once a stop or a second close found no runner and settled the
\* journal; and those of the runners that messages built meanwhile.
StrayTurns ==
    IF session.crossed THEN session.turns \cup {NoTurn}
    ELSE IF session.swept /\ Closing THEN {NoTurn} ELSE {}

\* The journal has the turn that runs as its open turn and, unless an approval
\* was settled after its turn, shows a settled state when and only when no turn
\* runs: after a crash the sweep of the ledger finishes the turn that was lost,
\* and no other (TurnSettler.sweep, SqliteChatJournal.unsettled_turn). What is
\* called while the session is being closed may settle the turn too early, or
\* have a turn of its own; without another runner that is over with the close.
JournalFollowsTheTurn ==
    /\ runner.journal.open \in {runner.turn} \cup StrayTurns
    /\ \/ used.late \/ StrayTurns # {}
       \/ (runner.turn = NoTurn <=> runner.journal.state \in SettledStates)

\* A closed runner stays closed, whatever was under way when close() was called and
\* whatever is called while it waits: no turn, no message that waits for one and no
\* agent is left, unless a delivery outlived its turn: close() cancels the last one
\* only (_delivery).
ClosedIsQuiet ==
    jobs[Close].kind = "over" =>
        /\ runner.turn = NoTurn /\ runner.pending = <<>>
        /\ used.forgot \/ (runner.client = NoClient /\ runner.tasks = <<>>)

\* "test_close_stops_client_ends_stream_and_resume_reuses_backend_session"
CloseStopsTheClient == jobs[Close].kind = "over" => runner.client = NoClient

\* The same of the session: a message that came while close_session waited leaves
\* a runner with its turn and its agent behind.
CloseStopsTheSession == jobs[Close].kind = "over" => session.turns = {}

\* A message that was written to an agent is not sent to this agent again: not
\* by the task its sending scheduled, nor by those of the turns that end before
\* it is taken up (_unwritten, _written and the generation).
NeverWrittenTwice == [][
    \A o \in Ops : IsWritten(runner, o) /\ runner'.client = runner.client
                        => agent'.got[o] = agent.got[o]]_vars

\* Every turn ends, every message gets one and every call returns, unless an
\* agent hangs or new settings took it from its turn (reload_settings drops
\* the client and leaves the turn to a stop).
SessionComesToRest == []<>
    \/ agent.deaf \/ jobs[Reload].kind # "none"
    \/ /\ runner.turn = NoTurn /\ runner.pending = <<>> /\ runner.tasks = <<>>
       /\ \A j \in Jobs : ~IsSuspended(j)

=============================================================================
