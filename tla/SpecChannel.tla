---------------------------- MODULE SpecChannel ----------------------------
(****************************************************************************)
(* The project channel of the server (server/spec_channel.py): a watcher      *)
(* notices edits of the project on disk, the workspace reads and checks the   *)
(* tree, the hub publishes what changed as numbered events, a simulation of   *)
(* the tree adds to the health of its flow, and followers read the events     *)
(* from a window that forgets the oldest. Notices of the series layer come    *)
(* through a relay and a throttle (server/research_relay.py) into the same    *)
(* events. All of it runs on one event loop, so an action is what happens     *)
(* between two awaits; only the disk changes under it.                        *)
(****************************************************************************)
EXTENDS Naturals, Sequences, SequencesExt, FiniteSets

CONSTANTS
    Followers,    \* the streams of clients
    Specs,        \* the contents the specification files can have
    Window,       \* how many events the hub keeps
    BatchLimit,   \* more changed paths than this are told as one resync
    Total,        \* the attempts of the series whose progress is told
    MaxInputs     \* how many edits, page reads, notices, connections and faults

ASSUME ChannelAssumption ==
    /\ Specs \subseteq Nat /\ 0 \in Specs
    /\ {Window, Total, MaxInputs} \subseteq Nat \ {0} /\ BatchLimit \in Nat

VARIABLES
    past,         \* the trees the disk has held, the last one is there now
    server,       \* the workspace, the hub, the simulations and the followers
    watcher,      \* the watcher of the project directory
    relay,        \* the relay and the throttle of the notices
    inputs        \* the inputs so far

channelVars == <<past, server, watcher, relay, inputs>>

disk == Last(past)
Callers == {"watch", "sim", "page"}
NoTree == [spec |-> 0, media |-> 0]

\* What the simulation of a tree finds; nothing is 0.
Found(spec) == spec + 1

\* A call waits for the lock, reads the tree or checks it. It is "answered" once
\* a reading has ended that began after the call was made.
Idle == [at |-> "off", answered |-> FALSE, tree |-> NoTree, since |-> 0]

\* The server has read the project once, as spec_watcher does before anything
\* else. "last" is the number of the last event a client has, "informed" the one
\* up to which it was told everything.
ChannelInit ==
    /\ past = <<NoTree>>
    /\ server = [state |-> [tree |-> NoTree, report |-> 0],
                 queue |-> <<>>, calls |-> [c \in Callers |-> Idle], covered |-> {},
                 log |-> <<>>, snapshot |-> NoTree, key |-> 0,
                 health |-> [report |-> 0, simulated |-> 0], simulated |-> 0,
                 paused |-> FALSE, closed |-> FALSE, sims |-> <<>>,
                 follow |-> [f \in Followers |->
                     [at |-> "off", cursor |-> 0, batch |-> <<>>, last |-> 0,
                      informed |-> 0, slid |-> FALSE]],
                 failed |-> {}, torn |-> FALSE]
    /\ watcher = [at |-> "down", unseen |-> 0, batches |-> <<>>]
    /\ relay = [ready |-> <<>>, cooling |-> FALSE, held |-> 0, timer |-> FALSE,
                published |-> 0, raced |-> FALSE]
    /\ inputs = 0

-----------------------------------------------------------------------------
(* The workspace: one reader of the tree at a time, the others wait in order.  *)

Reads(s, c) == [s EXCEPT !.calls[c].at = "snapshot", !.covered = ToSet(s.queue)]

\* A call has a ticket of its own, which no reading that has begun covers.
Asked(s, c) ==
    LET waits == [s EXCEPT !.queue = Append(@, c), !.covered = @ \ {c},
                           !.calls[c] = [Idle EXCEPT !.at = "lock", !.since = Len(past)]]
    IN  IF s.queue = <<>> THEN Reads(waits, c) ELSE waits

Left(s, c) == [s EXCEPT !.queue = RemoveFirst(@, c), !.calls[c] = Idle]

\* Slip: the reading answers every call there is by the time it ends.
AnsweredLate(s, c, state) ==
    [s EXCEPT !.state = state, !.queue = RemoveFirst(@, c),
              !.calls = [d \in Callers |->
                  IF d = c THEN Idle
                  ELSE [s.calls[d] EXCEPT !.answered = @ \/ d \in ToSet(s.queue)]]]

\* The lock is released with an answer for those who asked before it was taken.
Answered(s, c, state) ==
    [s EXCEPT !.state = state, !.queue = RemoveFirst(@, c),
              !.calls = [d \in Callers |->
                  IF d = c THEN Idle
                  ELSE [s.calls[d] EXCEPT !.answered = @ \/ d \in s.covered]]]

-----------------------------------------------------------------------------
(* The hub: events, simulations, refresh. *)

Publish(s, events) == [s EXCEPT !.log = @ \o events]

Oldest(s) == IF Len(s.log) > Window THEN Len(s.log) - Window + 1 ELSE 1

Current(s) == Len(s.sims)

\* A simulation that runs is killed and waited for; one in its last call leaves it.
Cancel(s) ==
    IF Current(s) = 0 THEN s
    ELSE LET i == Current(s)
             sim == s.sims[i]
             gone == [s EXCEPT !.sims[i].at = IF sim.at = "run" THEN "reap" ELSE "over"]
         IN  IF sim.at = "apply" THEN Left(gone, "sim") ELSE gone

Schedule(s, key) ==
    IF s.closed THEN s
    ELSE [Cancel(s) EXCEPT !.sims = Append(@, [key |-> key, at |-> "sleep"])]

Pause(s) ==
    [Cancel(s) EXCEPT !.paused = Current(s) > 0 /\ s.sims[Current(s)].at # "over"]

\* Slip: a simulation that was stopped for a rebuild is not started again.
ResumeNothing(s) == [s EXCEPT !.paused = FALSE]

Resume(s) ==
    LET resumed == [s EXCEPT !.paused = FALSE]
    IN  IF s.paused THEN Schedule(resumed, s.key) ELSE resumed

Reset(s) == [Cancel(s) EXCEPT !.simulated = 0, !.paused = FALSE]

ChangedPaths(before, after) ==
    (IF before.spec # after.spec THEN 1 ELSE 0) +
    (IF after.media > before.media THEN after.media - before.media
     ELSE before.media - after.media)

Event(type, tree, health, n) == [type |-> type, tree |-> tree, health |-> health, n |-> n]

Builders(s, tree, health) ==
    IF ChangedPaths(s.snapshot, tree) > BatchLimit
    THEN <<Event("resync", tree, health, 0)>>
    ELSE <<Event("files", tree, health, 0)>> \o
         (IF health # s.health THEN <<Event("diagnostics", tree, health, 0)>> ELSE <<>>)

\* The end of refresh, when the workspace has answered.
Refreshed(s, state) ==
    LET reindexed == state.tree.spec # s.key
        ready == IF reindexed THEN Reset(s) ELSE Resume(s)
        health == IF reindexed THEN [report |-> state.report, simulated |-> 0] ELSE s.health
        told == [Publish(ready, Builders(s, state.tree, health))
                    EXCEPT !.snapshot = state.tree, !.key = state.tree.spec,
                           !.health = health]
    IN  IF ChangedPaths(s.snapshot, state.tree) = 0
        THEN IF reindexed THEN s ELSE ready
        ELSE IF reindexed THEN Schedule(told, state.tree.spec) ELSE told

\* The end of apply_simulation, when the workspace has answered.
Applied(s, state) ==
    LET health == [report |-> state.report, simulated |-> s.simulated]
        event == Event("diagnostics", s.snapshot, health, 0)
        told == IF health # s.health THEN Publish(s, <<event>>) ELSE s
    IN  [told EXCEPT !.health = health, !.sims[Current(s)].at = "over",
                     !.torn = @ \/ state.tree.spec # s.key]

\* Who asked goes on in the step that answers.
Continue(s, c, state) ==
    CASE c = "watch" ->
            LET told == Refreshed(s, state)
            IN  [told EXCEPT !.failed = (@ \ {"watch"}) \
                                 (IF told.key # s.key THEN {"sim"} ELSE {})]
      [] c = "sim" -> Applied(s, state)
      [] OTHER -> s

-----------------------------------------------------------------------------
(* Followers. *)

\* A follower holds the event at the head of its batch until its client asks on.
Told(s, f, seq) ==
    [s EXCEPT !.follow[f].last = seq,
              !.follow[f].informed = IF seq = @ + 1 THEN seq ELSE @]

\* What a generator does until it yields, waits or returns.
Read(s, f) ==
    LET cursor == s.follow[f].cursor
        from == IF cursor + 1 > Oldest(s) THEN cursor + 1 ELSE Oldest(s)
        new == [i \in 1 .. (Len(s.log) + 1 - from) |-> from + i - 1]
    IN  IF from > Len(s.log)
        THEN [s EXCEPT !.follow[f].at = IF s.closed THEN "over" ELSE "wait"]
        ELSE Told([s EXCEPT !.follow[f].at = "batch", !.follow[f].batch = new], f, from)

\* Events have left the window that a follower was about to read.
Slid(s, f) == [s EXCEPT !.follow[f].slid = @ \/ s.follow[f].cursor + 1 < Oldest(s)]

\* Slip: the cursor that is just outside the window is taken for a good one.
StaleByOneMore(s, after) == after > Len(s.log) \/ after + 2 < Oldest(s)

StaleCursor(s, after) == after > Len(s.log) \/ after + 1 < Oldest(s)

\* What lies before a good cursor has been seen if it is that of the page, with
\* its "length" events; else the client may have lost what it was not told.
AtCursor(me, after, length) ==
    [me EXCEPT !.cursor = after, !.last = after, !.batch = <<>>,
               !.informed = IF after = length THEN after ELSE @,
               !.slid = after # length /\ after > me.informed]

\* A client goes on from the number of its last event, from that of the page it
\* has just loaded, or from one of another server. The first event that a hub
\* publishes has the number of a resync told before it.
Joins(f, after) ==
    /\ ~server.closed
    /\ server' =
         IF StaleCursor(server, after)
         THEN [server EXCEPT !.follow[f] =
                  [@ EXCEPT !.at = "resync", !.slid = FALSE, !.batch = <<>>,
                            !.last = IF Len(server.log) > 0 THEN Len(server.log) ELSE 1,
                            !.informed = Len(server.log)]]
         ELSE Read([server EXCEPT !.follow[f] = AtCursor(@, after, Len(server.log))], f)

\* The cursor jumps to the events there are now, not to those at the resync.
AfterResync(f) ==
    /\ server.follow[f].at = "resync"
    /\ server' = Read([server EXCEPT
                          !.follow[f].cursor = Len(server.log),
                          !.follow[f].slid = Len(server.log) > server.follow[f].informed], f)
    /\ UNCHANGED <<past, watcher, relay, inputs>>

AfterEvent(f) ==
    /\ server.follow[f].at = "batch"
    /\ LET batch == server.follow[f].batch
           moved == [server EXCEPT !.follow[f].cursor = Head(batch),
                                   !.follow[f].batch = Tail(batch)]
       IN  server' = IF Len(batch) > 1 THEN Told(moved, f, batch[2])
                     ELSE Read(Slid(moved, f), f)
    /\ UNCHANGED <<past, watcher, relay, inputs>>

Wakes(f) ==
    /\ server.follow[f].at = "wait"
    /\ Len(server.log) > server.follow[f].cursor \/ server.closed
    /\ server' = Read(Slid(server, f), f)
    /\ UNCHANGED <<past, watcher, relay, inputs>>

-----------------------------------------------------------------------------
(* What the callers of the workspace go through. *)

\* The first in the queue takes the answer there is, or the lock.
GetsLock(c) ==
    /\ server.calls[c].at = "lock" /\ server.queue # <<>> /\ Head(server.queue) = c
    /\ server' = IF server.calls[c].answered
                 THEN Continue(Left(server, c), c, server.state)
                 ELSE Reads(server, c)

\* A tree that is as it was is not checked again; else it is, and a refresh
\* stops the simulation for as long.
TakesSnapshot(c) ==
    /\ server.calls[c].at = "snapshot"
    /\ LET tree == [server.state EXCEPT !.tree = disk]
       IN  server' = IF disk.spec = server.state.tree.spec
                     THEN Continue(Answered(server, c, tree), c, tree)
                     ELSE LET paused == IF c = "watch" THEN Pause(server) ELSE server
                          IN  [paused EXCEPT !.calls[c].at = "build", !.calls[c].tree = disk]

\* The check reads the disk by itself, which may have changed since the snapshot.
Builds(c) ==
    /\ server.calls[c].at = "build"
    /\ LET state == [tree |-> server.calls[c].tree, report |-> disk.spec]
           torn == [server EXCEPT !.torn = @ \/ state.report # state.tree.spec]
       IN  server' = Continue(Answered(torn, c, state), c, state)

Returns(c) == server'.calls[c].at = "off"

\* A refresh that returns, and only that, gives the watcher its turn.
Call(c) ==
    /\ GetsLock(c) \/ TakesSnapshot(c) \/ Builds(c)
    /\ watcher' = IF c = "watch" /\ Returns(c) THEN [watcher EXCEPT !.at = "idle"]
                  ELSE watcher
    /\ UNCHANGED <<past, relay, inputs>>

-----------------------------------------------------------------------------
(* The watcher. *)

\* It watches before its first refresh, so that nothing falls between the two.
StartsWatching ==
    /\ watcher.at = "down" /\ ~server.closed
    /\ watcher' = [at |-> "refresh", unseen |-> 0, batches |-> <<>>]
    /\ server' = Asked(server, "watch")
    /\ UNCHANGED <<past, relay, inputs>>

Notices ==
    /\ watcher.unseen > 0
    /\ watcher' = [watcher EXCEPT !.unseen = 0, !.batches = Append(@, watcher.unseen)]
    /\ UNCHANGED <<past, server, relay, inputs>>

\* A batch with many paths waits for the ones after it.
TakesBatch ==
    /\ watcher.at = "idle" /\ watcher.batches # <<>>
    /\ LET burst == Head(watcher.batches) >= BatchLimit
           taken == [watcher EXCEPT !.batches = Tail(@)]
       IN  /\ watcher' = [taken EXCEPT !.at = IF burst THEN "settle" ELSE "refresh"]
           /\ server' = IF burst THEN server ELSE Asked(server, "watch")
    /\ UNCHANGED <<past, relay, inputs>>

SettlesMore ==
    /\ watcher.at = "settle" /\ watcher.batches # <<>>
    /\ watcher' = [watcher EXCEPT !.batches = Tail(@)]
    /\ UNCHANGED <<past, server, relay, inputs>>

Settles ==
    /\ watcher.at = "settle"
    /\ watcher' = [watcher EXCEPT !.at = "refresh"]
    /\ server' = Asked(server, "watch")
    /\ UNCHANGED <<past, relay, inputs>>

-----------------------------------------------------------------------------
(* The simulations. *)

\* The pause is over: wait for the one before, even if it only waits itself.
Starts(i) ==
    /\ server.sims[i].at = "sleep"
    /\ i > 1 => server.sims[i - 1].at = "over"
    /\ server' = [server EXCEPT !.sims[i].at = "run"]
    /\ UNCHANGED <<past, watcher, relay, inputs>>

Reaped(i) ==
    /\ server.sims[i].at = "reap"
    /\ server' = [server EXCEPT !.sims[i].at = "over"]
    /\ UNCHANGED <<past, watcher, relay, inputs>>

Applies(s, i, found) ==
    IF s.sims[i].key # s.key THEN [s EXCEPT !.sims[i].at = "over"]
    ELSE Asked([s EXCEPT !.sims[i].at = "apply", !.simulated = found], "sim")

\* It runs on the tree that is on the disk, not on the one it was scheduled for.
Simulates(i) ==
    /\ server.sims[i].at = "run"
    /\ server' = [Applies(server, i, Found(disk.spec))
                    EXCEPT !.torn = @ \/ disk.spec # server.sims[i].key]
    /\ UNCHANGED <<past, watcher, relay, inputs>>

-----------------------------------------------------------------------------
(* The relay and the throttle. *)

Status == Total + 1
Item(kind, n) == [kind |-> kind, n |-> n]
Notice(n) == Event("notice", server.snapshot, server.health, n)

\* Slip: the progress that was held back is left to its timer.
KeepsHeld(r) == r

Drop(r) == [r EXCEPT !.held = 0, !.timer = FALSE]

Announced(n) == server' = Publish(server, <<Notice(n)>>)

Delivers ==
    LET item == Head(relay.ready)
        next == [relay EXCEPT !.ready = Tail(@)]
        n == item.n
    IN  /\ relay.ready # <<>>
        /\ CASE item.kind = "deliver" ->
                   /\ relay' = [next EXCEPT !.ready = Append(@, Item("announce", n))]
                   /\ UNCHANGED server
             [] item.kind = "flushed" -> relay' = next /\ Announced(n)
             [] item.kind = "announce" /\ n = Status -> relay' = Drop(next) /\ Announced(n)
             [] item.kind = "announce" /\ n # Status /\ (n = Total \/ ~relay.cooling) ->
                   relay' = [Drop(next) EXCEPT !.cooling = TRUE] /\ Announced(n)
             [] OTHER -> relay' = [next EXCEPT !.held = n, !.timer = TRUE] /\ UNCHANGED server
        /\ UNCHANGED <<past, watcher, inputs>>

Elapses ==
    /\ relay.cooling
    /\ relay' = [relay EXCEPT !.cooling = FALSE]
    /\ UNCHANGED <<past, server, watcher, inputs>>

\* The timer hands the held progress to a task of its own.
Flush ==
    /\ relay.timer /\ ~relay.cooling
    /\ LET kinds == {<<relay.ready[i].kind, relay.ready[i].n>> : i \in 1 .. Len(relay.ready)}
       IN  relay' = [Drop(relay) EXCEPT
                        !.cooling = TRUE,
                        !.ready = Append(@, Item("flushed", relay.held)),
                        !.raced = @ \/ \E k \in kinds : k[1] = "announce"]
    /\ UNCHANGED <<past, server, watcher, inputs>>

-----------------------------------------------------------------------------
(* What comes from outside. *)

Edits(tree) ==
    /\ tree # disk
    /\ past' = Append(past, tree)
    /\ watcher' = IF watcher.at = "down" THEN watcher
                  ELSE [watcher EXCEPT !.unseen = @ + ChangedPaths(disk, tree)]
    /\ UNCHANGED <<server, relay>>

PageReads ==
    /\ server.calls["page"].at = "off"
    /\ server' = Asked(server, "page")
    /\ UNCHANGED <<past, watcher, relay>>

Publishes(n) ==
    /\ n > relay.published
    /\ relay' = [relay EXCEPT !.published = n, !.ready = Append(@, Item("deliver", n))]
    /\ UNCHANGED <<past, server, watcher>>

\* Reading or checking the tree raises; a refresh only logs it.
CallFails(c) ==
    /\ server.calls[c].at \in {"snapshot", "build"}
    /\ LET left == [Left(server, c) EXCEPT !.failed = @ \cup {c}]
       IN  server' = IF c = "sim" THEN [left EXCEPT !.sims[Current(left)].at = "over"] ELSE left
    /\ watcher' = IF c = "watch" THEN [watcher EXCEPT !.at = "idle"] ELSE watcher
    /\ UNCHANGED <<past, relay>>

\* A simulation that times out or whose output is broken has found nothing.
SimulationFails(i) ==
    /\ server.sims[i].at = "run"
    /\ server' = [Applies(server, i, 0) EXCEPT !.failed = @ \cup {"sim"}]
    /\ UNCHANGED <<past, watcher, relay>>

\* The task group cancels the refresh there is.
WatchFails ==
    /\ watcher.at # "down"
    /\ watcher' = [at |-> "down", unseen |-> 0, batches |-> <<>>]
    /\ server' = IF watcher.at = "refresh" THEN Left(server, "watch") ELSE server
    /\ UNCHANGED <<past, relay>>

Inputs ==
    /\ inputs < MaxInputs
    /\ inputs' = inputs + 1
    /\ \/ \E spec \in Specs : Edits([disk EXCEPT !.spec = spec])
       \/ \E files \in 1 .. 2 : Edits([disk EXCEPT !.media = @ + files])
       \/ PageReads
       \/ \E n \in 1 .. Status : Publishes(n)
       \/ \E c \in Callers : CallFails(c)
       \/ \E i \in 1 .. Current(server) : SimulationFails(i)
       \/ WatchFails

\* The first connection of a follower is not counted; a later one replaces it.
Connections ==
    \E f \in Followers :
        /\ inputs' = IF server.follow[f].at = "off" THEN inputs ELSE inputs + 1
        /\ inputs' <= MaxInputs
        /\ \E after \in {server.follow[f].last, Len(server.log), Len(server.log) + 1} :
               Joins(f, after)
        /\ UNCHANGED <<past, watcher, relay>>

Closes ==
    /\ ~server.closed
    /\ server' = [Cancel(server) EXCEPT !.closed = TRUE]
    /\ UNCHANGED <<past, watcher, relay, inputs>>

-----------------------------------------------------------------------------
Watches == StartsWatching \/ Notices \/ TakesBatch \/ SettlesMore \/ Settles
Simulation == \E i \in 1 .. Current(server) : Starts(i) \/ Reaped(i) \/ Simulates(i)
Follows(f) == AfterResync(f) \/ AfterEvent(f) \/ Wakes(f)
Relays == Delivers \/ Elapses \/ Flush

ChannelNext ==
    \/ \E c \in Callers : Call(c)
    \/ Watches
    \/ Simulation
    \/ \E f \in Followers : Follows(f)
    \/ Relays
    \/ Inputs
    \/ Connections
    \/ Closes

ChannelSpec == ChannelInit /\ [][ChannelNext]_channelVars

\* The loop runs what is ready, threads and processes end, clients read on.
ChannelFairness ==
    /\ \A c \in Callers : WF_channelVars(Call(c))
    /\ WF_channelVars(StartsWatching) /\ WF_channelVars(Notices)
    /\ WF_channelVars(TakesBatch) /\ WF_channelVars(Settles)
    /\ WF_channelVars(Simulation)
    /\ \A f \in Followers : WF_channelVars(Follows(f))
    /\ WF_channelVars(Delivers) /\ WF_channelVars(Elapses) /\ WF_channelVars(Flush)

FairChannelSpec == ChannelSpec /\ ChannelFairness

-----------------------------------------------------------------------------
(* Properties. *)

\* An edit that puts back what was there before can hide a read that mixed two
\* trees: the next snapshot looks as if nothing had happened.
Reverted == \E i, j \in 1 .. Len(past) : i + 1 < j /\ past[i].spec = past[j].spec /\
                \E k \in i .. j : past[k].spec # past[i].spec
Hidden == Reverted /\ server.torn

\* Whoever asks the workspace for the project gets a tree the disk has held since
\* it asked, and a report of it: requests that share one reading of the tree do
\* not get an answer from before their own edit (ProjectWorkspace.state).
AnswersAreFresh ==
    [][\A c \in Callers :
          Call(c) /\ Returns(c) =>
              \E i \in server.calls[c].since .. Len(past) :
                  /\ past[i] = server'.state.tree
                  /\ Hidden' \/ \E j \in server.calls[c].since .. Len(past) :
                                    past[j].spec = server'.state.report]_channelVars

\* A follower whose cursor has passed an event was given it or was told to reload
\* after it, unless the window slid on, or a resync was still in its client's
\* hands, while it was suspended (SpecEventHub.follow).
NoSilentGap ==
    \A f \in Followers :
        LET me == server.follow[f]
        IN  me.at \in {"batch", "wait"} => me.cursor <= me.informed \/ me.slid

\* No progress of a series follows its last status, and progress never goes back,
\* unless the timer of the throttle fired while the later notice was already on
\* its way (ProgressThrottle).
NoLateProgress ==
    \A i, j \in 1 .. Len(server.log) :
        i < j /\ server.log[i].type = "notice" /\ server.log[j].type = "notice" =>
            server.log[i].n < server.log[j].n \/ relay.raced

ToldHealth ==
    LET told == {i \in 1 .. Len(server.log) : server.log[i].type \in {"diagnostics", "resync"}}
        last == server.log[CHOOSE i \in told : \A j \in told : j <= i]
    IN  IF told = {} THEN server.health = [report |-> 0, simulated |-> 0]
        ELSE last.type = "resync" \/ last.health = server.health

Settled ==
    /\ server.snapshot = disk
    /\ server.health = [report |-> disk.spec, simulated |-> Found(disk.spec)]
    /\ ToldHealth

\* When the edits stop, the channel comes to show the tree on the disk, with the
\* problems its check and its simulation find, and the last event about them says
\* so: no interleaving of the refreshes of the watcher, the simulations they stop
\* and start again, and a watcher that fails, leaves an old result standing.
HealthComesToRest ==
    <>[](Settled \/ server.sims = <<>> \/ server.closed \/ server.failed # {} \/ Hidden)

=============================================================================
