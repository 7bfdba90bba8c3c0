----------------------------- MODULE ModelLane -----------------------------
(****************************************************************************)
(* The calls of one model under load: the budget of their run                 *)
(* (models/limiter.py), the lane they queue in, which pauses and narrows when  *)
(* the provider rate-limits (models/lanes.py), the pacing of the provider      *)
(* (models/rate.py) and the retries (models/backoff.py). Everything runs on    *)
(* one event loop: an action is what happens between two awaits. Time is kept  *)
(* as what is left of each wait, and a Tick takes one off all of them.         *)
(****************************************************************************)
EXTENDS Naturals, Sequences, SequencesExt, FiniteSets, FiniteSetsExt

CONSTANTS
    Calls,            \* the nodes of one run that call the model, one call at a time
    MaxAsks,          \* how many calls they make together
    Modes,            \* the values of on_rate_limit to be checked
    Ceiling,          \* the parallel calls of the lane at the start
    RecoveryStreak,   \* RECOVERY_STREAK
    RequestLimit,     \* limits.requests of the run
    Interval,         \* between two requests to the provider, from rpm
    MaxSeconds,       \* the longest wait of the strategy and of the backoff
    Attempts, Budget,           \* of the backoff policy
    LaneAttempts, LaneBudget    \* of the automatic strategy

ASSUME LaneAssumption ==
    /\ IsFiniteSet(Calls)
    /\ {Ceiling, RecoveryStreak, MaxSeconds, Attempts, LaneAttempts} \subseteq Nat \ {0}
    /\ {RequestLimit, MaxAsks, Interval, Budget, LaneBudget} \subseteq Nat
    /\ Modes \subseteq {"auto", "fixed", "fail"}

VARIABLES
    lane,     \* its capacity, its pause and its streak of successes
    queue,    \* the calls that wait for capacity, oldest first
    pacing,   \* how far ahead the pacing is reserved, and the last start
    call,     \* where each call is
    ledger    \* the calls the run has made and the responses its budget counts

vars == <<lane, queue, pacing, call, ledger>>

\* A call that has a slot of the lane has it until its stream has ended. The slot
\* is fresh while no cut came after it: its generation is that of the lane.
Held == {"pausing", "pacing", "open", "streaming"}
UnderWay == {"queued", "backing"} \cup Held

Idle == [at |-> "idle", attempt |-> 0, left |-> 0, elapsed |-> 0,
         fresh |-> FALSE, caught |-> FALSE]

Init ==
    /\ lane \in [mode : Modes, parallel : {Ceiling}, pause : {0}, streak : {0}]
    /\ queue = <<>>
    /\ pacing = [ahead |-> 0, since |-> Interval]
    /\ call = [c \in Calls |-> Idle]
    /\ ledger = [asked |-> 0, requests |-> 0]

At(places) == {c \in Calls : call[c].at \in places}
MinusOne(n) == IF n = 0 THEN 0 ELSE n - 1
Least(m, n) == Min({m, n})
Most(m, n) == Max({m, n})

----------------------------------------------------------------------------
\* The strategy of a rate limit. NoHint stands for a 429 without retry-after.
NoHint == MaxSeconds + 1
Hints == 0 .. NoHint

Doubled(attempt) == Least(2 ^ (attempt - 1), MaxSeconds)
PauseSeconds(attempt, hint) ==
    IF lane.mode = "fixed" THEN MaxSeconds
    ELSE IF hint = NoHint THEN Doubled(attempt) ELSE Least(hint, MaxSeconds)

Exhausted(c) ==
    CASE lane.mode = "auto"  -> \/ call[c].attempt >= LaneAttempts
                                \/ call[c].elapsed >= LaneBudget
      [] lane.mode = "fixed" -> call[c].attempt > LaneAttempts
      [] lane.mode = "fail"  -> TRUE

\* Slip: half of one is none.
ShrinkToNothing(parallel) == IF lane.mode = "auto" THEN parallel \div 2 ELSE parallel
Shrink(parallel) == IF lane.mode = "auto" THEN Most(1, parallel \div 2) ELSE parallel
Grow(parallel) == IF lane.mode = "auto" THEN Least(Ceiling, parallel + 1) ELSE parallel

----------------------------------------------------------------------------
\* Slip: the budget refuses once it is overdrawn.
WithinOverdraft(requests) == requests <= RequestLimit
WithinBudget(requests) == requests < RequestLimit

\* A call checks the budget of its run and asks the lane for a slot. What it
\* finds in the ledger is not reserved: other calls are under way.
Asks(c) ==
    /\ call[c].at = "idle"
    /\ ledger.asked < MaxAsks
    /\ ledger' = [ledger EXCEPT !.asked = @ + 1]
    /\ \/ /\ WithinBudget(ledger.requests)
          /\ call' = [call EXCEPT ![c].at = "queued", ![c].attempt = 1]
          /\ queue' = Append(queue, c)
       \/ /\ ~WithinBudget(ledger.requests)
          /\ UNCHANGED <<call, queue>>
    /\ UNCHANGED <<lane, pacing>>

\* The pacing hands out the next free moment and the call sleeps until then.
Reserves(c) ==
    /\ call' = [call EXCEPT ![c].at = "pacing", ![c].left = pacing.ahead]
    /\ pacing' = [pacing EXCEPT !.ahead = @ + Interval]

\* A pause is slept out, and so is what was added to it meanwhile.
SleepsOutPause(c) ==
    \/ /\ lane.pause > 0
       /\ call' = [call EXCEPT ![c].at = "pausing", ![c].left = lane.pause]
       /\ UNCHANGED pacing
    \/ /\ lane.pause = 0
       /\ Reserves(c)

\* Slots are given in the order of asking, while fewer are borrowed than the
\* lane has now: after a cut, the calls that are under way may be more than that.
CanAdmit(c) == queue # <<>> /\ Head(queue) = c /\ Cardinality(At(Held)) < lane.parallel
Admits(c) ==
    /\ call[c].at = "queued" /\ CanAdmit(c)
    /\ queue' = Tail(queue)
    /\ SleepsOutPause(c)
    /\ UNCHANGED <<lane, ledger>>

\* Slip: a call that has slept goes on, whatever was added to the pause.
SleepsOnce(c) ==
    /\ call[c].at = "pausing" /\ call[c].left = 0
    /\ Reserves(c)
    /\ UNCHANGED <<lane, queue, ledger>>
Wakes(c) ==
    /\ call[c].at = "pausing" /\ call[c].left = 0
    /\ SleepsOutPause(c)
    /\ UNCHANGED <<lane, queue, ledger>>

\* The request leaves. The generation of the slot is read only here.
Opens(c) ==
    /\ call[c].at = "pacing" /\ call[c].left = 0
    /\ call' = [call EXCEPT ![c].at = "open", ![c].fresh = TRUE, ![c].caught = FALSE]
    /\ pacing' = [pacing EXCEPT !.since = 0]
    /\ UNCHANGED <<lane, queue, ledger>>

\* Another lane of the provider, which shares the pacing, reserves a moment.
OtherLaneReserves ==
    /\ Interval > 0 /\ pacing.ahead < 2 * Interval
    /\ At(UnderWay) # {}
    /\ pacing' = [pacing EXCEPT !.ahead = @ + Interval]
    /\ UNCHANGED <<lane, queue, call, ledger>>

----------------------------------------------------------------------------
\* The first event of the stream has come. The slot stays with the stream.
FirstEvent(c) ==
    /\ call[c].at = "open"
    /\ call' = [call EXCEPT ![c].at = "streaming", ![c].fresh = FALSE]
    /\ lane' = IF lane.streak + 1 < RecoveryStreak
               THEN [lane EXCEPT !.streak = @ + 1]
               ELSE [lane EXCEPT !.streak = 0, !.parallel = Grow(@)]
    /\ UNCHANGED <<queue, pacing, ledger>>

\* The lane pauses for the longer of its pause and this one. The first call of a
\* burst cuts the parallel calls, and the slots that are out by then cut no more.
RateLimited(c, hint) ==
    IF lane.mode = "fail" THEN lane
    ELSE [lane EXCEPT !.pause = Most(@, PauseSeconds(call[c].attempt, hint)),
                      !.streak = 0,
                      !.parallel = IF call[c].fresh THEN Shrink(@) ELSE @]

BacksOff(c, seconds) ==
    [call[c] EXCEPT !.at = "backing", !.left = seconds, !.fresh = FALSE]

\* What a rate limit of another call does to d: its slot is of an older generation,
\* and if it waits for its pacing, the wait for the pause is already behind it.
Disturbed(d, c) ==
    [call[d] EXCEPT !.fresh = @ /\ ~(call[c].fresh /\ lane.mode # "fail"),
                    !.caught = @ \/ (call[d].at = "pacing" /\ lane'.pause > 0)]

\* A 429 gives the slot back. The lane waits for it, so the retry itself does not.
RateLimits(c, hint) ==
    /\ call[c].at = "open"
    /\ lane' = RateLimited(c, hint)
    /\ call' = [d \in Calls |-> IF d # c THEN Disturbed(d, c)
                                ELSE IF Exhausted(c) THEN Idle ELSE BacksOff(c, 0)]
    /\ UNCHANGED <<queue, pacing, ledger>>

\* A server error or a lost connection leaves the lane alone. Its retries count
\* the attempts that were rate-limited as well, and the time in the lane.
ServerFails(c, seconds) ==
    /\ call[c].at = "open"
    /\ call' = [call EXCEPT ![c] =
                    IF call[c].attempt >= Attempts \/ call[c].elapsed >= Budget
                    THEN Idle ELSE BacksOff(c, seconds)]
    /\ UNCHANGED <<lane, queue, pacing, ledger>>

Retries(c) ==
    /\ call[c].at = "backing" /\ call[c].left = 0
    /\ call' = [call EXCEPT ![c].at = "queued", ![c].attempt = @ + 1]
    /\ queue' = Append(queue, c)
    /\ UNCHANGED <<lane, pacing, ledger>>

\* An error that no retry helps, or a stream that breaks after its first event:
\* the call fails, and the budget never hears of it.
Breaks(c) ==
    /\ call[c].at \in {"open", "streaming"}
    /\ call' = [call EXCEPT ![c] = Idle]
    /\ UNCHANGED <<lane, queue, pacing, ledger>>

\* The stream is read to its end, and the response is counted. (One that takes the
\* run over its tokens or its cost fails the call that has it, once it is counted.)
StreamEnds(c) ==
    /\ call[c].at = "streaming"
    /\ call' = [call EXCEPT ![c] = Idle]
    /\ ledger' = [ledger EXCEPT !.requests = @ + 1]
    /\ UNCHANGED <<lane, queue, pacing>>

\* The node is cancelled. What it reserved of the pacing stays reserved.
Cancelled(c) ==
    /\ call[c].at \in UnderWay
    /\ call' = [call EXCEPT ![c] = Idle]
    /\ queue' = SelectSeq(queue, LAMBDA d : d # c)
    /\ UNCHANGED <<lane, pacing, ledger>>

\* Sleepers wake on time, and a step that needs no wait takes none.
Due == \/ \E c \in At({"pausing", "pacing", "backing"}) : call[c].left = 0
       \/ queue # <<>> /\ CanAdmit(Head(queue))
Tick ==
    /\ ~Due
    /\ At(UnderWay) # {}
    /\ lane' = [lane EXCEPT !.pause = MinusOne(@)]
    /\ pacing' = [ahead |-> MinusOne(pacing.ahead), since |-> Least(pacing.since + 1, Interval)]
    /\ call' = [c \in Calls |->
                   IF call[c].at = "idle" THEN call[c]
                   ELSE [call[c] EXCEPT !.left = MinusOne(@),
                                        !.elapsed = Least(@ + 1, Most(Budget, LaneBudget))]]
    /\ UNCHANGED <<queue, ledger>>

Answers(c) ==
    \/ FirstEvent(c) \/ Breaks(c)
    \/ \E hint \in Hints : RateLimits(c, hint)
    \/ \E seconds \in 1 .. MaxSeconds : ServerFails(c, seconds)
Proceeds(c) == Admits(c) \/ Wakes(c) \/ Opens(c) \/ Retries(c)

Next ==
    \/ \E c \in Calls : \/ Asks(c) \/ Proceeds(c) \/ Answers(c)
                        \/ StreamEnds(c) \/ Cancelled(c)
    \/ OtherLaneReserves \/ Tick

Spec == Init /\ [][Next]_vars

\* The loop runs what is ready, time passes, and the provider answers or fails
\* every request and ends every stream. Nobody has to ask, or to cancel.
Fairness ==
    /\ WF_vars(Tick)
    /\ \A c \in Calls : WF_vars(Proceeds(c)) /\ WF_vars(Answers(c) \/ StreamEnds(c))
FairSpec == Spec /\ Fairness

----------------------------------------------------------------------------
TypeOK ==
    /\ lane \in [mode : Modes, parallel : 1 .. Ceiling, pause : 0 .. MaxSeconds,
                 streak : 0 .. RecoveryStreak - 1]
    /\ queue \in BoundedSeq(Calls, Cardinality(Calls)) /\ ToSet(queue) = At({"queued"})
    /\ pacing \in [ahead : Nat, since : 0 .. Interval]
    /\ \A c \in Calls : call[c].at \in {"idle"} \cup UnderWay
    /\ ledger \in [asked : 0 .. MaxAsks, requests : 0 .. MaxAsks]

\* No request leaves while the lane pauses, but for the calls that a 429 caught
\* between their pause and their pacing (lanes.py:213-215): a wait that a call has
\* begun is lengthened by what later rate limits add to the pause (239-245).
NoStartInAPause ==
    \A c \in Calls : call[c].at = "pacing" /\ lane.pause > 0 => call[c].caught

\* Two requests to the provider are an interval apart, however the calls came to
\* be ready together: first calls, retries, and calls that a pause has held back
\* (rate.py:34-39). Requests of other lanes take their places in between.
StartsArePaced ==
    [][(\E c \in Calls : call[c].at # "open" /\ call'[c].at = "open") => pacing.since >= Interval]_vars

\* The check before a call reserves nothing, so the calls that are under way when
\* the last request of the budget is counted may be answered too. The run oversteps
\* its limit by those and by no call that is made later (limiter.py:26-31, 72-91).
OverstepsByWhatIsUnderWay ==
    ledger.requests + Cardinality(At(UnderWay)) < Most(RequestLimit, 1) + Cardinality(Calls)

\* However often a lane is cut, and whoever is cancelled with a slot or before it
\* has one, a call that waits for its slot is answered, fails or is cancelled.
EveryCallEnds == \A c \in Calls : call[c].at = "queued" ~> call[c].at = "idle"
=============================================================================
