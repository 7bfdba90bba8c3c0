-------------------------- MODULE ModelLane_proofs --------------------------
(****************************************************************************)
(* The safety of the lane, for any number of calls and every value of its     *)
(* parameters: no request leaves in a pause it could know of, requests are    *)
(* paced, and the budget is overstepped only by what is under way.            *)
(****************************************************************************)
EXTENDS ModelLane, FiniteSetTheorems, TLAPS

----------------------------------------------------------------------------
(* The numbers the waits are made of. *)

LEMMA MostIsNat ==
    ASSUME NEW m \in Nat, NEW n \in Nat
    PROVE  /\ Most(m, n) \in Nat
           /\ Most(m, n) >= m /\ Most(m, n) >= n
<1>1. CASE m >= n
  BY <1>1 DEF Most, Max
<1>2. CASE ~(m >= n)
  BY <1>2 DEF Most, Max
<1> QED
  BY <1>1, <1>2

LEMMA LeastIsNat ==
    ASSUME NEW m \in Nat, NEW n \in Nat
    PROVE  Least(m, n) = IF m <= n THEN m ELSE n
<1>1. CASE m <= n
  BY <1>1 DEF Least, Min
<1>2. CASE ~(m <= n)
  BY <1>2 DEF Least, Min
<1> QED
  BY <1>1, <1>2

(* A set of n elements has 2^n subsets. *)
LEMMA PowerIsNat ==
    ASSUME NEW n \in Nat
    PROVE  2 ^ n \in Nat
<1>1. IsFiniteSet(1 .. n) /\ Cardinality(1 .. n) = n
  BY FS_Interval
<1>2. IsFiniteSet(SUBSET (1 .. n)) /\ Cardinality(SUBSET (1 .. n)) = 2 ^ n
  BY <1>1, FS_SUBSET
<1> QED
  BY <1>2, FS_CardinalityType

LEMMA PauseIsNat ==
    ASSUME NEW attempt \in Nat \ {0}, NEW hint \in Hints
    PROVE  PauseSeconds(attempt, hint) \in Nat
<1>1. MaxSeconds \in Nat
  BY LaneAssumption
<1>2. hint \in Nat
  BY <1>1 DEF Hints, NoHint
<1>3. 2 ^ (attempt - 1) \in Nat
  <2>1. attempt - 1 \in Nat
    OBVIOUS
  <2> QED
    BY <2>1, PowerIsNat
<1>4. Doubled(attempt) \in Nat
  BY <1>1, <1>3, LeastIsNat DEF Doubled
<1>5. Least(hint, MaxSeconds) \in Nat
  BY <1>1, <1>2, LeastIsNat
<1> QED
  BY <1>1, <1>4, <1>5 DEF PauseSeconds

----------------------------------------------------------------------------
(* Types. A call that is under way has made an attempt. *)

Places == {"idle"} \cup UnderWay

CallTypes == [at : Places, attempt : Nat, left : Nat, elapsed : Nat,
              fresh : BOOLEAN, caught : BOOLEAN]

LaneType == [mode : Modes, parallel : Nat, pause : Nat, streak : Nat]

Tried == \A c \in Calls : call[c].at # "idle" => call[c].attempt > 0

Types ==
    /\ lane \in LaneType
    /\ pacing \in [ahead : Nat, since : Nat]
    /\ call \in [Calls -> CallTypes]
    /\ ledger \in [asked : Nat, requests : Nat]
    /\ Tried

LEMMA TypesInit == Init => Types
BY LaneAssumption DEF Init, Types, LaneType, Tried, CallTypes, Places, UnderWay, Held, Idle

(* What a rate limit leaves of the lane is a lane. *)
LEMMA RateLimitedIsLane ==
    ASSUME Types, NEW c \in Calls, call[c].at = "open", NEW hint \in Hints
    PROVE  RateLimited(c, hint) \in LaneType
<1> DEFINE seconds == PauseSeconds(call[c].attempt, hint)
<1>1. call[c].attempt \in Nat \ {0}
  BY DEF Types, CallTypes, Tried
<1>2. seconds \in Nat
  BY <1>1, PauseIsNat
<1>3. lane.pause \in Nat /\ lane.parallel \in Nat
  BY DEF Types, LaneType
<1>4. Most(lane.pause, seconds) \in Nat
  BY <1>2, <1>3, MostIsNat
<1>5. Shrink(lane.parallel) \in Nat
  <2>1. lane.parallel \div 2 \in Nat
    BY <1>3
  <2>2. Most(1, lane.parallel \div 2) \in Nat
    BY <2>1, MostIsNat
  <2> QED
    BY <1>3, <2>2 DEF Shrink
<1>6. (IF call[c].fresh THEN Shrink(lane.parallel) ELSE lane.parallel) \in Nat
  BY <1>3, <1>5
<1>7. RateLimited(c, hint) =
         IF lane.mode = "fail" THEN lane
         ELSE [lane EXCEPT !.pause = Most(lane.pause, seconds), !.streak = 0,
                           !.parallel = IF call[c].fresh THEN Shrink(lane.parallel)
                                        ELSE lane.parallel]
  BY DEF RateLimited
<1>8. ASSUME NEW pause \in Nat, NEW parallel \in Nat
      PROVE  [lane EXCEPT !.pause = pause, !.streak = 0, !.parallel = parallel] \in LaneType
  BY DEF Types, LaneType
<1>9. lane \in LaneType
  BY DEF Types
<1> HIDE DEF seconds
<1> QED
  BY <1>4, <1>6, <1>7, <1>8, <1>9

(* A step that changes one call keeps the types if what it makes of it is a call. *)
LEMMA CallMoves ==
    ASSUME Types, NEW c \in Calls, NEW moved \in CallTypes,
           moved.at # "idle" => moved.attempt > 0,
           call' = [call EXCEPT ![c] = moved],
           lane' \in LaneType, pacing' \in [ahead : Nat, since : Nat],
           ledger' \in [asked : Nat, requests : Nat]
    PROVE  Types'
BY DEF Types, Tried

LEMMA IdleIsCall == Idle \in CallTypes /\ Idle.at = "idle"
BY DEF Idle, CallTypes, Places

(* Every step of the lane keeps the types. *)
LEMMA TypesStep == Types /\ [Next]_vars => Types'
<1> SUFFICES ASSUME Types, [Next]_vars PROVE Types'
  OBVIOUS
<1>0. /\ lane \in LaneType /\ pacing \in [ahead : Nat, since : Nat]
      /\ ledger \in [asked : Nat, requests : Nat]
      /\ \A c \in Calls : /\ call[c] \in CallTypes
                          /\ call[c].at # "idle" => call[c].attempt > 0
  BY DEF Types, Tried
<1>1. CASE UNCHANGED vars
  BY <1>1 DEF vars, Types, Tried
<1>2. ASSUME NEW c \in Calls, Asks(c) PROVE Types'
  <2>1. ledger' \in [asked : Nat, requests : Nat]
    BY <1>0, <1>2 DEF Asks
  <2>2. CASE UNCHANGED call
    BY <1>2, <2>1, <2>2 DEF Asks, Types, Tried
  <2>3. CASE call' = [call EXCEPT ![c].at = "queued", ![c].attempt = 1]
    <3> DEFINE moved == [call[c] EXCEPT !.at = "queued", !.attempt = 1]
    <3>1. moved \in CallTypes /\ moved.attempt > 0
      <4>1. moved \in CallTypes
        BY <1>0 DEF CallTypes, Places, UnderWay
      <4>2. moved.attempt = 1
        BY <1>0 DEF CallTypes
      <4> QED
        BY <4>1, <4>2
    <3>2. call' = [call EXCEPT ![c] = moved]
      BY <2>3
    <3> HIDE DEF moved
    <3> QED
      BY <1>0, <1>2, <2>1, <3>1, <3>2, CallMoves DEF Asks
  <2> QED
    BY <1>2, <2>2, <2>3 DEF Asks
<1>3. ASSUME NEW c \in Calls, call[c].at \in {"queued", "pausing"}, SleepsOutPause(c),
             UNCHANGED <<lane, ledger>>
      PROVE  Types'
  <2>1. CASE UNCHANGED pacing /\ call' = [call EXCEPT ![c].at = "pausing", ![c].left = lane.pause]
    <3> DEFINE moved == [call[c] EXCEPT !.at = "pausing", !.left = lane.pause]
    <3>1. moved \in CallTypes /\ moved.attempt > 0
      BY <1>0, <1>3 DEF CallTypes, Places, UnderWay, Held, LaneType
    <3>2. call' = [call EXCEPT ![c] = moved]
      BY <2>1
    <3> HIDE DEF moved
    <3> QED
      BY <1>0, <1>3, <2>1, <3>1, <3>2, CallMoves
  <2>2. CASE Reserves(c)
    <3> DEFINE moved == [call[c] EXCEPT !.at = "pacing", !.left = pacing.ahead]
    <3>1. moved \in CallTypes /\ moved.attempt > 0
      BY <1>0, <1>3 DEF CallTypes, Places, UnderWay, Held
    <3>2. call' = [call EXCEPT ![c] = moved]
      BY <2>2 DEF Reserves
    <3>3. pacing' \in [ahead : Nat, since : Nat]
      BY <1>0, <2>2, LaneAssumption DEF Reserves
    <3> HIDE DEF moved
    <3> QED
      BY <1>0, <1>3, <3>1, <3>2, <3>3, CallMoves
  <2> QED
    BY <1>3, <2>1, <2>2 DEF SleepsOutPause
<1>4. ASSUME NEW c \in Calls, Admits(c) \/ Wakes(c) PROVE Types'
  BY <1>3, <1>4 DEF Admits, Wakes
<1>5. ASSUME NEW c \in Calls, Opens(c) PROVE Types'
  <2> DEFINE moved == [call[c] EXCEPT !.at = "open", !.fresh = TRUE, !.caught = FALSE]
  <2>1. moved \in CallTypes /\ moved.attempt > 0
    BY <1>0, <1>5 DEF Opens, CallTypes, Places, UnderWay, Held
  <2>2. call' = [call EXCEPT ![c] = moved]
    BY <1>5 DEF Opens
  <2>3. pacing' \in [ahead : Nat, since : Nat]
    BY <1>0, <1>5 DEF Opens
  <2> HIDE DEF moved
  <2> QED
    BY <1>0, <1>5, <2>1, <2>2, <2>3, CallMoves DEF Opens
<1>6. ASSUME NEW c \in Calls, Retries(c) PROVE Types'
  <2> DEFINE moved == [call[c] EXCEPT !.at = "queued", !.attempt = @ + 1]
  <2>1. moved \in CallTypes /\ moved.attempt > 0
    <3>1. call[c].attempt \in Nat
      BY <1>0 DEF CallTypes
    <3>2. moved \in CallTypes
      <4>1. ASSUME NEW n \in Nat
            PROVE  [call[c] EXCEPT !.at = "queued", !.attempt = n] \in CallTypes
        BY <1>0 DEF CallTypes, Places, UnderWay
      <4>2. call[c].attempt + 1 \in Nat
        BY <3>1
      <4> QED
        BY <4>1, <4>2
    <3>3. moved.attempt = call[c].attempt + 1
      BY <1>0 DEF CallTypes
    <3> QED
      BY <3>1, <3>2, <3>3
  <2>2. call' = [call EXCEPT ![c] = moved]
    BY <1>6 DEF Retries
  <2> HIDE DEF moved
  <2> QED
    BY <1>0, <1>6, <2>1, <2>2, CallMoves DEF Retries
<1>7. CASE OtherLaneReserves
  BY <1>7, LaneAssumption DEF OtherLaneReserves, Types, Tried
<1>8. ASSUME NEW c \in Calls, FirstEvent(c) PROVE Types'
  <2>1. Grow(lane.parallel) \in Nat
    BY <1>0, LeastIsNat, LaneAssumption DEF Grow, LaneType
  <2>2. lane' \in LaneType
    <3>1. ASSUME NEW parallel \in Nat
          PROVE  [lane EXCEPT !.streak = 0, !.parallel = parallel] \in LaneType
      BY <1>0 DEF LaneType
    <3>2. [lane EXCEPT !.streak = @ + 1] \in LaneType
      BY <1>0 DEF LaneType
    <3> QED
      BY <1>8, <2>1, <3>1, <3>2 DEF FirstEvent
  <2> DEFINE moved == [call[c] EXCEPT !.at = "streaming", !.fresh = FALSE]
  <2>3. moved \in CallTypes /\ moved.attempt > 0
    BY <1>0, <1>8 DEF FirstEvent, CallTypes, Places, UnderWay, Held
  <2>4. call' = [call EXCEPT ![c] = moved]
    BY <1>8 DEF FirstEvent
  <2> HIDE DEF moved
  <2> QED
    BY <1>0, <1>8, <2>2, <2>3, <2>4, CallMoves DEF FirstEvent
<1>9. ASSUME NEW c \in Calls, NEW hint \in Hints, RateLimits(c, hint) PROVE Types'
  <2>1. lane' \in LaneType
    BY <1>9, RateLimitedIsLane DEF RateLimits
  <2>2. ASSUME NEW d \in Calls
        PROVE  call'[d] \in CallTypes /\ (call'[d].at # "idle" => call'[d].attempt > 0)
    <3>1. CASE d # c
      <4>1. ASSUME NEW fresh \in BOOLEAN, NEW caught \in BOOLEAN,
                   call'[d] = [call[d] EXCEPT !.fresh = fresh, !.caught = caught]
            PROVE  call'[d] \in CallTypes /\ (call'[d].at # "idle" => call'[d].attempt > 0)
        BY <1>0, <4>1 DEF CallTypes
      <4> QED
        BY <1>9, <3>1, <4>1 DEF RateLimits, Disturbed
    <3>2. CASE d = c
      <4>1. BacksOff(c, 0) \in CallTypes /\ BacksOff(c, 0).attempt > 0
        BY <1>0, <1>9 DEF RateLimits, BacksOff, CallTypes, Places, UnderWay
      <4> QED
        BY <1>9, <3>2, <4>1, IdleIsCall DEF RateLimits
    <3> QED
      BY <3>1, <3>2
  <2>3. call' \in [Calls -> CallTypes]
    BY <1>9, <2>2 DEF RateLimits
  <2> QED
    BY <1>0, <1>9, <2>1, <2>2, <2>3 DEF RateLimits, Types, Tried
<1>10. ASSUME NEW c \in Calls, NEW seconds \in 1 .. MaxSeconds, ServerFails(c, seconds)
       PROVE  Types'
  <2>1. seconds \in Nat
    BY LaneAssumption
  <2>2. BacksOff(c, seconds) \in CallTypes /\ BacksOff(c, seconds).attempt = call[c].attempt
    BY <1>0, <2>1 DEF BacksOff, CallTypes, Places, UnderWay
  <2>3. call[c].attempt > 0
    BY <1>0, <1>10 DEF ServerFails
  <2>4. CASE call' = [call EXCEPT ![c] = Idle]
    BY <1>0, <1>10, <2>4, IdleIsCall, CallMoves DEF ServerFails
  <2>5. CASE call' = [call EXCEPT ![c] = BacksOff(c, seconds)]
    BY <1>0, <1>10, <2>2, <2>3, <2>5, CallMoves DEF ServerFails
  <2> QED
    BY <1>10, <2>4, <2>5 DEF ServerFails
<1>11. ASSUME NEW c \in Calls, Breaks(c) PROVE Types'
  BY <1>0, <1>11, IdleIsCall, CallMoves DEF Breaks
<1>12. ASSUME NEW c \in Calls, StreamEnds(c) PROVE Types'
  <2>1. ledger' \in [asked : Nat, requests : Nat]
    BY <1>0, <1>12 DEF StreamEnds
  <2> QED
    BY <1>0, <1>12, <2>1, IdleIsCall, CallMoves DEF StreamEnds
<1>13. ASSUME NEW c \in Calls, Cancelled(c) PROVE Types'
  BY <1>0, <1>13, IdleIsCall, CallMoves DEF Cancelled
<1>14. CASE Tick
  <2>1. \A n \in Nat : MinusOne(n) \in Nat
    BY DEF MinusOne
  <2>2. Least(pacing.since + 1, Interval) \in Nat
    BY <1>0, LeastIsNat, LaneAssumption
  <2>3. ASSUME NEW c \in Calls
        PROVE  Least(call[c].elapsed + 1, Most(Budget, LaneBudget)) \in Nat
    <3>1. Most(Budget, LaneBudget) \in Nat
      BY MostIsNat, LaneAssumption
    <3>2. call[c].elapsed + 1 \in Nat
      BY <1>0 DEF CallTypes
    <3> QED
      BY <3>1, <3>2, LeastIsNat
  <2>4. ASSUME NEW c \in Calls
        PROVE  call'[c] \in CallTypes /\ (call'[c].at # "idle" => call'[c].attempt > 0)
    <3>1. CASE call[c].at = "idle"
      BY <1>0, <1>14, <3>1 DEF Tick
    <3>2. ASSUME call[c].at # "idle", NEW left \in Nat, NEW elapsed \in Nat,
                 call'[c] = [call[c] EXCEPT !.left = left, !.elapsed = elapsed]
          PROVE  call'[c] \in CallTypes /\ (call'[c].at # "idle" => call'[c].attempt > 0)
      BY <1>0, <3>2 DEF CallTypes
    <3>3. CASE call[c].at # "idle"
      <4>1. call'[c] = [call[c] EXCEPT !.left = MinusOne(call[c].left),
                !.elapsed = Least(call[c].elapsed + 1, Most(Budget, LaneBudget))]
        BY <1>14, <3>3 DEF Tick
      <4>2. MinusOne(call[c].left) \in Nat
        BY <1>0, <2>1 DEF CallTypes
      <4> QED
        BY <2>3, <3>2, <3>3, <4>1, <4>2
    <3> QED
      BY <3>1, <3>3
  <2>5. lane' \in LaneType
    BY <1>0, <1>14, <2>1 DEF Tick, LaneType
  <2>6. pacing' \in [ahead : Nat, since : Nat] /\ ledger' = ledger
    BY <1>0, <1>14, <2>1, <2>2 DEF Tick
  <2>7. call' \in [Calls -> CallTypes]
    <3>1. call' = [c \in Calls |-> call'[c]]
      BY <1>14 DEF Tick
    <3> QED
      BY <2>4, <3>1
  <2> QED
    BY <1>0, <2>4, <2>5, <2>6, <2>7 DEF Types, Tried
<1> QED
  BY <1>1, <1>2, <1>4, <1>5, <1>6, <1>7, <1>8, <1>9, <1>10, <1>11, <1>12, <1>13, <1>14
  DEF Next, Proceeds, Answers

\* The types that the proofs below rest on hold for any number of calls and every
\* setting of the limits.
THEOREM LaneTypes == Spec => []Types
BY TypesInit, TypesStep, PTL DEF Spec

----------------------------------------------------------------------------
(* Pauses. A call comes to its pacing when the lane does not pause, and what  *)
(* makes the lane pause afterwards marks it.                                   *)

LEMMA NoStartStep == Types /\ NoStartInAPause /\ [Next]_vars => NoStartInAPause'
<1> SUFFICES ASSUME Types, NoStartInAPause, [Next]_vars,
                    NEW d \in Calls, call'[d].at = "pacing", lane'.pause > 0
             PROVE  call'[d].caught
  BY DEF NoStartInAPause
<1>0. /\ call \in [Calls -> CallTypes] /\ lane \in LaneType
      /\ call[d].at = "pacing" /\ lane.pause > 0 => call[d].caught
  BY DEF Types, NoStartInAPause
<1> USE DEF CallTypes
<1>1. CASE UNCHANGED vars
  BY <1>0, <1>1 DEF vars
<1>2. ASSUME NEW c \in Calls, Asks(c) PROVE call'[d].caught
  BY <1>0, <1>2 DEF Asks
<1>3. ASSUME NEW c \in Calls, SleepsOutPause(c), UNCHANGED lane PROVE call'[d].caught
  BY <1>0, <1>3 DEF SleepsOutPause, Reserves
<1>4. ASSUME NEW c \in Calls, Admits(c) \/ Wakes(c) PROVE call'[d].caught
  BY <1>3, <1>4 DEF Admits, Wakes
<1>5. ASSUME NEW c \in Calls, Opens(c) \/ Retries(c) PROVE call'[d].caught
  BY <1>0, <1>5 DEF Opens, Retries
<1>6. CASE OtherLaneReserves
  BY <1>0, <1>6 DEF OtherLaneReserves
<1>7. ASSUME NEW c \in Calls, FirstEvent(c) PROVE call'[d].caught
  <2>1. lane'.pause = lane.pause
    BY <1>0, <1>7 DEF FirstEvent, LaneType
  <2>2. call[d].at = "pacing" /\ call'[d] = call[d]
    BY <1>0, <1>7 DEF FirstEvent
  <2> QED
    BY <1>0, <2>1, <2>2
<1>8. ASSUME NEW c \in Calls, NEW hint \in Hints, RateLimits(c, hint) PROVE call'[d].caught
  <2>1. CASE d = c
    BY <1>0, <1>8, <2>1 DEF RateLimits, BacksOff, Idle
  <2>2. CASE d # c
    <3>1. call'[d] = Disturbed(d, c)
      BY <1>8, <2>2 DEF RateLimits
    <3>2. call[d].at = "pacing"
      BY <1>0, <3>1 DEF Disturbed
    <3>3. call'[d].caught = (call[d].caught \/ (call[d].at = "pacing" /\ lane'.pause > 0))
      BY <1>0, <3>1 DEF Disturbed
    <3> QED
      BY <3>2, <3>3
  <2> QED
    BY <2>1, <2>2
<1>9. ASSUME NEW c \in Calls, NEW seconds \in 1 .. MaxSeconds, ServerFails(c, seconds)
      PROVE  call'[d].caught
  BY <1>0, <1>9 DEF ServerFails, BacksOff, Idle
<1>10. ASSUME NEW c \in Calls, Breaks(c) \/ StreamEnds(c) \/ Cancelled(c) PROVE call'[d].caught
  BY <1>0, <1>10 DEF Breaks, StreamEnds, Cancelled, Idle
<1>11. CASE Tick
  <2>1. call[d].at = "pacing" /\ call'[d].caught = call[d].caught
    BY <1>0, <1>11 DEF Tick
  <2>2. lane.pause > 0
    <3>1. lane.pause \in Nat /\ lane'.pause = MinusOne(lane.pause)
      BY <1>0, <1>11 DEF Tick, LaneType
    <3> QED
      BY <3>1 DEF MinusOne
  <2> QED
    BY <1>0, <2>1, <2>2
<1> QED
  BY <1>1, <1>2, <1>4, <1>5, <1>6, <1>7, <1>8, <1>9, <1>10, <1>11
  DEF Next, Proceeds, Answers

\* No request leaves while the lane pauses, but for those that a rate limit caught
\* between their pause and their pacing (lanes.py:213-215): for any number of calls.
THEOREM PausesHold == Spec => []NoStartInAPause
<1>1. Init => NoStartInAPause
  BY DEF Init, Idle, NoStartInAPause
<1> QED
  BY <1>1, LaneTypes, NoStartStep, PTL DEF Spec

----------------------------------------------------------------------------
(* The budget. Only Asks adds to the calls under way, and it counts on there   *)
(* being room in the budget; a response that is counted is a call less.        *)

OthersAsBefore(c) == \A d \in Calls \ {c} : call'[d].at = call[d].at

BudgetStep ==
    \/ /\ At(UnderWay)' \subseteq At(UnderWay)
       /\ ledger'.requests = ledger.requests
    \/ /\ ledger.requests < RequestLimit
       /\ ledger'.requests = ledger.requests
    \/ \E c \in At(UnderWay) :
          /\ At(UnderWay)' = At(UnderWay) \ {c}
          /\ ledger'.requests = ledger.requests + 1

LEMMA UnderWayStep == Types /\ [Next]_vars => BudgetStep
<1> SUFFICES ASSUME Types, [Next]_vars PROVE BudgetStep
  OBVIOUS
<1>0. /\ ledger \in [asked : Nat, requests : Nat]
      /\ call \in [Calls -> CallTypes]
  BY DEF Types
<1>1. ASSUME NEW c \in Calls, call[c].at \in UnderWay, OthersAsBefore(c),
             ledger'.requests = ledger.requests
      PROVE  BudgetStep
  BY <1>1 DEF At, OthersAsBefore, BudgetStep
<1>2. CASE UNCHANGED vars
  BY <1>2 DEF vars, At, BudgetStep
<1>3. ASSUME NEW c \in Calls, Asks(c) PROVE BudgetStep
  <2>1. ledger'.requests = ledger.requests
    BY <1>0, <1>3 DEF Asks
  <2> QED
    BY <1>3, <2>1 DEF Asks, WithinBudget, At, BudgetStep
<1>4. ASSUME NEW c \in Calls, Admits(c) \/ Wakes(c) \/ Opens(c) \/ Retries(c) PROVE BudgetStep
  <2>1. call[c].at \in UnderWay /\ ledger' = ledger
    BY <1>4 DEF Admits, Wakes, Opens, Retries, UnderWay, Held
  <2>2. OthersAsBefore(c)
    BY <1>0, <1>4 DEF Admits, Wakes, SleepsOutPause, Reserves, Opens, Retries, OthersAsBefore
  <2> QED
    BY <1>1, <2>1, <2>2
<1>5. CASE OtherLaneReserves
  BY <1>5 DEF OtherLaneReserves, At, BudgetStep
<1>6. ASSUME NEW c \in Calls,
             \/ FirstEvent(c) \/ Breaks(c) \/ Cancelled(c)
             \/ \E seconds \in 1 .. MaxSeconds : ServerFails(c, seconds)
      PROVE  BudgetStep
  <2>1. call[c].at \in UnderWay /\ ledger' = ledger
    BY <1>6 DEF FirstEvent, Breaks, ServerFails, Cancelled, UnderWay, Held
  <2>2. OthersAsBefore(c)
    BY <1>0, <1>6 DEF FirstEvent, Breaks, ServerFails, Cancelled, OthersAsBefore
  <2> QED
    BY <1>1, <2>1, <2>2
<1>7. ASSUME NEW c \in Calls, NEW hint \in Hints, RateLimits(c, hint) PROVE BudgetStep
  <2>1. call[c].at \in UnderWay /\ ledger' = ledger
    BY <1>7 DEF RateLimits, UnderWay, Held
  <2>2. ASSUME NEW d \in Calls \ {c} PROVE call'[d].at = call[d].at
    <3>1. call'[d] = Disturbed(d, c)
      BY <1>7 DEF RateLimits
    <3> QED
      BY <1>0, <3>1 DEF Disturbed, CallTypes
  <2> QED
    BY <1>1, <2>1, <2>2 DEF OthersAsBefore
<1>8. ASSUME NEW c \in Calls, StreamEnds(c) PROVE BudgetStep
  <2>1. c \in At(UnderWay)
    BY <1>8 DEF StreamEnds, At, UnderWay, Held
  <2>2. ledger'.requests = ledger.requests + 1
    BY <1>0, <1>8 DEF StreamEnds
  <2>3. call'[c].at = "idle" /\ \A d \in Calls \ {c} : call'[d] = call[d]
    BY <1>0, <1>8 DEF StreamEnds, Idle
  <2>4. At(UnderWay)' = At(UnderWay) \ {c}
    BY <2>3 DEF At, UnderWay, Held
  <2> QED
    BY <2>1, <2>2, <2>4 DEF BudgetStep
<1>9. CASE Tick
  <2>1. ledger' = ledger
    BY <1>9 DEF Tick
  <2>2. ASSUME NEW d \in Calls PROVE call'[d].at = call[d].at
    BY <1>0, <1>9 DEF Tick, CallTypes
  <2> QED
    BY <2>1, <2>2 DEF At, BudgetStep
<1>10. ASSUME NEW c \in Calls, Answers(c) PROVE BudgetStep
  BY <1>6, <1>7, <1>10 DEF Answers
<1> QED
  BY <1>2, <1>3, <1>4, <1>5, <1>6, <1>8, <1>9, <1>10 DEF Next, Proceeds

LEMMA OverstepStep ==
    Types /\ OverstepsByWhatIsUnderWay /\ [Next]_vars => OverstepsByWhatIsUnderWay'
<1> SUFFICES ASSUME Types, OverstepsByWhatIsUnderWay, [Next]_vars
             PROVE  OverstepsByWhatIsUnderWay'
  OBVIOUS
<1> DEFINE before == At(UnderWay)
           after == At(UnderWay)'
           room == Most(RequestLimit, 1) + Cardinality(Calls)
<1>1. /\ ledger.requests \in Nat /\ RequestLimit \in Nat
      /\ Most(RequestLimit, 1) \in Nat /\ Most(RequestLimit, 1) >= RequestLimit
  BY MostIsNat, LaneAssumption DEF Types
<1>2. /\ before \in SUBSET Calls /\ after \in SUBSET Calls
      /\ IsFiniteSet(before) /\ IsFiniteSet(after)
      /\ Cardinality(after) <= Cardinality(Calls)
  BY LaneAssumption, FS_Subset DEF At
<1>3. Cardinality(before) \in Nat /\ Cardinality(after) \in Nat /\ Cardinality(Calls) \in Nat
  BY <1>2, LaneAssumption, FS_CardinalityType
<1>4. ledger.requests + Cardinality(before) < room
  BY DEF OverstepsByWhatIsUnderWay
<1>5. CASE after \subseteq before /\ ledger'.requests = ledger.requests
  <2>1. Cardinality(after) <= Cardinality(before)
    BY <1>2, <1>5, FS_Subset
  <2> HIDE DEF before, after
  <2>2. ledger'.requests + Cardinality(after) < room
    BY <1>1, <1>3, <1>4, <1>5, <2>1
  <2> QED
    BY <2>2 DEF OverstepsByWhatIsUnderWay, after
<1>6. CASE ledger.requests < RequestLimit /\ ledger'.requests = ledger.requests
  <2> HIDE DEF before, after
  <2>1. ledger'.requests + Cardinality(after) < room
    BY <1>1, <1>2, <1>3, <1>6
  <2> QED
    BY <2>1 DEF OverstepsByWhatIsUnderWay, after
<1>7. ASSUME NEW c \in before, after = before \ {c}, ledger'.requests = ledger.requests + 1
      PROVE  OverstepsByWhatIsUnderWay'
  <2>1. Cardinality(after) = Cardinality(before) - 1
    BY <1>2, <1>7, FS_RemoveElement
  <2> HIDE DEF before, after
  <2>2. ledger'.requests + Cardinality(after) < room
    BY <1>1, <1>3, <1>4, <1>7, <2>1
  <2> QED
    BY <2>2 DEF OverstepsByWhatIsUnderWay, after
<1> QED
  BY <1>5, <1>6, <1>7, UnderWayStep DEF BudgetStep

\* A run oversteps its limit of requests by the calls that are under way when it
\* is reached, and by no call made later (limiter.py:26-31, 72-91): for any number
\* of calls, limit and strategy.
THEOREM BudgetIsOversteppedByWhatIsUnderWay == Spec => []OverstepsByWhatIsUnderWay
<1>1. Init => OverstepsByWhatIsUnderWay
  <2> SUFFICES ASSUME Init PROVE OverstepsByWhatIsUnderWay
    OBVIOUS
  <2>1. At(UnderWay) = {} /\ ledger.requests = 0
    BY DEF Init, At, UnderWay, Held, Idle
  <2>2. Cardinality(At(UnderWay)) = 0
    BY <2>1, FS_EmptySet
  <2>3. Most(RequestLimit, 1) \in Nat /\ Most(RequestLimit, 1) >= 1
    BY MostIsNat, LaneAssumption
  <2>4. Cardinality(Calls) \in Nat
    BY LaneAssumption, FS_CardinalityType
  <2> QED
    BY <2>1, <2>2, <2>3, <2>4 DEF OverstepsByWhatIsUnderWay
<1> QED
  BY <1>1, LaneTypes, OverstepStep, PTL DEF Spec

----------------------------------------------------------------------------
(* The pacing. Every call that waits for its moment has one of its own, an     *)
(* interval from every other, from the last start, and from the next moment.   *)

Apart(m, n) == m + Interval <= n \/ n + Interval <= m

Waiting(c) == call[c].at = "pacing"

PacedInv ==
    /\ pacing.ahead + pacing.since >= Interval
    /\ \A c \in Calls : Waiting(c) =>
           /\ pacing.since + call[c].left >= Interval
           /\ call[c].left + Interval <= pacing.ahead
    /\ \A c, d \in Calls :
           Waiting(c) /\ Waiting(d) /\ c # d => Apart(call[c].left, call[d].left)

(* A step that leaves the pacing alone, and whoever waits for it, or gives up. *)
LEMMA NobodyReserves ==
    ASSUME PacedInv, pacing' = pacing,
           \A c \in Calls : Waiting(c)' => Waiting(c) /\ call'[c].left = call[c].left
    PROVE  PacedInv'
BY DEF PacedInv, Apart, Waiting

LEMMA PacedStep == Types /\ PacedInv /\ [Next]_vars => PacedInv'
<1> SUFFICES ASSUME Types, PacedInv, [Next]_vars PROVE PacedInv'
  OBVIOUS
<1>0. /\ pacing \in [ahead : Nat, since : Nat] /\ Interval \in Nat
      /\ call \in [Calls -> CallTypes]
      /\ \A c \in Calls : call[c].left \in Nat
  BY LaneAssumption DEF Types, CallTypes
<1>1. CASE UNCHANGED vars
  BY <1>1, NobodyReserves DEF vars, Waiting
<1>2. ASSUME NEW c \in Calls,
             Asks(c) \/ Retries(c) \/ FirstEvent(c) \/ Breaks(c) \/ StreamEnds(c) \/ Cancelled(c)
      PROVE  PacedInv'
  <2>1. pacing' = pacing
    BY <1>2 DEF Asks, Retries, FirstEvent, Breaks, StreamEnds, Cancelled
  <2>2. ASSUME NEW d \in Calls, Waiting(d)' PROVE call'[d] = call[d]
    BY <1>0, <1>2, <2>2
    DEF Asks, Retries, FirstEvent, Breaks, StreamEnds, Cancelled, Waiting, Idle, CallTypes
  <2> QED
    BY <2>1, <2>2, NobodyReserves DEF Waiting
<1>3. ASSUME NEW c \in Calls, NEW seconds \in 1 .. MaxSeconds, ServerFails(c, seconds)
      PROVE  PacedInv'
  <2>1. ASSUME NEW d \in Calls, Waiting(d)' PROVE call'[d] = call[d]
    BY <1>0, <1>3, <2>1 DEF ServerFails, BacksOff, Waiting, Idle, CallTypes
  <2> QED
    BY <1>3, <2>1, NobodyReserves DEF ServerFails, Waiting
<1>4. ASSUME NEW c \in Calls, NEW hint \in Hints, RateLimits(c, hint) PROVE PacedInv'
  <2>1. ASSUME NEW d \in Calls, Waiting(d)'
        PROVE  Waiting(d) /\ call'[d].left = call[d].left
    <3>1. CASE d = c
      BY <1>0, <1>4, <2>1, <3>1 DEF RateLimits, BacksOff, Waiting, Idle, CallTypes
    <3>2. CASE d # c
      <4>1. call'[d] = Disturbed(d, c)
        BY <1>4, <3>2 DEF RateLimits
      <4> QED
        BY <1>0, <2>1, <4>1 DEF Disturbed, Waiting, CallTypes
    <3> QED
      BY <3>1, <3>2
  <2> QED
    BY <1>4, <2>1, NobodyReserves DEF RateLimits
<1>5. ASSUME NEW c \in Calls, call[c].at # "pacing", Reserves(c) PROVE PacedInv'
  <2>1. /\ pacing'.ahead = pacing.ahead + Interval /\ pacing'.since = pacing.since
        /\ call'[c].left = pacing.ahead
        /\ \A d \in Calls \ {c} : call'[d] = call[d]
    BY <1>0, <1>5 DEF Reserves, CallTypes
  <2>2. ASSUME NEW d \in Calls, Waiting(d)'
        PROVE  /\ pacing'.since + call'[d].left >= Interval
               /\ call'[d].left + Interval <= pacing'.ahead
    BY <1>0, <2>1, <2>2 DEF PacedInv, Waiting
  <2>3. ASSUME NEW d \in Calls, NEW e \in Calls, Waiting(d)', Waiting(e)', d # e
        PROVE  Apart(call'[d].left, call'[e].left)
    BY <1>0, <2>1, <2>3 DEF PacedInv, Waiting, Apart
  <2>4. pacing'.ahead + pacing'.since >= Interval
    BY <1>0, <2>1
  <2> QED
    BY <2>2, <2>3, <2>4 DEF PacedInv, Waiting, Apart
<1>6. ASSUME NEW c \in Calls, Admits(c) \/ Wakes(c) PROVE PacedInv'
  <2>1. call[c].at # "pacing" /\ SleepsOutPause(c)
    BY <1>6 DEF Admits, Wakes
  <2>2. CASE Reserves(c)
    BY <1>5, <2>1, <2>2
  <2>3. CASE call' = [call EXCEPT ![c].at = "pausing", ![c].left = lane.pause] /\ pacing' = pacing
    <3>1. ASSUME NEW d \in Calls, Waiting(d)' PROVE call'[d] = call[d]
      BY <1>0, <2>3, <3>1 DEF Waiting, CallTypes
    <3> QED
      BY <2>3, <3>1, NobodyReserves DEF Waiting
  <2> QED
    BY <2>1, <2>2, <2>3 DEF SleepsOutPause
<1>7. ASSUME NEW c \in Calls, Opens(c) PROVE PacedInv'
  <2>1. /\ pacing'.ahead = pacing.ahead /\ pacing'.since = 0
        /\ Waiting(c) /\ call[c].left = 0 /\ ~Waiting(c)'
        /\ \A d \in Calls \ {c} : call'[d] = call[d]
    BY <1>0, <1>7 DEF Opens, Waiting, CallTypes
  <2>2. pacing'.ahead + pacing'.since >= Interval
    BY <1>0, <2>1 DEF PacedInv
  <2>3. ASSUME NEW d \in Calls, Waiting(d)'
        PROVE  /\ pacing'.since + call'[d].left >= Interval
               /\ call'[d].left + Interval <= pacing'.ahead
    BY <1>0, <2>1, <2>3 DEF PacedInv, Waiting, Apart
  <2>4. ASSUME NEW d \in Calls, NEW e \in Calls, Waiting(d)', Waiting(e)', d # e
        PROVE  Apart(call'[d].left, call'[e].left)
    BY <2>1, <2>4 DEF PacedInv, Waiting, Apart
  <2> QED
    BY <2>2, <2>3, <2>4 DEF PacedInv, Waiting, Apart
<1>8. CASE OtherLaneReserves
  <2>1. call' = call /\ pacing'.ahead = pacing.ahead + Interval /\ pacing'.since = pacing.since
    BY <1>0, <1>8 DEF OtherLaneReserves
  <2> QED
    BY <1>0, <2>1 DEF PacedInv, Waiting, Apart
<1>9. CASE Tick
  <2>1. /\ pacing'.ahead = MinusOne(pacing.ahead)
        /\ pacing'.since = Least(pacing.since + 1, Interval)
    BY <1>9 DEF Tick
  <2>2. pacing'.since = IF pacing.since + 1 <= Interval THEN pacing.since + 1 ELSE Interval
    BY <1>0, <2>1, LeastIsNat
  <2>3. ASSUME NEW c \in Calls, Waiting(c)'
        PROVE  Waiting(c) /\ call[c].left > 0 /\ call'[c].left = call[c].left - 1
    <3>1. Waiting(c) /\ call'[c].left = MinusOne(call[c].left)
      BY <1>0, <1>9, <2>3 DEF Tick, Waiting, CallTypes
    <3>2. call[c].left # 0
      BY <1>9, <3>1 DEF Tick, Due, At, Waiting
    <3> QED
      BY <1>0, <3>1, <3>2 DEF MinusOne
  <2>4. pacing'.ahead + pacing'.since >= Interval
    BY <1>0, <2>1, <2>2 DEF PacedInv, MinusOne
  <2>5. ASSUME NEW c \in Calls, Waiting(c)'
        PROVE  /\ pacing'.since + call'[c].left >= Interval
               /\ call'[c].left + Interval <= pacing'.ahead
    <3>1. /\ pacing.since + call[c].left >= Interval
          /\ call[c].left + Interval <= pacing.ahead
      BY <2>3, <2>5 DEF PacedInv
    <3>2. pacing'.ahead = pacing.ahead - 1
      BY <1>0, <2>1, <2>3, <2>5, <3>1 DEF MinusOne
    <3> QED
      BY <1>0, <2>2, <2>3, <2>5, <3>1, <3>2
  <2>6. ASSUME NEW c \in Calls, NEW d \in Calls, Waiting(c)', Waiting(d)', c # d
        PROVE  Apart(call'[c].left, call'[d].left)
    BY <1>0, <2>3, <2>6 DEF PacedInv, Apart
  <2> QED
    BY <2>4, <2>5, <2>6 DEF PacedInv, Waiting, Apart
<1> QED
  BY <1>1, <1>2, <1>3, <1>4, <1>6, <1>7, <1>8, <1>9 DEF Next, Proceeds, Answers

\* Two requests to the provider are an interval apart (rate.py:34-39), for any
\* number of calls, whatever pauses, fails, retries or other lanes come between.
THEOREM StartsKeepTheInterval == Spec => StartsArePaced
<1>1. Init => PacedInv
  BY LaneAssumption DEF Init, PacedInv, Waiting, Idle
<1>2. Types /\ PacedInv /\ [Next]_vars =>
        [(\E c \in Calls : call[c].at # "open" /\ call'[c].at = "open")
            => pacing.since >= Interval]_vars
  <2> SUFFICES ASSUME Types, PacedInv, Next,
                      NEW c \in Calls, call[c].at # "open", call'[c].at = "open"
               PROVE  pacing.since >= Interval
    BY DEF vars
  <2>0. call \in [Calls -> CallTypes] /\ pacing \in [ahead : Nat, since : Nat]
    BY DEF Types
  <2>1. ASSUME NEW d \in Calls, NEW hint \in Hints, RateLimits(d, hint) PROVE FALSE
    <3>1. CASE c = d
      BY <2>0, <2>1, <3>1 DEF RateLimits, BacksOff, Idle
    <3>2. CASE c # d
      <4>1. call'[c] = Disturbed(c, d)
        BY <2>1, <3>2 DEF RateLimits
      <4> QED
        BY <2>0, <4>1 DEF Disturbed, CallTypes
    <3> QED
      BY <3>1, <3>2
  <2>2. ASSUME NEW d \in Calls, NEW seconds \in 1 .. MaxSeconds, ServerFails(d, seconds)
        PROVE  FALSE
    BY <2>0, <2>2 DEF ServerFails, BacksOff, Idle, CallTypes
  <2>3. ASSUME NEW d \in Calls, Admits(d) \/ Wakes(d) \/ Retries(d) PROVE FALSE
    BY <2>0, <2>3 DEF Admits, Wakes, Retries, SleepsOutPause, Reserves, CallTypes
  <2>4. ASSUME NEW d \in Calls,
               Asks(d) \/ FirstEvent(d) \/ Breaks(d) \/ StreamEnds(d) \/ Cancelled(d)
        PROVE  FALSE
    BY <2>0, <2>4 DEF Asks, FirstEvent, Breaks, StreamEnds, Cancelled, Idle, CallTypes
  <2>5. CASE OtherLaneReserves
    BY <2>5 DEF OtherLaneReserves
  <2>6. CASE Tick
    BY <2>0, <2>6 DEF Tick, CallTypes
  <2>7. ASSUME NEW d \in Calls, Opens(d) PROVE pacing.since >= Interval
    <3>1. c = d
      BY <2>0, <2>7 DEF Opens, CallTypes
    <3>2. pacing.since + 0 >= Interval
      BY <2>7, <3>1 DEF Opens, PacedInv, Waiting
    <3> QED
      BY <2>0, <3>2
  <2> QED
    BY <2>1, <2>2, <2>3, <2>4, <2>5, <2>6, <2>7 DEF Next, Proceeds, Answers
<1> QED
  BY <1>1, <1>2, LaneTypes, PacedStep, PTL DEF Spec, StartsArePaced

=============================================================================
