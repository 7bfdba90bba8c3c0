--------------------------- MODULE HumanWait_proofs ---------------------------
(****************************************************************************)
(* Theorems about HumanWait, for any callers and operation ids. The           *)
(* invariant has four parts: where the waiter is and what it has published,  *)
(* the messages of the topics, what each call remembers, and who sent the    *)
(* message that waits or was taken.                                          *)
(****************************************************************************)
EXTENDS HumanWait, TLAPS

USE OpsAssumption, ScriptAssumption

-----------------------------------------------------------------------------

\* What the waiter publishes next, beside what is published now.
Announces ==
    \/ /\ waiter.next = "deliver" /\ waiter.rec.state = "waiting"
       /\ record.state = "none" /\ record.attempt = waiter.rec.attempt
    \/ /\ waiter.next = "deliver" /\ waiter.rec.state = "waiting"
       /\ record.state = "timed_out" /\ record.attempt < waiter.rec.attempt
    \/ /\ waiter.next = "clock" /\ waiter.rec.state = "waiting"
       /\ record.state = "waiting" /\ record.attempt = waiter.rec.attempt
    \/ /\ waiter.next = "expire" /\ waiter.rec.state = "timed_out"
       /\ record.state = "waiting" /\ record.attempt = waiter.rec.attempt
    \/ /\ waiter.next = "ended" /\ waiter.rec.state = "resolved"
       /\ record.state = "waiting" /\ record.attempt = waiter.rec.attempt

\* The record and the row agree with the waiter wherever it is.
WaiterInv ==
    /\ waiter.rec.state = "resolved" <=> waiter.rec.resolvedBy # NoOp
    /\ record.state = "resolved" <=> record.resolvedBy # NoOp
    /\ waiter.at = "open" =>
          record.state = "none" /\ record.attempt = FirstAttempt /\ record.ignored = {}
    /\ waiter.at = "publish" => Announces /\ record.ignored \subseteq waiter.rec.ignored
    /\ waiter.at = "index" =>
          \/ waiter.next \in {"deliver", "clock"} /\ waiter.rec.state = "waiting"
          \/ waiter.next = "expire" /\ waiter.rec.state = "timed_out"
          \/ waiter.next = "ended" /\ waiter.rec.state = "resolved"
    /\ waiter.at \in {"deliver", "clock", "recv"} => waiter.rec.state = "waiting"
    /\ waiter.at = "expire" => waiter.rec.state = "timed_out"
    /\ waiter.at = "ended" => waiter.rec.state \in {"resolved", "timed_out"}
    /\ waiter.at # "publish" => record = waiter.rec
    /\ waiter.at \in {"deliver", "clock", "recv", "expire", "ended"} =>
          indexed = Entry(waiter.rec)
    /\ outcome # "none" => waiter.at = "ended"

\* A key is in one message at most, and never in one again that was received.
MessageInv ==
    /\ \A a \in Attempts : \A i \in DOMAIN topics[a] :
          /\ topics[a][i].op \in sentKeys
          /\ topics[a][i].op \notin waiter.rec.ignored
          /\ topics[a][i].op # waiter.rec.resolvedBy
    /\ \A a, b \in Attempts : \A i \in DOMAIN topics[a], j \in DOMAIN topics[b] :
          topics[a][i].op = topics[b][j].op => a = b /\ i = j
    /\ waiter.rec.ignored \subseteq sentKeys
    /\ waiter.rec.resolvedBy \in sentKeys \cup {NoOp}
    /\ waiter.rec.resolvedBy \notin waiter.rec.ignored

\* A call that goes on was let through by the guards of the attempt it is for.
CallInv ==
    \A c \in Callers :
        /\ calls[c].at \in {"send", "confirm"} =>
              /\ calls[c].op \in Ops /\ calls[c].result = "none"
              /\ calls[c].attempt = calls[c].to /\ calls[c].to <= record.attempt
              /\ calls[c].sentAt <= Deadline
        /\ calls[c].result # "none" => calls[c].at = "answered"
        /\ calls[c].result \in {"accepted", "replayed"} =>
              calls[c].op \in Ops /\ record.resolvedBy = calls[c].op

\* Attempt `a` takes no more messages.
Over(a) ==
    \/ waiter.rec.attempt > a
    \/ waiter.rec.attempt = a /\ waiter.rec.state \in {"timed_out", "resolved"}

Gave(call, op, a) ==
    /\ call.at \in {"confirm", "answered"}
    /\ call.op = op /\ call.to = a /\ call.attempt = a
    /\ call.sentAt <= Deadline

\* The sender of an answer is not refused while the answer may yet be taken, nor after.
SenderInv ==
    /\ \A a \in Attempts : \A i \in DOMAIN topics[a] : topics[a][i].op \in Ops =>
          \E c \in Callers : /\ Gave(calls[c], topics[a][i].op, a)
                             /\ calls[c].result \in Refusals => Over(a)
    /\ waiter.rec.resolvedBy \in Ops =>
          \E c \in Callers : /\ Gave(calls[c], waiter.rec.resolvedBy, waiter.rec.attempt)
                             /\ calls[c].result \notin Refusals

WaitInv == TypeOK /\ WaiterInv /\ MessageInv /\ CallInv /\ SenderInv

-----------------------------------------------------------------------------
(* What the topics hold after a send and after a receipt *)

LEMMA NobodysKey == NoOp \notin AllOps
BY DEF AllOps, NoOp, ScriptOp

LEMMA AfterSend ==
    ASSUME topics \in [Attempts -> Seq(Envelopes)], sentKeys \in SUBSET AllOps,
           NEW a \in Attempts, NEW e \in Envelopes, SendTo(a, e)
    PROVE  /\ topics' \in [Attempts -> Seq(Envelopes)]
           /\ sentKeys' \in SUBSET AllOps /\ sentKeys \subseteq sentKeys' /\ e.op \in sentKeys'
           /\ \A b \in Attempts : \A i \in DOMAIN topics'[b] :
                \/ i \in DOMAIN topics[b] /\ topics'[b][i] = topics[b][i]
                \/ /\ e.op \notin sentKeys /\ b = a
                   /\ i = Len(topics[a]) + 1 /\ topics'[b][i] = e
<1>1. e.op \in AllOps
  BY DEF Envelopes
<1>2. CASE e.op \in sentKeys
  BY <1>1, <1>2 DEF SendTo
<1>3. CASE e.op \notin sentKeys
  <2>1. topics' = [topics EXCEPT ![a] = Append(topics[a], e)]
    BY <1>3 DEF SendTo, Topic
  <2>2. topics[a] \in Seq(Envelopes)
    OBVIOUS
  <2>3. /\ Append(topics[a], e) \in Seq(Envelopes)
        /\ \A i \in DOMAIN Append(topics[a], e) :
              \/ i \in DOMAIN topics[a] /\ Append(topics[a], e)[i] = topics[a][i]
              \/ i = Len(topics[a]) + 1 /\ Append(topics[a], e)[i] = e
    BY <2>2
  <2>4. ASSUME NEW b \in Attempts
        PROVE  topics'[b] = IF b = a THEN Append(topics[a], e) ELSE topics[b]
    BY <2>1
  <2>5. topics' \in [Attempts -> Seq(Envelopes)]
    BY <2>1, <2>3
  <2>6. QED
    BY <1>1, <1>3, <2>3, <2>4, <2>5 DEF SendTo
<1>4. QED
  BY <1>2, <1>3

LEMMA AfterReceipt ==
    ASSUME topics \in [Attempts -> Seq(Envelopes)], NEW a \in Attempts, topics[a] # <<>>,
           topics' = [topics EXCEPT ![a] = Tail(@)]
    PROVE  /\ topics' \in [Attempts -> Seq(Envelopes)]
           /\ 1 \in DOMAIN topics[a] /\ Head(topics[a]) = topics[a][1]
           /\ Head(topics[a]) \in Envelopes
           /\ \A b \in Attempts : \A i \in DOMAIN topics'[b] :
                LET j == IF b = a THEN i + 1 ELSE i IN
                j \in DOMAIN topics[b] /\ topics'[b][i] = topics[b][j] /\ (b = a => j # 1)
<1>1. topics[a] \in Seq(Envelopes)
  OBVIOUS
<1>2. /\ Tail(topics[a]) \in Seq(Envelopes)
      /\ 1 \in DOMAIN topics[a] /\ Head(topics[a]) = topics[a][1]
      /\ Head(topics[a]) \in Envelopes
      /\ \A i \in DOMAIN Tail(topics[a]) :
            /\ i + 1 \in DOMAIN topics[a] /\ i + 1 # 1
            /\ Tail(topics[a])[i] = topics[a][i + 1]
  BY <1>1
<1>3. ASSUME NEW b \in Attempts
      PROVE  topics'[b] = IF b = a THEN Tail(topics[a]) ELSE topics[b]
  OBVIOUS
<1>4. topics' \in [Attempts -> Seq(Envelopes)]
  BY <1>2
<1>5. QED
  BY <1>2, <1>3, <1>4

-----------------------------------------------------------------------------
(* Types *)

LEMMA RecordFields ==
    ASSUME TypeOK
    PROVE  /\ waiter.at \in WaiterSteps /\ waiter.next \in WaiterSteps
           /\ waiter.rec \in WaitRecords /\ waiter.rec.attempt \in Attempts
           /\ record.attempt \in Attempts /\ clock \in Clock
           /\ DOMAIN waiter = {"at", "rec", "next"}
BY DEF TypeOK, WaitRecords

\* What `resume` makes of a call that comes in.
LEMMA ResumeMoves ==
    ASSUME TypeOK, NEW c \in Callers, Resume(c)
    PROVE  \E x \in Calls :
              /\ Move(c, x) /\ x.op \in Ops
              /\ \/ /\ x.at = "answered" /\ x.result # "none"
                    /\ x.result # "accepted"
                    /\ x.result = "replayed" => record.resolvedBy = x.op
                 \/ /\ x.at = "send" /\ x.result = "none"
                    /\ x.attempt = x.to /\ x.to = record.attempt /\ x.sentAt <= Deadline
<1>1. PICK op \in OpsOf[c], attempt \in Attempts, good \in BOOLEAN :
        Move(c, IF record.state = "none" THEN Answered(op, attempt, "not_waiting")
                ELSE IF record.resolvedBy = op THEN Answered(op, attempt, "replayed")
                ELSE IF Rejection(attempt, good) = "none" THEN LetThrough(op, attempt)
                ELSE Answered(op, attempt, Rejection(attempt, good)))
  BY DEF Resume
<1>2. op \in Ops
  OBVIOUS
<1>3. Rejection(attempt, good) \in Refusals \cup {"none"}
  BY DEF Rejection, Refusals
<1>4. \A r \in Results : Answered(op, attempt, r) \in Calls
  BY <1>2 DEF Answered, Calls, Clock, Attempts, FirstAttempt
<1>5. LetThrough(op, attempt) \in Calls
  BY <1>2, RecordFields DEF LetThrough, Calls, Clock, Results
<1>6. Rejection(attempt, good) = "none" => attempt = record.attempt /\ clock <= Deadline
  BY RecordFields DEF Rejection, Clock, Deadline
<1>7. QED
  BY <1>1, <1>2, <1>3, <1>4, <1>5, <1>6 DEF Answered, LetThrough, Results, Refusals

LEMMA CallsMoved ==
    ASSUME calls \in [Callers -> Calls], NEW c \in Callers, NEW x \in Calls, Move(c, x)
    PROVE  /\ calls' \in [Callers -> Calls]
           /\ \A d \in Callers : calls'[d] = IF d = c THEN x ELSE calls[d]
BY DEF Move

\* What a call keeps while it sends and polls.
SameAnswer(x, y) == x.op = y.op /\ x.attempt = y.attempt /\ x.to = y.to /\ x.sentAt = y.sentAt

LEMMA SendMoves ==
    ASSUME TypeOK, NEW c \in Callers, SendAnswer(c)
    PROVE  \E x \in Calls :
              Move(c, x) /\ SameAnswer(x, calls[c]) /\ x.at = "confirm" /\ x.result = calls[c].result
<1> DEFINE x == [calls[c] EXCEPT !.at = "confirm"]
<1>1. calls[c] \in Calls
  BY DEF TypeOK
<1>2. x \in Calls /\ SameAnswer(x, calls[c]) /\ x.at = "confirm" /\ x.result = calls[c].result
  BY <1>1 DEF Calls, SameAnswer
<1>3. Move(c, x)
  BY DEF SendAnswer
<1> HIDE DEF x
<1>4. QED
  BY <1>2, <1>3

LEMMA ConfirmMoves ==
    ASSUME TypeOK, NEW c \in Callers, Confirm(c) \/ ConfirmEnds(c)
    PROVE  \E x \in Calls :
              /\ Move(c, x) /\ SameAnswer(x, calls[c]) /\ x.at = "answered"
              /\ x.result = "sent" \/ (x.result # "none" /\ x.result = Confirmation(calls[c]))
<1> DEFINE x(r) == [calls[c] EXCEPT !.at = "answered", !.result = r]
<1>1. calls[c] \in Calls
  BY DEF TypeOK
<1>2. Confirmation(calls[c]) \in Results /\ "sent" \in Results
  BY DEF Confirmation, Results, Refusals
<1>3. ASSUME NEW r \in Results
      PROVE  x(r) \in Calls /\ SameAnswer(x(r), calls[c]) /\ x(r).at = "answered" /\ x(r).result = r
  BY <1>1 DEF Calls, SameAnswer
<1>4. \/ Move(c, x("sent"))
      \/ Confirmation(calls[c]) # "none" /\ Move(c, x(Confirmation(calls[c])))
  BY DEF Confirm, ConfirmEnds
<1> HIDE DEF x
<1>5. QED
  BY <1>2, <1>3, <1>4

LEMMA TypeStep == TypeOK /\ CallInv /\ [Next]_vars => TypeOK'
<1> SUFFICES ASSUME TypeOK, CallInv, [Next]_vars PROVE TypeOK'
  OBVIOUS
<1> USE RecordFields
<1> DEFINE W == [at : WaiterSteps, rec : WaitRecords, next : WaiterSteps]
<1>1. CASE Open
  <2>1. [NoRecord EXCEPT !.state = "waiting"] \in WaitRecords
    BY DEF NoRecord, WaitRecords, WaitStates, Attempts, FirstAttempt
  <2>2. QED
    BY <1>1, <2>1 DEF Open, Publishing, TypeOK, WaiterSteps, Clock
<1>2. CASE Publish
  BY <1>2 DEF Publish, GoesTo, TypeOK, WaiterSteps
<1>3. CASE Index
  <2>1. Entry(waiter.rec) \in [state : WaitStates, attempt : Attempts]
    BY DEF Entry, WaitRecords
  <2>2. QED
    BY <1>3, <2>1 DEF Index, GoesTo, TypeOK, Outcomes
<1>4. CASE DeliverScripted
  <2>1. waiter' \in W
    BY <1>4 DEF DeliverScripted, GoesTo, TypeOK, WaiterSteps
  <2>2. CASE waiter.rec.attempt \in ScriptedAttempts
    <3> DEFINE e == [op |-> ScriptOp(waiter.rec.attempt), sentAt |-> 0, good |-> TRUE]
    <3>1. e \in Envelopes
      BY <2>2 DEF Envelopes, AllOps, Clock
    <3>2. SendTo(waiter.rec.attempt, e)
      BY <1>4, <2>2 DEF DeliverScripted
    <3> HIDE DEF e
    <3>3. QED
      BY <1>4, <2>1, <3>1, <3>2, AfterSend DEF DeliverScripted, TypeOK
  <2>3. CASE waiter.rec.attempt \notin ScriptedAttempts
    BY <1>4, <2>1, <2>3 DEF DeliverScripted, TypeOK
  <2>4. QED
    BY <2>2, <2>3
<1>5. CASE CheckClock
  <2>1. [waiter.rec EXCEPT !.state = "timed_out"] \in WaitRecords
    BY DEF WaitRecords, WaitStates
  <2>2. waiter' \in W
    <3>1. CASE clock >= Deadline
      <4> DEFINE r == [waiter.rec EXCEPT !.state = "timed_out"]
      <4>1. Publishing(r, "expire") /\ r \in WaitRecords
        BY <1>5, <2>1, <3>1 DEF CheckClock
      <4> HIDE DEF r
      <4>2. QED
        BY <4>1 DEF Publishing, WaiterSteps
    <3>2. CASE ~(clock >= Deadline)
      BY <1>5, <3>2 DEF CheckClock, GoesTo, TypeOK, WaiterSteps
    <3>3. QED
      BY <3>1, <3>2
  <2>3. QED
    BY <1>5, <2>2 DEF CheckClock, TypeOK
<1>6. CASE Receive
  <2> DEFINE a == waiter.rec.attempt
  <2> DEFINE e == Head(topics[a])
  <2>1. /\ topics[a] # <<>> /\ topics' = [topics EXCEPT ![a] = Tail(@)]
        /\ IF Accepts(e) THEN Publishing(Resolved(waiter.rec, e.op), "ended")
                         ELSE Publishing(Ignored(waiter.rec, e.op), "clock")
    BY <1>6 DEF Receive, Topic
  <2>2. e \in Envelopes /\ topics' \in [Attempts -> Seq(Envelopes)]
    BY <2>1, AfterReceipt DEF TypeOK
  <2>3. e.op \in AllOps
    BY <2>2 DEF Envelopes
  <2> HIDE DEF e
  <2>4. Resolved(waiter.rec, e.op) \in WaitRecords /\ Ignored(waiter.rec, e.op) \in WaitRecords
    BY <2>3 DEF Resolved, Ignored, WaitRecords, WaitStates
  <2>5. waiter' \in W
    BY <2>1, <2>4 DEF Publishing, WaiterSteps
  <2>6. QED
    BY <1>6, <2>2, <2>5 DEF Receive, TypeOK
<1>7. CASE ReceiveTimesOut
  BY <1>7 DEF ReceiveTimesOut, GoesTo, TypeOK, WaiterSteps
<1>8. CASE ExpireFails \/ ExpireDefaults
  BY <1>8 DEF ExpireFails, ExpireDefaults, Ends, GoesTo, TypeOK, WaiterSteps, Outcomes
<1>9. CASE ExpireEscalates
  <2> DEFINE n == waiter.rec.attempt + 1
  <2>1. n \in Attempts
    BY <1>9 DEF ExpireEscalates, PlanOf, Attempts, FirstAttempt
  <2>2. Publishing([waiter.rec EXCEPT !.state = "waiting", !.attempt = n], "deliver")
    BY <1>9 DEF ExpireEscalates
  <2> HIDE DEF n
  <2>3. [waiter.rec EXCEPT !.state = "waiting", !.attempt = n] \in WaitRecords
    BY <2>1 DEF WaitRecords, WaitStates
  <2>4. QED
    BY <1>9, <2>2, <2>3 DEF ExpireEscalates, Publishing, TypeOK, WaiterSteps, Clock
<1>10. ASSUME NEW c \in Callers, Resume(c) PROVE TypeOK'
  <2>1. \E x \in Calls : Move(c, x)
    BY <1>10, ResumeMoves
  <2>2. QED
    BY <1>10, <2>1 DEF Move, Resume, TypeOK, waiterVars
<1>11. ASSUME NEW c \in Callers, SendAnswer(c) PROVE TypeOK'
  <2> DEFINE e == [op |-> calls[c].op, sentAt |-> calls[c].sentAt, good |-> TRUE]
  <2>1. e \in Envelopes /\ calls[c].to \in Attempts
    BY <1>11 DEF SendAnswer, CallInv, Envelopes, AllOps, TypeOK, Calls
  <2>2. SendTo(calls[c].to, e)
    BY <1>11 DEF SendAnswer
  <2> HIDE DEF e
  <2>3. calls' \in [Callers -> Calls]
    BY <1>11, SendMoves, CallsMoved DEF TypeOK
  <2>4. QED
    BY <1>11, <2>1, <2>2, <2>3, AfterSend DEF SendAnswer, Move, TypeOK, waiterVars
<1>12. ASSUME NEW c \in Callers, Confirm(c) \/ ConfirmEnds(c) PROVE TypeOK'
  <2>1. calls' \in [Callers -> Calls]
    BY <1>12, ConfirmMoves, CallsMoved DEF TypeOK
  <2>2. QED
    BY <1>12, <2>1 DEF Confirm, ConfirmEnds, Move, TypeOK, waiterVars
<1>13. CASE Stray
  <2>1. PICK op \in StrayOps \ sentKeys, attempt \in Attempts, sentAt \in {0, 2},
             good \in BOOLEAN :
          SendTo(attempt, [op |-> op, sentAt |-> sentAt, good |-> good])
    BY <1>13 DEF Stray
  <2>2. [op |-> op, sentAt |-> sentAt, good |-> good] \in Envelopes
    BY DEF Envelopes, AllOps, Clock
  <2>3. QED
    BY <1>13, <2>1, <2>2, AfterSend DEF Stray, TypeOK, waiterVars
<1>14. CASE Tick
  BY <1>14 DEF Tick, TypeOK, Clock, waiterVars
<1>15. CASE UNCHANGED vars
  BY <1>15 DEF vars, waiterVars, TypeOK
<1>16. QED
  BY <1>1, <1>2, <1>3, <1>4, <1>5, <1>6, <1>7, <1>8, <1>9, <1>10, <1>11, <1>12, <1>13, <1>14,
     <1>15 DEF Next, WaiterStep, CallStep

-----------------------------------------------------------------------------
(* The waiter *)

LEMMA NextRecords ==
    ASSUME NEW r \in WaitRecords, NEW op \in AllOps
    PROVE  /\ Resolved(r, op).state = "resolved" /\ Resolved(r, op).resolvedBy = op
           /\ Resolved(r, op).attempt = r.attempt /\ Resolved(r, op).ignored = r.ignored
           /\ Ignored(r, op).state = r.state /\ Ignored(r, op).resolvedBy = r.resolvedBy
           /\ Ignored(r, op).attempt = r.attempt
           /\ Ignored(r, op).ignored = r.ignored \cup {op}
BY DEF Resolved, Ignored, WaitRecords

\* What a receipt makes of the record, and of the message it took.
LEMMA ReceiptMoves ==
    ASSUME TypeOK, Receive
    PROVE  LET a == waiter.rec.attempt
               e == Head(topics[a])
           IN  /\ a \in Attempts /\ topics[a] # <<>> /\ topics' = [topics EXCEPT ![a] = Tail(@)]
               /\ e \in Envelopes /\ e.op \in AllOps
               /\ waiter'.at = "publish" /\ waiter'.rec.attempt = a
               /\ \/ /\ waiter'.next = "ended" /\ waiter'.rec.state = "resolved"
                     /\ waiter'.rec.resolvedBy = e.op
                     /\ waiter'.rec.ignored = waiter.rec.ignored
                  \/ /\ waiter'.next = "clock" /\ waiter'.rec.state = waiter.rec.state
                     /\ waiter'.rec.resolvedBy = waiter.rec.resolvedBy
                     /\ waiter'.rec.ignored = waiter.rec.ignored \cup {e.op}
<1> DEFINE a == waiter.rec.attempt
<1> DEFINE e == Head(topics[a])
<1>1. /\ topics[a] # <<>> /\ topics' = [topics EXCEPT ![a] = Tail(@)]
      /\ \/ Publishing(Resolved(waiter.rec, e.op), "ended")
         \/ Publishing(Ignored(waiter.rec, e.op), "clock")
  BY DEF Receive, Topic
<1>2. a \in Attempts /\ e \in Envelopes
  BY <1>1, RecordFields, AfterReceipt DEF TypeOK
<1>3. e.op \in AllOps
  BY <1>2 DEF Envelopes
<1> HIDE DEF e
<1>4. QED
  BY <1>1, <1>2, <1>3, RecordFields, NextRecords DEF Publishing, e

LEMMA WaiterStaysTrue ==
    ASSUME WaiterInv, UNCHANGED <<waiter, record, indexed, outcome>>
    PROVE  WaiterInv'
BY DEF WaiterInv, Announces

LEMMA WaiterInvStep == TypeOK /\ WaiterInv /\ [Next]_vars => WaiterInv'
<1> SUFFICES ASSUME TypeOK, WaiterInv, [Next]_vars PROVE WaiterInv'
  OBVIOUS
<1> USE RecordFields
<1>1. CASE Open
  <2>1. /\ waiter'.at = "publish" /\ waiter'.next = "deliver"
        /\ waiter'.rec.state = "waiting" /\ waiter'.rec.attempt = FirstAttempt
        /\ waiter'.rec.resolvedBy = NoOp /\ waiter'.rec.ignored = {}
    BY <1>1 DEF Open, Publishing, NoRecord
  <2>2. /\ waiter.at = "open" /\ UNCHANGED <<record, indexed, outcome>>
        /\ record.ignored = {}
    BY <1>1 DEF Open, WaiterInv
  <2>3. QED
    BY <2>1, <2>2 DEF WaiterInv, Announces
<1>2. CASE Publish
  BY <1>2 DEF Publish, GoesTo, WaiterInv, Announces
<1>3. CASE Index
  BY <1>3 DEF Index, GoesTo, WaiterInv
<1>4. CASE DeliverScripted
  BY <1>4 DEF DeliverScripted, GoesTo, WaiterInv
<1>5. CASE CheckClock
  <2>1. CASE clock >= Deadline
    <3> DEFINE r == [waiter.rec EXCEPT !.state = "timed_out"]
    <3>1. /\ r.state = "timed_out" /\ r.attempt = waiter.rec.attempt
          /\ r.resolvedBy = waiter.rec.resolvedBy /\ r.ignored = waiter.rec.ignored
      BY DEF WaitRecords
    <3>2. Publishing(r, "expire")
      BY <1>5, <2>1 DEF CheckClock
    <3> HIDE DEF r
    <3>3. QED
      BY <1>5, <3>1, <3>2 DEF CheckClock, Publishing, WaiterInv, Announces
  <2>2. CASE ~(clock >= Deadline)
    BY <1>5, <2>2 DEF CheckClock, GoesTo, WaiterInv
  <2>3. QED
    BY <2>1, <2>2
<1>6. CASE Receive
  <2>1. waiter.at = "recv" /\ UNCHANGED <<record, indexed, outcome>>
    BY <1>6 DEF Receive
  <2>2. QED
    BY <1>6, <2>1, ReceiptMoves, NobodysKey DEF WaiterInv, Announces
<1>7. CASE ReceiveTimesOut
  BY <1>7 DEF ReceiveTimesOut, GoesTo, WaiterInv
<1>8. CASE ExpireFails \/ ExpireDefaults
  BY <1>8 DEF ExpireFails, ExpireDefaults, Ends, GoesTo, WaiterInv
<1>9. CASE ExpireEscalates
  <2> DEFINE n == waiter.rec.attempt + 1
  <2> DEFINE r == [waiter.rec EXCEPT !.state = "waiting", !.attempt = n]
  <2>1. waiter.rec.attempt < n
    BY DEF Attempts, FirstAttempt
  <2>2. Publishing(r, "deliver")
    BY <1>9 DEF ExpireEscalates
  <2> HIDE DEF n
  <2>3. /\ r.state = "waiting" /\ r.attempt = n
        /\ r.resolvedBy = waiter.rec.resolvedBy /\ r.ignored = waiter.rec.ignored
    BY DEF WaitRecords
  <2> HIDE DEF r
  <2>4. /\ waiter'.at = "publish" /\ waiter'.next = "deliver" /\ waiter'.rec = r
    BY <2>2 DEF Publishing
  <2>5. waiter.at = "expire" /\ UNCHANGED <<record, indexed, outcome>>
    BY <1>9 DEF ExpireEscalates
  <2>6. record = waiter.rec /\ record.state = "timed_out" /\ outcome = "none"
    BY <2>5 DEF WaiterInv
  <2>7. QED
    BY <2>1, <2>3, <2>4, <2>5, <2>6 DEF WaiterInv, Announces
<1>10. ASSUME NEW c \in Callers, CallStep(c) PROVE WaiterInv'
  BY <1>10, WaiterStaysTrue DEF CallStep, Resume, SendAnswer, Confirm, ConfirmEnds, Move, waiterVars
<1>11. CASE Stray \/ Tick \/ UNCHANGED vars
  BY <1>11, WaiterStaysTrue DEF Stray, Tick, vars, waiterVars
<1>12. QED
  BY <1>1, <1>2, <1>3, <1>4, <1>5, <1>6, <1>7, <1>8, <1>9, <1>10, <1>11 DEF Next, WaiterStep

-----------------------------------------------------------------------------
(* Messages *)

\* A step that leaves the topics and what the waiter has received.
LEMMA MessagesStayApart ==
    ASSUME MessageInv, UNCHANGED <<topics, sentKeys>>,
           waiter'.rec.ignored = waiter.rec.ignored,
           waiter'.rec.resolvedBy = waiter.rec.resolvedBy
    PROVE  MessageInv'
BY DEF MessageInv

LEMMA SendKeepsMessages ==
    ASSUME TypeOK, MessageInv, NEW a \in Attempts, NEW e \in Envelopes, SendTo(a, e),
           waiter'.rec = waiter.rec
    PROVE  MessageInv'
<1>1. /\ sentKeys \subseteq sentKeys' /\ e.op \in sentKeys'
      /\ \A b \in Attempts : \A i \in DOMAIN topics'[b] :
           \/ i \in DOMAIN topics[b] /\ topics'[b][i] = topics[b][i]
           \/ /\ e.op \notin sentKeys /\ b = a
              /\ i = Len(topics[a]) + 1 /\ topics'[b][i] = e
  BY AfterSend DEF TypeOK
<1>2. e.op # NoOp
  BY NobodysKey DEF Envelopes
<1>3. e.op \notin sentKeys => e.op \notin waiter.rec.ignored /\ e.op # waiter.rec.resolvedBy
  BY <1>2 DEF MessageInv
<1>4. ASSUME NEW b \in Attempts, NEW i \in DOMAIN topics'[b]
      PROVE  /\ topics'[b][i].op \in sentKeys'
             /\ topics'[b][i].op \notin waiter.rec.ignored
             /\ topics'[b][i].op # waiter.rec.resolvedBy
  BY <1>1, <1>3 DEF MessageInv
<1>5. ASSUME NEW b \in Attempts, NEW d \in Attempts, NEW i \in DOMAIN topics'[b],
             NEW j \in DOMAIN topics'[d], topics'[b][i].op = topics'[d][j].op
      PROVE  b = d /\ i = j
  BY <1>1, <1>5 DEF MessageInv
<1>6. QED
  BY <1>1, <1>4, <1>5 DEF MessageInv

LEMMA MessageInvStep ==
    TypeOK /\ WaiterInv /\ MessageInv /\ CallInv /\ [Next]_vars => MessageInv'
<1> SUFFICES ASSUME TypeOK, WaiterInv, MessageInv, CallInv, [Next]_vars PROVE MessageInv'
  OBVIOUS
<1> USE RecordFields
<1>1. CASE Open
  <2>1. waiter'.rec.ignored = {} /\ waiter'.rec.resolvedBy = NoOp
    BY <1>1 DEF Open, Publishing, NoRecord
  <2>2. UNCHANGED <<topics, sentKeys>>
    BY <1>1 DEF Open
  <2>3. \A a \in Attempts : \A i \in DOMAIN topics[a] : topics[a][i].op # NoOp
    <3> TAKE a \in Attempts
    <3> TAKE i \in DOMAIN topics[a]
    <3>1. topics[a][i] \in Envelopes
      BY DEF TypeOK
    <3>2. QED
      BY <3>1, NobodysKey DEF Envelopes
  <2>4. QED
    BY <2>1, <2>2, <2>3 DEF MessageInv
<1>2. CASE Publish \/ Index \/ ReceiveTimesOut \/ ExpireFails \/ ExpireDefaults
  BY <1>2, MessagesStayApart
     DEF Publish, Index, ReceiveTimesOut, ExpireFails, ExpireDefaults, Ends, GoesTo
<1>3. CASE DeliverScripted
  <2>1. waiter'.rec = waiter.rec
    BY <1>3 DEF DeliverScripted, GoesTo
  <2>2. CASE waiter.rec.attempt \in ScriptedAttempts
    <3> DEFINE e == [op |-> ScriptOp(waiter.rec.attempt), sentAt |-> 0, good |-> TRUE]
    <3>1. e \in Envelopes
      BY <2>2 DEF Envelopes, AllOps, Clock
    <3>2. SendTo(waiter.rec.attempt, e)
      BY <1>3, <2>2 DEF DeliverScripted
    <3> HIDE DEF e
    <3>3. QED
      BY <2>1, <3>1, <3>2, SendKeepsMessages
  <2>3. CASE waiter.rec.attempt \notin ScriptedAttempts
    BY <1>3, <2>1, <2>3, MessagesStayApart DEF DeliverScripted
  <2>4. QED
    BY <2>2, <2>3
<1>4. CASE CheckClock
  <2>1. waiter'.rec.ignored = waiter.rec.ignored /\ waiter'.rec.resolvedBy = waiter.rec.resolvedBy
    BY <1>4 DEF CheckClock, Publishing, GoesTo, WaitRecords
  <2>2. QED
    BY <1>4, <2>1, MessagesStayApart DEF CheckClock
<1>5. CASE Receive
  <2> DEFINE a == waiter.rec.attempt
  <2> DEFINE e == Head(topics[a])
  <2>1. /\ 1 \in DOMAIN topics[a] /\ e = topics[a][1]
        /\ \A b \in Attempts : \A i \in DOMAIN topics'[b] :
             LET j == IF b = a THEN i + 1 ELSE i IN
             j \in DOMAIN topics[b] /\ topics'[b][i] = topics[b][j] /\ (b = a => j # 1)
    BY <1>5, ReceiptMoves, AfterReceipt DEF TypeOK
  <2>2. waiter'.rec.ignored \subseteq waiter.rec.ignored \cup {e.op}
    BY <1>5, ReceiptMoves
  <2>3. waiter'.rec.resolvedBy \in {waiter.rec.resolvedBy, e.op}
    BY <1>5, ReceiptMoves
  <2>4. sentKeys' = sentKeys /\ e.op \in sentKeys
    BY <1>5, <2>1 DEF Receive, MessageInv
  <2>5. ASSUME NEW b \in Attempts, NEW i \in DOMAIN topics'[b]
        PROVE  /\ topics'[b][i].op \in sentKeys
               /\ topics'[b][i].op \notin waiter.rec.ignored
               /\ topics'[b][i].op # waiter.rec.resolvedBy
               /\ topics'[b][i].op # e.op
    BY <2>1 DEF MessageInv
  <2>6. ASSUME NEW b \in Attempts, NEW d \in Attempts, NEW i \in DOMAIN topics'[b],
               NEW j \in DOMAIN topics'[d], topics'[b][i].op = topics'[d][j].op
        PROVE  b = d /\ i = j
    <3>1. topics' \in [Attempts -> Seq(Envelopes)]
      BY <1>5, ReceiptMoves, AfterReceipt DEF TypeOK
    <3>2. i \in Nat /\ j \in Nat
      BY <3>1
    <3>3. QED
      BY <2>1, <2>6, <3>2 DEF MessageInv
  <2>7. waiter'.rec.resolvedBy \notin waiter'.rec.ignored
    <3>1. waiter.rec.resolvedBy # e.op /\ e.op \notin waiter.rec.ignored
      BY <2>1 DEF MessageInv
    <3>2. QED
      BY <1>5, <3>1, ReceiptMoves DEF MessageInv
  <2> HIDE DEF e
  <2>8. QED
    BY <2>2, <2>3, <2>4, <2>5, <2>6, <2>7 DEF MessageInv
<1>6. CASE ExpireEscalates
  <2> DEFINE n == waiter.rec.attempt + 1
  <2>1. Publishing([waiter.rec EXCEPT !.state = "waiting", !.attempt = n], "deliver")
    BY <1>6 DEF ExpireEscalates
  <2> HIDE DEF n
  <2>2. waiter'.rec.ignored = waiter.rec.ignored /\ waiter'.rec.resolvedBy = waiter.rec.resolvedBy
    BY <2>1 DEF Publishing, WaitRecords
  <2>3. QED
    BY <1>6, <2>2, MessagesStayApart DEF ExpireEscalates
<1>7. ASSUME NEW c \in Callers, SendAnswer(c) PROVE MessageInv'
  <2> DEFINE e == [op |-> calls[c].op, sentAt |-> calls[c].sentAt, good |-> TRUE]
  <2>1. e \in Envelopes /\ calls[c].to \in Attempts
    BY <1>7 DEF SendAnswer, CallInv, Envelopes, AllOps, TypeOK, Calls
  <2>2. SendTo(calls[c].to, e)
    BY <1>7 DEF SendAnswer
  <2> HIDE DEF e
  <2>3. QED
    BY <1>7, <2>1, <2>2, SendKeepsMessages DEF SendAnswer, Move, waiterVars
<1>8. ASSUME NEW c \in Callers, Resume(c) \/ Confirm(c) \/ ConfirmEnds(c) PROVE MessageInv'
  BY <1>8, MessagesStayApart DEF Resume, Confirm, ConfirmEnds, Move, waiterVars
<1>9. CASE Stray
  <2>1. PICK op \in StrayOps \ sentKeys, attempt \in Attempts, sentAt \in {0, 2},
             good \in BOOLEAN :
          SendTo(attempt, [op |-> op, sentAt |-> sentAt, good |-> good])
    BY <1>9 DEF Stray
  <2>2. [op |-> op, sentAt |-> sentAt, good |-> good] \in Envelopes
    BY DEF Envelopes, AllOps, Clock
  <2>3. QED
    BY <1>9, <2>1, <2>2, SendKeepsMessages DEF Stray, waiterVars
<1>10. CASE Tick \/ UNCHANGED vars
  BY <1>10, MessagesStayApart DEF Tick, vars, waiterVars
<1>11. QED
  BY <1>1, <1>2, <1>3, <1>4, <1>5, <1>6, <1>7, <1>8, <1>9, <1>10 DEF Next, WaiterStep, CallStep

-----------------------------------------------------------------------------
(* Calls *)

\* The published record goes on to later attempts, and a resolved one stays.
LEMMA RecordGoesOn ==
    ASSUME TypeOK, WaiterInv, [Next]_vars
    PROVE  /\ record.attempt <= record'.attempt
           /\ record.resolvedBy # NoOp => record'.resolvedBy = record.resolvedBy
<1>1. record.attempt \in Nat /\ waiter.rec.attempt \in Nat
  BY RecordFields DEF Attempts, FirstAttempt
<1>2. CASE Publish
  <2>1. record' = waiter.rec /\ Announces
    BY <1>2 DEF Publish, WaiterInv
  <2>2. QED
    BY <1>1, <2>1 DEF Announces, WaiterInv
<1>3. CASE ~Publish
  <2>1. record' = record
    BY <1>3 DEF Next, WaiterStep, CallStep, Open, Index, DeliverScripted, CheckClock, Receive,
       ReceiveTimesOut, ExpireFails, ExpireDefaults, Ends, ExpireEscalates, Resume, SendAnswer,
       Confirm, ConfirmEnds, Move, Stray, Tick, vars, waiterVars
  <2>2. QED
    BY <1>1, <2>1
<1>4. QED
  BY <1>2, <1>3

LEMMA CallInvStep == TypeOK /\ WaiterInv /\ CallInv /\ [Next]_vars => CallInv'
<1> SUFFICES ASSUME TypeOK, WaiterInv, CallInv, [Next]_vars PROVE CallInv'
  OBVIOUS
<1>1. /\ record.attempt <= record'.attempt /\ record.attempt \in Nat /\ record'.attempt \in Nat
      /\ \A op \in Ops : record.resolvedBy = op => record'.resolvedBy = op
      /\ \A c \in Callers : calls[c].to \in Nat
  <2>1. TypeOK'
    BY TypeStep
  <2>2. QED
    BY <2>1, RecordGoesOn DEF TypeOK, Calls, Attempts, FirstAttempt, WaitRecords
<1>2. CASE UNCHANGED calls
  BY <1>1, <1>2 DEF CallInv
<1>3. ASSUME NEW c \in Callers, NEW x \in Calls, Move(c, x),
             /\ x.at \in {"send", "confirm"} =>
                   /\ x.op \in Ops /\ x.result = "none" /\ x.attempt = x.to
                   /\ x.to <= record.attempt /\ x.sentAt <= Deadline
             /\ x.result # "none" => x.at = "answered"
             /\ x.result \in {"accepted", "replayed"} => x.op \in Ops /\ record.resolvedBy = x.op
      PROVE  CallInv'
  <2>1. \A d \in Callers : calls'[d] = IF d = c THEN x ELSE calls[d]
    BY <1>3, CallsMoved DEF TypeOK
  <2>2. record' = record
    BY <1>3 DEF Move, waiterVars
  <2>3. QED
    BY <1>3, <2>1, <2>2 DEF CallInv
<1>4. ASSUME NEW c \in Callers, Resume(c) PROVE CallInv'
  <2>1. record.attempt <= record.attempt
    BY <1>1
  <2>2. QED
    BY <1>3, <1>4, <2>1, ResumeMoves
<1>5. ASSUME NEW c \in Callers, SendAnswer(c) PROVE CallInv'
  <2>1. calls[c].at = "send"
    BY <1>5 DEF SendAnswer
  <2>2. QED
    BY <1>3, <1>5, <2>1, SendMoves DEF CallInv, SameAnswer
<1>6. ASSUME NEW c \in Callers, Confirm(c) \/ ConfirmEnds(c) PROVE CallInv'
  <2>1. calls[c].at = "confirm"
    BY <1>6 DEF Confirm, ConfirmEnds
  <2>2. /\ Confirmation(calls[c]) = "accepted" => record.resolvedBy = calls[c].op
        /\ Confirmation(calls[c]) # "replayed"
    BY DEF Confirmation
  <2>3. QED
    BY <1>3, <1>6, <2>1, <2>2, ConfirmMoves DEF CallInv, SameAnswer
<1>7. QED
  <2>1. WaiterStep \/ Stray \/ Tick \/ UNCHANGED vars => UNCHANGED calls
    BY DEF WaiterStep, Open, Publish, Index, DeliverScripted, CheckClock, Receive, ReceiveTimesOut,
       ExpireFails, ExpireDefaults, Ends, ExpireEscalates, Stray, Tick, vars
  <2>2. QED
    BY <1>2, <1>4, <1>5, <1>6, <2>1 DEF Next, CallStep

-----------------------------------------------------------------------------
(* Senders *)

LEMMA OverStays ==
    ASSUME TypeOK, WaiterInv, [Next]_vars, NEW a \in Attempts, Over(a)
    PROVE  Over(a)'
<1>1. waiter.rec.attempt \in Nat /\ a \in Nat
  BY RecordFields DEF Attempts, FirstAttempt
<1>2. CASE waiter'.rec = waiter.rec
  BY <1>2 DEF Over
<1>3. CASE Open
  <2>1. waiter.rec.attempt = FirstAttempt /\ waiter.rec.state = "none"
    BY <1>3 DEF Open, WaiterInv
  <2>2. QED
    BY <1>1, <2>1 DEF Over, Attempts, FirstAttempt
<1>4. CASE CheckClock
  <2>1. waiter'.rec.attempt = waiter.rec.attempt
    BY <1>4, RecordFields DEF CheckClock, Publishing, GoesTo, WaitRecords
  <2>2. waiter'.rec.state = waiter.rec.state \/ waiter'.rec.state = "timed_out"
    BY <1>4, RecordFields DEF CheckClock, Publishing, GoesTo, WaitRecords
  <2>3. QED
    BY <2>1, <2>2 DEF Over
<1>5. CASE Receive
  BY <1>5, ReceiptMoves DEF Over
<1>6. CASE ExpireEscalates
  <2> DEFINE n == waiter.rec.attempt + 1
  <2>1. Publishing([waiter.rec EXCEPT !.state = "waiting", !.attempt = n], "deliver")
    BY <1>6 DEF ExpireEscalates
  <2>2. n > waiter.rec.attempt /\ n \in Nat /\ waiter.rec.attempt = FirstAttempt
    BY <1>1, <1>6 DEF ExpireEscalates, PlanOf
  <2> HIDE DEF n
  <2>3. waiter'.rec.attempt = n
    BY <2>1, RecordFields DEF Publishing, WaitRecords
  <2>4. QED
    BY <1>1, <2>2, <2>3 DEF Over
<1>7. QED
  <2> USE DEF GoesTo, Move, waiterVars
  <2>1. ASSUME WaiterStep PROVE Open \/ CheckClock \/ Receive \/ ExpireEscalates \/ waiter'.rec = waiter.rec
    BY <2>1, RecordFields DEF WaiterStep, Publish, Index, DeliverScripted,
       ReceiveTimesOut, ExpireFails, ExpireDefaults, Ends
  <2>2. ASSUME NEW c \in Callers, CallStep(c) PROVE waiter' = waiter
    BY <2>2 DEF CallStep, Resume, SendAnswer, Confirm, ConfirmEnds
  <2>3. Stray \/ Tick \/ UNCHANGED vars => waiter' = waiter
    BY DEF Stray, Tick, vars
  <2>4. QED
    BY <1>2, <1>3, <1>4, <1>5, <1>6, <2>1, <2>2, <2>3 DEF Next

\* What a refusal of the confirmation means for the answer that was sent.
LEMMA RefusedWhenOver ==
    ASSUME TypeOK, WaiterInv, MessageInv, CallInv, NEW c \in Callers, calls[c].at = "confirm",
           Confirmation(calls[c]) \in Refusals,
           NEW a \in Attempts, calls[c].attempt = a,
           NEW i \in DOMAIN topics[a], topics[a][i].op = calls[c].op
    PROVE  Over(a)
<1>1. /\ waiter.rec.attempt \in Nat /\ record.attempt \in Nat /\ a \in Nat
      /\ a <= record.attempt /\ calls[c].op \in Ops
  BY RecordFields DEF Attempts, FirstAttempt, CallInv
<1>2. record.attempt <= waiter.rec.attempt /\ record.ignored \subseteq waiter.rec.ignored
  BY <1>1 DEF WaiterInv, Announces
<1>3. calls[c].op \notin record.ignored
  BY <1>2 DEF MessageInv
<1>4. \/ record.attempt # a
      \/ record.state \in {"resolved", "timed_out"}
  BY <1>3 DEF Confirmation, Refusals
<1>5. CASE record.attempt # a
  BY <1>1, <1>2, <1>5 DEF Over
<1>6. CASE record.attempt = a /\ record.state \in {"resolved", "timed_out"}
  BY <1>1, <1>6 DEF Over, WaiterInv, Announces
<1>7. QED
  BY <1>4, <1>5, <1>6

LEMMA TakenIsNotRefused ==
    ASSUME TypeOK, WaiterInv, MessageInv, CallInv, NEW c \in Callers, calls[c].at = "confirm",
           waiter.rec.resolvedBy = calls[c].op, calls[c].attempt = waiter.rec.attempt
    PROVE  Confirmation(calls[c]) \notin Refusals
<1>1. calls[c].op # NoOp
  BY DEF CallInv
<1>2. waiter.rec.state = "resolved" /\ calls[c].op \notin waiter.rec.ignored
  BY <1>1 DEF WaiterInv, MessageInv
<1>3. CASE waiter.at = "publish"
  <2>1. /\ record.state = "waiting" /\ record.attempt = waiter.rec.attempt
        /\ record.ignored \subseteq waiter.rec.ignored
    BY <1>2, <1>3 DEF WaiterInv, Announces
  <2>2. QED
    BY <1>1, <1>2, <2>1 DEF Confirmation, Refusals, WaiterInv
<1>4. CASE waiter.at # "publish"
  BY <1>4 DEF Confirmation, Refusals, WaiterInv
<1>5. QED
  BY <1>3, <1>4

\* A step that touches neither the calls nor what Ops have in the topics.
LEMMA SendersStay ==
    ASSUME TypeOK, WaiterInv, SenderInv, [Next]_vars, UNCHANGED calls,
           waiter'.rec.resolvedBy \in Ops =>
              /\ waiter'.rec.resolvedBy = waiter.rec.resolvedBy
              /\ waiter'.rec.attempt = waiter.rec.attempt,
           \A a \in Attempts : \A i \in DOMAIN topics'[a] : topics'[a][i].op \in Ops =>
              i \in DOMAIN topics[a] /\ topics'[a][i] = topics[a][i]
    PROVE  SenderInv'
<1>1. \A c \in Callers, op \in Ops, a \in Attempts : Gave(calls[c], op, a) => Gave(calls'[c], op, a)
  BY DEF Gave
<1>2. ASSUME NEW a \in Attempts, NEW i \in DOMAIN topics'[a], topics'[a][i].op \in Ops
      PROVE  \E c \in Callers : /\ Gave(calls'[c], topics[a][i].op, a)
                                /\ calls'[c].result \in Refusals => Over(a)'
  <2>1. PICK c \in Callers : /\ Gave(calls[c], topics[a][i].op, a)
                             /\ calls[c].result \in Refusals => Over(a)
    BY <1>2 DEF SenderInv
  <2>2. topics'[a][i] = topics[a][i]
    BY <1>2
  <2>3. QED
    BY <1>2, <2>1, <2>2, OverStays DEF Gave
<1>3. waiter'.rec.resolvedBy \in Ops =>
        \E c \in Callers : /\ Gave(calls'[c], waiter.rec.resolvedBy, waiter.rec.attempt)
                           /\ calls'[c].result \notin Refusals
  BY DEF SenderInv, Gave
<1>4. QED
  BY <1>2, <1>3 DEF SenderInv

LEMMA ReceiptKeepsSenders ==
    ASSUME TypeOK, WaiterInv, MessageInv, SenderInv, [Next]_vars, Receive
    PROVE  SenderInv'
<1> DEFINE a == waiter.rec.attempt
<1> DEFINE e == Head(topics[a])
<1>1. /\ a \in Attempts /\ 1 \in DOMAIN topics[a] /\ e = topics[a][1]
      /\ \A b \in Attempts : \A i \in DOMAIN topics'[b] :
           LET j == IF b = a THEN i + 1 ELSE i IN
           j \in DOMAIN topics[b] /\ topics'[b][i] = topics[b][j] /\ (b = a => j # 1)
  BY ReceiptMoves, AfterReceipt DEF TypeOK
<1>2. calls' = calls /\ waiter.rec.state = "waiting"
  BY DEF Receive, WaiterInv
<1>3. \A c \in Callers, op \in Ops, b \in Attempts : Gave(calls[c], op, b) => Gave(calls'[c], op, b)
  BY <1>2 DEF Gave
<1>4. ASSUME NEW b \in Attempts, NEW i \in DOMAIN topics'[b], topics'[b][i].op \in Ops
      PROVE  \E c \in Callers : /\ Gave(calls'[c], topics'[b][i].op, b)
                                /\ calls'[c].result \in Refusals => Over(b)'
  <2>1. PICK j \in DOMAIN topics[b] : topics'[b][i] = topics[b][j]
    BY <1>1
  <2>2. PICK c \in Callers : /\ Gave(calls[c], topics[b][j].op, b)
                             /\ calls[c].result \in Refusals => Over(b)
    BY <1>4, <2>1 DEF SenderInv
  <2>3. Gave(calls'[c], topics'[b][i].op, b)
    BY <1>2, <2>1, <2>2 DEF Gave
  <2>4. QED
    BY <1>2, <2>2, <2>3, OverStays
<1>5. ASSUME waiter'.rec.resolvedBy \in Ops
      PROVE  \E c \in Callers : /\ Gave(calls'[c], waiter'.rec.resolvedBy, waiter'.rec.attempt)
                                /\ calls'[c].result \notin Refusals
  <2>1. waiter'.rec.attempt = a
    BY ReceiptMoves
  <2>2. waiter.rec.resolvedBy = NoOp
    BY <1>2 DEF WaiterInv
  <2>3. waiter'.rec.resolvedBy = e.op
    BY <1>5, <2>2, ReceiptMoves
  <2>4. PICK c \in Callers : /\ Gave(calls[c], e.op, a)
                             /\ calls[c].result \in Refusals => Over(a)
    BY <1>1, <1>5, <2>3 DEF SenderInv
  <2>5. ~Over(a)
    BY <1>1, <1>2 DEF Over, Attempts, FirstAttempt
  <2>6. Gave(calls'[c], waiter'.rec.resolvedBy, waiter'.rec.attempt)
    BY <1>2, <2>1, <2>3, <2>4 DEF Gave
  <2>7. QED
    BY <1>2, <2>4, <2>5, <2>6
<1> HIDE DEF e
<1>6. QED
  BY <1>4, <1>5 DEF SenderInv

\* A step of one call that nobody has to answer for: it has not sent, or is not refused.
LEMMA CallKeepsSenders ==
    ASSUME TypeOK, WaiterInv, SenderInv, NEW c \in Callers, NEW x \in Calls, Move(c, x),
           calls[c].at \in {"confirm", "answered"} =>
              x.at \in {"confirm", "answered"} /\ SameAnswer(x, calls[c]),
           \A a \in Attempts, i \in Nat :
              /\ i \in DOMAIN topics[a] /\ topics[a][i].op \in Ops
              /\ Gave(calls[c], topics[a][i].op, a) /\ x.result \in Refusals
              => Over(a),
           waiter.rec.resolvedBy \in Ops /\ Gave(calls[c], waiter.rec.resolvedBy, waiter.rec.attempt)
              => x.result \notin Refusals
    PROVE  /\ \A a \in Attempts : \A i \in DOMAIN topics[a] : topics[a][i].op \in Ops =>
                 \E d \in Callers : /\ Gave(calls'[d], topics[a][i].op, a)
                                    /\ calls'[d].result \in Refusals => Over(a)
           /\ waiter.rec.resolvedBy \in Ops =>
                 \E d \in Callers : /\ Gave(calls'[d], waiter.rec.resolvedBy, waiter.rec.attempt)
                                    /\ calls'[d].result \notin Refusals
           /\ UNCHANGED waiter
<1>1. \A d \in Callers : calls'[d] = IF d = c THEN x ELSE calls[d]
  BY CallsMoved DEF TypeOK
<1>2. waiter' = waiter
  BY DEF Move, waiterVars
<1>3. ASSUME NEW d \in Callers, NEW op \in Ops, NEW a \in Attempts, Gave(calls[d], op, a)
      PROVE  /\ calls'[d].at \in {"confirm", "answered"}
             /\ calls'[d].op = op /\ calls'[d].to = a /\ calls'[d].attempt = a
             /\ calls'[d].sentAt <= Deadline
  BY <1>1, <1>3 DEF Gave, SameAnswer
<1>4. ASSUME NEW a \in Attempts, NEW i \in DOMAIN topics[a], topics[a][i].op \in Ops
      PROVE  \E d \in Callers : /\ Gave(calls'[d], topics[a][i].op, a)
                                /\ calls'[d].result \in Refusals => Over(a)
  <2>1. PICK d \in Callers : /\ Gave(calls[d], topics[a][i].op, a)
                             /\ calls[d].result \in Refusals => Over(a)
    BY <1>4 DEF SenderInv
  <2>2. i \in Nat
    BY DEF TypeOK
  <2>3. /\ calls'[d].at \in {"confirm", "answered"}
        /\ calls'[d].op = topics[a][i].op /\ calls'[d].to = a /\ calls'[d].attempt = a
        /\ calls'[d].sentAt <= Deadline
    BY <1>3, <1>4, <2>1
  <2>4. calls'[d].result \in Refusals => Over(a)
    BY <1>1, <1>4, <2>1, <2>2
  <2>5. QED
    BY <2>3, <2>4 DEF Gave
<1>5. ASSUME waiter.rec.resolvedBy \in Ops
      PROVE  \E d \in Callers : /\ Gave(calls'[d], waiter.rec.resolvedBy, waiter.rec.attempt)
                                /\ calls'[d].result \notin Refusals
  <2>1. PICK d \in Callers : /\ Gave(calls[d], waiter.rec.resolvedBy, waiter.rec.attempt)
                             /\ calls[d].result \notin Refusals
    BY <1>5 DEF SenderInv
  <2>2. waiter.rec.attempt \in Attempts
    BY RecordFields
  <2>3. /\ calls'[d].at \in {"confirm", "answered"}
        /\ calls'[d].op = waiter.rec.resolvedBy /\ calls'[d].to = waiter.rec.attempt
        /\ calls'[d].attempt = waiter.rec.attempt /\ calls'[d].sentAt <= Deadline
    BY <1>3, <1>5, <2>1, <2>2
  <2>4. calls'[d].result \notin Refusals
    BY <1>1, <1>5, <2>1
  <2>5. QED
    BY <1>2, <2>3, <2>4 DEF Gave
<1>6. QED
  BY <1>2, <1>4, <1>5

LEMMA SenderInvStep ==
    TypeOK /\ WaiterInv /\ MessageInv /\ CallInv /\ SenderInv /\ [Next]_vars => SenderInv'
<1> SUFFICES ASSUME TypeOK, WaiterInv, MessageInv, CallInv, SenderInv, [Next]_vars
             PROVE  SenderInv'
  OBVIOUS
<1> USE RecordFields
<1>1. CASE Open
  <2>1. waiter'.rec.resolvedBy = NoOp /\ UNCHANGED <<topics, calls>>
    BY <1>1 DEF Open, Publishing, NoRecord
  <2>2. QED
    BY <2>1, SendersStay
<1>2. CASE Publish \/ Index \/ ReceiveTimesOut \/ ExpireFails \/ ExpireDefaults
  <2>1. waiter'.rec = waiter.rec /\ UNCHANGED <<topics, calls>>
    BY <1>2 DEF Publish, Index, ReceiveTimesOut, ExpireFails, ExpireDefaults, Ends, GoesTo
  <2>2. QED
    BY <2>1, SendersStay
<1>3. CASE DeliverScripted
  <2>1. waiter'.rec = waiter.rec /\ UNCHANGED calls
    BY <1>3 DEF DeliverScripted, GoesTo
  <2>2. CASE waiter.rec.attempt \in ScriptedAttempts
    <3> DEFINE e == [op |-> ScriptOp(waiter.rec.attempt), sentAt |-> 0, good |-> TRUE]
    <3>1. e \in Envelopes /\ e.op \notin Ops
      BY <2>2 DEF Envelopes, AllOps, Clock
    <3>2. SendTo(waiter.rec.attempt, e)
      BY <1>3, <2>2 DEF DeliverScripted
    <3> HIDE DEF e
    <3>3. QED
      BY <2>1, <3>1, <3>2, AfterSend, SendersStay DEF TypeOK
  <2>3. CASE waiter.rec.attempt \notin ScriptedAttempts
    BY <1>3, <2>1, <2>3, SendersStay DEF DeliverScripted
  <2>4. QED
    BY <2>2, <2>3
<1>4. CASE CheckClock
  <2>1. waiter'.rec.attempt = waiter.rec.attempt /\ waiter'.rec.resolvedBy = waiter.rec.resolvedBy
    BY <1>4 DEF CheckClock, Publishing, GoesTo, WaitRecords
  <2>2. QED
    BY <1>4, <2>1, SendersStay DEF CheckClock
<1>5. CASE Receive
  BY <1>5, ReceiptKeepsSenders
<1>6. CASE ExpireEscalates
  <2> DEFINE n == waiter.rec.attempt + 1
  <2>1. Publishing([waiter.rec EXCEPT !.state = "waiting", !.attempt = n], "deliver")
    BY <1>6 DEF ExpireEscalates
  <2> HIDE DEF n
  <2>2. waiter'.rec.resolvedBy = waiter.rec.resolvedBy
    BY <2>1 DEF Publishing, WaitRecords
  <2>3. waiter.rec.resolvedBy = NoOp
    BY <1>6 DEF ExpireEscalates, WaiterInv
  <2>4. QED
    BY <1>6, <2>2, <2>3, SendersStay DEF ExpireEscalates
<1>7. ASSUME NEW c \in Callers, Resume(c) PROVE SenderInv'
  <2>1. calls[c].at = "idle" /\ UNCHANGED topics
    BY <1>7 DEF Resume
  <2>2. PICK x \in Calls : Move(c, x)
    BY <1>7, ResumeMoves
  <2>3. \A op \in Ops, a \in Attempts : ~Gave(calls[c], op, a)
    BY <2>1 DEF Gave
  <2>4. QED
    BY <2>1, <2>2, <2>3, CallKeepsSenders DEF SenderInv, Over
<1>8. ASSUME NEW c \in Callers, SendAnswer(c) PROVE SenderInv'
  <2> DEFINE e == [op |-> calls[c].op, sentAt |-> calls[c].sentAt, good |-> TRUE]
  <2>1. /\ calls[c].at = "send" /\ calls[c].result = "none" /\ calls[c].op \in Ops
        /\ calls[c].attempt = calls[c].to /\ calls[c].sentAt <= Deadline
    BY <1>8 DEF SendAnswer, CallInv
  <2>2. e \in Envelopes /\ calls[c].to \in Attempts /\ e.op = calls[c].op
    BY <2>1 DEF Envelopes, AllOps, TypeOK, Calls
  <2>3. SendTo(calls[c].to, e)
    BY <1>8 DEF SendAnswer
  <2>4. PICK x \in Calls : Move(c, x) /\ SameAnswer(x, calls[c]) /\ x.at = "confirm" /\ x.result = "none"
    BY <1>8, <2>1, SendMoves
  <2> HIDE DEF e
  <2>5. \A op \in Ops, a \in Attempts : ~Gave(calls[c], op, a)
    BY <2>1 DEF Gave
  <2>6. /\ \A a \in Attempts : \A i \in DOMAIN topics[a] : topics[a][i].op \in Ops =>
              \E d \in Callers : /\ Gave(calls'[d], topics[a][i].op, a)
                                 /\ calls'[d].result \in Refusals => Over(a)
        /\ waiter.rec.resolvedBy \in Ops =>
              \E d \in Callers : /\ Gave(calls'[d], waiter.rec.resolvedBy, waiter.rec.attempt)
                                 /\ calls'[d].result \notin Refusals
        /\ UNCHANGED waiter
    BY <2>1, <2>4, <2>5, CallKeepsSenders
  <2>7. Gave(calls'[c], e.op, calls[c].to) /\ calls'[c].result \notin Refusals
    BY <2>1, <2>2, <2>4, CallsMoved DEF Gave, SameAnswer, TypeOK, Refusals
  <2>8. \A b \in Attempts : \A i \in DOMAIN topics'[b] :
          \/ i \in DOMAIN topics[b] /\ topics'[b][i] = topics[b][i]
          \/ b = calls[c].to /\ topics'[b][i] = e
    BY <2>2, <2>3, AfterSend DEF TypeOK
  <2>9. ASSUME NEW b \in Attempts, NEW i \in DOMAIN topics'[b], topics'[b][i].op \in Ops
        PROVE  \E d \in Callers : /\ Gave(calls'[d], topics'[b][i].op, b)
                                  /\ calls'[d].result \in Refusals => Over(b)
    BY <2>6, <2>7, <2>8, <2>9
  <2>10. QED
    BY <2>6, <2>9 DEF SenderInv, Over
<1>9. ASSUME NEW c \in Callers, Confirm(c) \/ ConfirmEnds(c) PROVE SenderInv'
  <2>1. calls[c].at = "confirm" /\ UNCHANGED topics
    BY <1>9 DEF Confirm, ConfirmEnds
  <2>2. PICK x \in Calls :
          /\ Move(c, x) /\ SameAnswer(x, calls[c]) /\ x.at = "answered"
          /\ x.result = "sent" \/ (x.result # "none" /\ x.result = Confirmation(calls[c]))
    BY <1>9, ConfirmMoves
  <2>3. x.result \in Refusals => Confirmation(calls[c]) \in Refusals
    BY <2>2 DEF Refusals
  <2>4. ASSUME NEW a \in Attempts, NEW i \in Nat, i \in DOMAIN topics[a], topics[a][i].op \in Ops,
               Gave(calls[c], topics[a][i].op, a), x.result \in Refusals
        PROVE  Over(a)
    BY <2>1, <2>3, <2>4, RefusedWhenOver DEF Gave
  <2>5. ASSUME waiter.rec.resolvedBy \in Ops,
               Gave(calls[c], waiter.rec.resolvedBy, waiter.rec.attempt)
        PROVE  x.result \notin Refusals
    BY <2>1, <2>3, <2>5, TakenIsNotRefused DEF Gave
  <2>6. QED
    BY <2>1, <2>2, <2>4, <2>5, CallKeepsSenders DEF SenderInv, Over
<1>10. CASE Stray
  <2>1. PICK op \in StrayOps \ sentKeys, attempt \in Attempts, sentAt \in {0, 2},
             good \in BOOLEAN :
          SendTo(attempt, [op |-> op, sentAt |-> sentAt, good |-> good])
    BY <1>10 DEF Stray
  <2> DEFINE e == [op |-> op, sentAt |-> sentAt, good |-> good]
  <2>2. e \in Envelopes /\ e.op \notin Ops
    BY DEF Envelopes, AllOps, Clock
  <2>3. UNCHANGED <<waiter, calls>>
    BY <1>10 DEF Stray, waiterVars
  <2> HIDE DEF e
  <2>4. QED
    BY <2>1, <2>2, <2>3, AfterSend, SendersStay DEF TypeOK, e
<1>11. CASE Tick \/ UNCHANGED vars
  <2>1. UNCHANGED <<waiter, topics, calls>>
    BY <1>11 DEF Tick, vars, waiterVars
  <2>2. QED
    BY <2>1, SendersStay
<1>12. QED
  BY <1>1, <1>2, <1>3, <1>4, <1>5, <1>6, <1>7, <1>8, <1>9, <1>10, <1>11 DEF Next, WaiterStep, CallStep

-----------------------------------------------------------------------------

LEMMA WaitInvHolds == Spec => []WaitInv
<1>1. Init => WaitInv
  <2> SUFFICES ASSUME Init PROVE WaitInv
    OBVIOUS
  <2>1. NoRecord \in WaitRecords
    BY DEF NoRecord, WaitRecords, WaitStates, Attempts, FirstAttempt
  <2>2. Idle \in Calls
    BY DEF Idle, Calls, Attempts, FirstAttempt, Clock, Results
  <2>3. TypeOK
    BY <2>1, <2>2 DEF Init, TypeOK, Clock, WaiterSteps, Entry, NoRecord, WaitStates, Attempts,
       FirstAttempt, Outcomes
  <2>4. \A a \in Attempts : DOMAIN topics[a] = {}
    BY DEF Init
  <2>5. WaiterInv
    BY DEF Init, WaiterInv, NoRecord
  <2>6. MessageInv /\ CallInv /\ SenderInv
    BY <2>4 DEF Init, MessageInv, CallInv, SenderInv, NoRecord, Idle
  <2>7. QED
    BY <2>3, <2>5, <2>6 DEF WaitInv
<1>2. WaitInv /\ [Next]_vars => WaitInv'
  BY TypeStep, WaiterInvStep, MessageInvStep, CallInvStep, SenderInvStep DEF WaitInv
<1>3. QED
  BY <1>1, <1>2, PTL DEF Spec

(* For any number of people who answer and whatever ids they use, whoever is
   told "accepted" gave the answer the node goes on with, and an answer that
   every call refused is never the one. *)
THEOREM CallersToldTheTruth == Spec => []CallersAreToldTheTruth
<1>1. WaitInv => CallersAreToldTheTruth
  <2> SUFFICES ASSUME WaitInv PROVE CallersAreToldTheTruth
    OBVIOUS
  <2>1. \A c \in Callers : calls[c].result \in {"accepted", "replayed"} =>
          record.state = "resolved" /\ record.resolvedBy = calls[c].op
    BY DEF WaitInv, CallInv, WaiterInv
  <2>2. ASSUME NEW op \in Ops, record.resolvedBy = op
        PROVE  \E c \in Callers : calls[c].op = op /\ calls[c].result \notin Refusals
    <3>1. waiter.rec.resolvedBy = op
      BY <2>2 DEF WaitInv, WaiterInv, Announces
    <3>2. QED
      BY <3>1 DEF WaitInv, SenderInv, Gave
  <2>3. QED
    BY <2>1, <2>2 DEF CallersAreToldTheTruth
<1>2. QED
  BY <1>1, WaitInvHolds, PTL

(* An answer is taken only for the attempt its form was rendered for, and only
   when it was given by that attempt's deadline. *)
THEOREM AnswersForTheirAttempt == Spec => []AnswersMeetTheirAttempt
<1>1. WaitInv => AnswersMeetTheirAttempt
  <2> SUFFICES ASSUME WaitInv, NEW op \in Ops, record.resolvedBy = op
               PROVE  \E c \in Callers : /\ calls[c].op = op
                                         /\ calls[c].attempt = record.attempt
                                         /\ calls[c].sentAt <= Deadline
    BY DEF AnswersMeetTheirAttempt
  <2>1. waiter.rec = record
    BY DEF WaitInv, WaiterInv, Announces
  <2>2. QED
    BY <2>1 DEF WaitInv, SenderInv, Gave
<1>2. QED
  BY <1>1, WaitInvHolds, PTL

(* While the waiter listens the inbox lists its attempt, and once the wait has an
   outcome the inbox lists it no more. *)
THEOREM InboxIsTrue == Spec => []InboxShowsTheWait
<1>1. WaitInv => InboxShowsTheWait
  BY DEF WaitInv, WaiterInv, InboxShowsTheWait
<1>2. QED
  BY <1>1, WaitInvHolds, PTL
=============================================================================
