------------------------ MODULE ChatAndChannel_proofs ------------------------
(****************************************************************************)
(* Proofs about what the server tells its clients: the chat of ClaudeRunner   *)
(* and the events of SpecChannel, one part after the other.                   *)
(*                                                                            *)
(* Of ClaudeRunner, for any messages, any calls of interrupt and any number of *)
(* events, those that come while the session is being closed included: the    *)
(* journal follows the turn, a runner that was closed stays closed, and no    *)
(* message is written to an agent twice. The operators of the model are    *)
(* composed of functions of the runner, and so are the proofs: Inner, Grows   *)
(* and Runs say what such a function may do, are closed under composition,    *)
(* and keep the invariant. A step is an outcome (Good) of a call, or a step   *)
(* of the task that holds the lock.                                           *)
(*                                                                            *)
(* Of SpecChannel, for any followers, window, edits and notices: no follower  *)
(* misses an event silently, and progress comes in order. Most steps only add *)
(* events that are no notices (Tells), a follower moves alone (GoesOn), and    *)
(* the relay and the throttle keep the notices on their way in order          *)
(* (Ordered).                                                                 *)
(****************************************************************************)
EXTENDS ClaudeRunner, SpecChannel, FiniteSetTheorems, SequenceTheorems,
        WellFoundedInduction, TLAPS

-----------------------------------------------------------------------------
(* The members of a sequence that are wanted, in their order (Keep): the places *)
(* of a finite set can be listed in order, or a smallest set could not.         *)

LEMMA SmallestSubset ==
    ASSUME NEW S, NEW T \in SUBSET FiniteSubsetsOf(S), T # {}
    PROVE  \E x \in T : \A y \in T : ~(y \subseteq x /\ y # x)
<1>1. PICK x \in T : \A y \in T : <<y, x>> \notin StrictSubsetOrdering(S)
  BY FS_StrictSubsetOrderingWellFounded, WFMin
<1>2. ASSUME NEW y \in T PROVE ~(y \subseteq x /\ y # x)
  <2>1. y \in SUBSET S /\ x \in SUBSET S
    BY DEF FiniteSubsetsOf
  <2> QED
    BY <1>1, <2>1 DEF StrictSubsetOrdering
<1> QED
  BY <1>2

LEMMA LeastOfMany ==
    ASSUME NEW ks \in SUBSET Nat, ks # {}
    PROVE  \E k \in ks : \A l \in ks : k <= l
<1> DEFINE T == {1 .. k : k \in ks}
<1>1. T \in SUBSET FiniteSubsetsOf(Nat) /\ T # {}
  <2>1. ASSUME NEW k \in ks PROVE 1 .. k \in FiniteSubsetsOf(Nat)
    BY FS_Interval DEF FiniteSubsetsOf
  <2> QED
    BY <2>1
<1> HIDE DEF T
<1>2. PICK x \in T : \A y \in T : ~(y \subseteq x /\ y # x)
  BY <1>1, SmallestSubset
<1> USE DEF T
<1>3. PICK k \in ks : x = 1 .. k
  BY <1>2
<1>4. ASSUME NEW l \in ks PROVE k <= l
  <2>1. 1 .. l \in T /\ l \in Nat /\ k \in Nat
    OBVIOUS
  <2> HIDE DEF T
  <2>2. SUFFICES ASSUME l < k PROVE FALSE
    BY <2>1
  <2>3. 1 .. l \subseteq 1 .. k /\ k \in 1 .. k /\ k \notin 1 .. l
    BY <2>1, <2>2
  <2> QED
    BY <1>2, <1>3, <2>1, <2>3
<1> QED
  BY <1>4

\* f lists the places ks in their order.
Lists(f, ks) ==
    /\ f \in [1 .. Cardinality(ks) -> ks]
    /\ \A i, j \in DOMAIN f : i < j => f[i] < f[j]

LEMMA ListsExist ==
    ASSUME NEW ks \in SUBSET Nat, IsFiniteSet(ks)
    PROVE  \E f : Lists(f, ks)
<1> DEFINE T == {x \in FiniteSubsetsOf(Nat) : \A s : ~Lists(s, x)}
<1>1. SUFFICES ASSUME T # {} PROVE FALSE
  BY DEF FiniteSubsetsOf
<1>0. T \in SUBSET FiniteSubsetsOf(Nat)
  OBVIOUS
<1> HIDE DEF T
<1>2. PICK x \in T : \A y \in T : ~(y \subseteq x /\ y # x)
  BY <1>0, <1>1, SmallestSubset
<1> USE DEF T
<1>3. x \in SUBSET Nat /\ IsFiniteSet(x) /\ \A s : ~Lists(s, x)
  BY <1>2 DEF FiniteSubsetsOf
<1>4. x # {}
  <2>1. SUFFICES ASSUME x = {} PROVE FALSE
    OBVIOUS
  <2> DEFINE s == [i \in 1 .. 0 |-> 0]
  <2>2. Cardinality(x) = 0
    BY <2>1, FS_EmptySet
  <2>3. Lists(s, x)
    BY <2>2 DEF Lists
  <2> QED
    BY <1>3, <2>3
<1>5. PICK m \in x : \A l \in x : m <= l
  BY <1>3, <1>4, LeastOfMany
<1>6. /\ IsFiniteSet(x \ {m}) /\ Cardinality(x \ {m}) = Cardinality(x) - 1
      /\ Cardinality(x) \in Nat /\ x \ {m} \in SUBSET Nat
  BY <1>3, FS_RemoveElement, FS_CardinalityType
<1>7. x \ {m} \notin T
  BY <1>2
<1>8. PICK s : Lists(s, x \ {m})
  BY <1>6, <1>7 DEF FiniteSubsetsOf
<1> DEFINE n == Cardinality(x)
           t == [i \in 1 .. n |-> IF i = 1 THEN m ELSE s[i - 1]]
<1>9. s \in [1 .. n - 1 -> x \ {m}] /\ \A i, j \in 1 .. n - 1 : i < j => s[i] < s[j]
  BY <1>6, <1>8 DEF Lists
<1>10. \A i \in 1 .. n : t[i] \in x
  BY <1>6, <1>9
<1>11. ASSUME NEW i \in 1 .. n, NEW j \in 1 .. n, i < j PROVE t[i] < t[j]
  <2>1. j - 1 \in 1 .. n - 1 /\ t[j] = s[j - 1] /\ s[j - 1] \in x \ {m}
    BY <1>6, <1>9, <1>11
  <2>2. CASE i = 1
    <3>1. t[i] = m
      BY <2>2
    <3>2. s[j - 1] # m /\ m <= s[j - 1] /\ m \in Nat /\ s[j - 1] \in Nat
      BY <1>3, <1>5, <2>1
    <3> HIDE DEF t
    <3> QED
      BY <2>1, <3>1, <3>2
  <2>3. CASE i # 1
    <3>1. i - 1 \in 1 .. n - 1 /\ t[i] = s[i - 1] /\ i - 1 < j - 1
      BY <1>6, <1>11, <2>3
    <3> QED
      BY <1>9, <2>1, <3>1
  <2> QED
    BY <2>2, <2>3
<1>12. Lists(t, x)
  BY <1>10, <1>11 DEF Lists
<1> QED
  BY <1>3, <1>12

LEMMA KeepFacts ==
    ASSUME NEW S, NEW s \in Seq(S), NEW wanted, NEW q, q = Keep(s, wanted)
    PROVE  /\ q \in Seq(S)
           /\ Range(q) \subseteq Range(s) \cap wanted
           /\ s # <<>> /\ Head(s) \in wanted => q # <<>> /\ Head(q) = Head(s)
<1> DEFINE ks == {i \in 1 .. Len(s) : s[i] \in wanted}
           n == Cardinality(ks)
           order == CHOOSE f \in [1 .. n -> ks] : \A i, j \in DOMAIN f : i < j => f[i] < f[j]
<1>1. ks \in SUBSET Nat /\ IsFiniteSet(ks) /\ Len(s) \in Nat /\ ks \subseteq 1 .. Len(s)
  <2>1. Len(s) \in Nat /\ IsFiniteSet(1 .. Len(s))
    BY FS_Interval
  <2> QED
    BY <2>1, FS_Subset
<1>2. n \in Nat
  BY <1>1, FS_CardinalityType
<1>3. Lists(order, ks)
  <2> HIDE DEF ks
  <2>1. \E f : f \in [1 .. n -> ks] /\ \A i, j \in DOMAIN f : i < j => f[i] < f[j]
    BY <1>1, ListsExist DEF Lists
  <2> QED
    BY <2>1 DEF Lists
<1>4. q = [i \in 1 .. n |-> s[order[i]]]
  BY DEF Keep
<1> HIDE DEF order
<1>5. /\ order \in [1 .. n -> ks]
      /\ \A i, j \in 1 .. n : i < j => order[i] < order[j]
  BY <1>3 DEF Lists
<1>6. \A i \in 1 .. n : q[i] \in S /\ q[i] \in wanted /\ q[i] \in Range(s)
  BY <1>1, <1>4, <1>5 DEF Range
<1>7. q \in Seq(S) /\ Range(q) \subseteq Range(s) \cap wanted /\ DOMAIN q = 1 .. n
  BY <1>2, <1>4, <1>6 DEF Range
<1>8. ASSUME s # <<>>, Head(s) \in wanted PROVE q # <<>> /\ Head(q) = Head(s)
  <2>1. 1 \in ks
    BY <1>1, <1>8
  <2>2. ASSUME NEW i \in 1 .. n, NEW j \in 1 .. n, i # j PROVE order[i] # order[j]
    <3>1. i \in Nat /\ j \in Nat /\ (i < j \/ j < i)
      BY <1>2, <2>2
    <3>2. order[i] \in Nat /\ order[j] \in Nat
      <4> HIDE DEF ks, n
      <4> QED
        BY <1>1, <1>5
    <3> QED
      BY <1>5, <3>1, <3>2
  <2>3. order \in Injection(1 .. n, ks)
    BY <1>5, <2>2 DEF Injection, IsInjective
  <2>4. Cardinality(1 .. n) = n /\ IsFiniteSet(1 .. n)
    BY <1>2, FS_Interval
  <2>5. order \in Surjection(1 .. n, ks)
    BY <1>1, <2>3, <2>4, FS_Injection
  <2>6. PICK i \in 1 .. n : order[i] = 1
    BY <2>1, <2>5 DEF Surjection
  <2>7. 1 \in 1 .. n /\ order[1] \in Nat /\ order[1] >= 1
    BY <1>1, <1>2, <1>5, <2>6
  <2>8. order[1] = 1
    BY <1>5, <2>6, <2>7
  <2>9. q[1] = s[1] /\ Len(q) = n
    BY <1>2, <1>4, <2>7, <2>8
  <2> QED
    BY <1>7, <2>7, <2>9, <1>8
<1> QED
  BY <1>7, <1>8

-----------------------------------------------------------------------------
(* The invariants. *)

TaskSet == [kind : {"deliver", "write"}, op : Ops, turn : Nat]

States == {"idle", "thinking", "interrupting", "waiting_approval"}
JournalSet == [state : States \cup {"finished"}, open : Nat]
OpStates == {"unsent", "turn", "queued", "delivered", "dropped", "other"}
AskStates == {"none", "open", "resolved"}

Runners ==
    [turn : Nat, turns : Nat, state : States, interrupting : BOOLEAN, closed : BOOLEAN,
     journal : JournalSet, pending : Seq(Ops), ops : [Ops -> OpStates],
     client : Nat, written : [Ops -> Nat], tasks : Seq(TaskSet), at : {"lock", "connect", "query", "drop"}, via : Nat,
     delivery : Nat, asks : [Clients -> AskStates]]

Agents == [inbox : Seq(Ops), works : BOOLEAN, dead : BOOLEAN, deaf : BOOLEAN, got : [Ops -> Nat]]

Kinds == {"none", "idle", "force", "request", "fail", "reload", "close", "over"}
Awaits == {"none", "drop", "writes", "delivery", "ack", "sleep"}
JobSet == [kind : Kinds, at : Awaits, gone : Nat, turn : Nat]

SessionSet == [sealed : BOOLEAN, swept : BOOLEAN, crossed : BOOLEAN,
               turns : SUBSET Nat, waiting : SUBSET Ops]

UsedSet == [clients : Nat, events : Nat, late : BOOLEAN, forgot : BOOLEAN]

TypeOK ==
    /\ runner \in Runners
    /\ agent \in Agents
    /\ jobs \in [Jobs -> JobSet]
    /\ session \in SessionSet
    /\ used \in UsedSet

Deliveries(r) == {t \in Range(r.tasks) : t.kind = "deliver"}

\* The messages an agent may have been given as a write, or may yet be.
AsWrite(r, o) ==
    \/ o \in Range(r.pending)
    \/ \E t \in Range(r.tasks) : t.kind = "write" /\ t.op = o
    \/ r.written[o] # NoClient
AsDelivery(r, o) == \E t \in Deliveries(r) : t.op = o

\* A message is delivered or written, not both.
OneWay(r) ==
    \A o \in Ops :
        /\ ~(AsWrite(r, o) /\ AsDelivery(r, o))
        /\ r.ops[o] = "unsent" => ~AsWrite(r, o) /\ ~AsDelivery(r, o)

\* What is on its way to an agent has not been written to it.
OnTheWayIsNew(r) ==
    /\ r.tasks = <<>> => r.at = "lock"
    /\ r.tasks # <<>> /\ r.at = "query" /\ r.via = r.client /\ r.client # NoClient
           => r.written[Head(r.tasks).op] # r.client

OldClients(r, n) == r.client <= n /\ r.via <= n /\ \A o \in Ops : r.written[o] <= n

\* What the journal says of the turn, when an approval was settled after its turn
\* (late) and the journal may have other turns open.
Saids == [late : BOOLEAN, turns : SUBSET Nat]
Clean == [late |-> FALSE, turns |-> {}]
Said == [late |-> used.late, turns |-> StrayTurns]

JournalInv(r, m) ==
    /\ r.journal.open \in {r.turn} \cup m.turns
    /\ \/ m.late
       \/ /\ r.turn = NoTurn => r.state = "idle"
          /\ r.turn # NoTurn => r.state \notin SettledStates
          /\ \/ m.turns # {}
             \/ /\ r.turn = NoTurn => r.journal.state \in SettledStates
                /\ r.turn # NoTurn => r.journal.state = r.state

OthersInv == session.turns # {} => session.crossed

LastDelivery(r) == \A t \in Deliveries(r) : t.turn = r.delivery

\* How far the close has come.
NoDelivery(r) == Deliveries(r) = {}
Cancelled(r) == r.tasks = <<>>
Dropped(r) == r.tasks = <<>> /\ r.client = NoClient

Phase(job, r) ==
    /\ job.kind = "close" /\ job.at = "delivery" => NoDelivery(r)
    /\ job.kind = "close" /\ job.at = "writes" => Cancelled(r)
    /\ (job.kind = "close" /\ job.at = "drop") \/ job.kind = "over" => Dropped(r)

CloseInv ==
    /\ jobs[Close].kind \in {"none", "close", "over"}
    /\ jobs[Close].kind = "close" <=> jobs[Close].at # "none"
    /\ jobs[Close].at # "ack"
    /\ \A j \in Jobs : jobs[j].kind = "close" => j = Close
    /\ runner.closed <=> jobs[Close].kind # "none"
    /\ runner.closed => runner.pending = <<>>
    /\ jobs[Close].kind = "over" => runner.turn = NoTurn
    /\ used.forgot \/ (LastDelivery(runner) /\ Phase(jobs[Close], runner))

Inv ==
    /\ TypeOK
    /\ JournalInv(runner, Said) /\ OthersInv
    /\ OneWay(runner) /\ OnTheWayIsNew(runner) /\ OldClients(runner, used.clients)
    /\ CloseInv

-----------------------------------------------------------------------------
(* What a step between two awaits may do to a runner. *)

\* It may cancel tasks, drop the client, and write what was pending; it neither
\* delivers nor takes a message, and opens no turn in a closed session.
Runs(r, q) ==
    /\ q \in Runners
    /\ q.closed = r.closed /\ q.written = r.written /\ q.delivery = r.delivery
    /\ q.client \in {r.client, NoClient} /\ q.via \in {r.via, r.client, NoClient}
    /\ \A o \in Ops : AsWrite(q, o) => AsWrite(r, o)
    /\ \A o \in Ops : q.ops[o] = "unsent" => r.ops[o] = "unsent"
    /\ Deliveries(q) \subseteq Deliveries(r)
    /\ r.pending = <<>> => q.pending = <<>> /\ Range(q.tasks) \subseteq Range(r.tasks)
    /\ r.closed /\ r.pending = <<>> /\ r.turn = NoTurn => q.turn = NoTurn
    /\ OnTheWayIsNew(r) => OnTheWayIsNew(q)

LEMMA RunsOn ==
    ASSUME NEW r, NEW p, NEW q, Runs(r, p), Runs(p, q)
    PROVE  Runs(r, q)
  BY DEF Runs

\* It leaves the queues alone.
Inner(r, q) ==
    /\ q \in Runners
    /\ q.turn = r.turn /\ q.turns = r.turns /\ q.closed = r.closed
    /\ q.pending = r.pending /\ q.ops = r.ops
    /\ q.client = r.client /\ q.written = r.written
    /\ q.tasks = r.tasks /\ q.at = r.at /\ q.via = r.via /\ q.delivery = r.delivery

\* It opens and closes turns and appends writes of what was pending.
Grows(r, q) ==
    /\ q \in Runners
    /\ q.closed = r.closed /\ q.client = r.client /\ q.written = r.written
    /\ q.at = r.at /\ q.via = r.via /\ q.delivery = r.delivery
    /\ \E s \in Seq(TaskSet) :
          /\ q.tasks = r.tasks \o s
          /\ \A t \in Range(s) : t.kind = "write" /\ t.op \in Range(r.pending)
          /\ r.pending = <<>> => s = <<>>
    /\ r.pending = <<>> => q.pending = <<>>
    /\ Range(q.pending) \subseteq Range(r.pending)
    /\ \A o \in Ops : q.ops[o] = "unsent" => r.ops[o] = "unsent"
    /\ r.closed /\ r.pending = <<>> /\ r.turn = NoTurn => q.turn = NoTurn

LEMMA NothingAppended ==
    ASSUME NEW s \in Seq(TaskSet)
    PROVE  s \o <<>> = s
  OBVIOUS

LEMMA InnerGrows ==
    ASSUME NEW r \in Runners, NEW q, Inner(r, q)
    PROVE  Grows(r, q)
<1>1. r.tasks \in Seq(TaskSet) /\ q.tasks = r.tasks \o <<>>
  BY NothingAppended DEF Inner, Runners
<1>2. <<>> \in Seq(TaskSet) /\ Range(<<>>) = {}
  BY DEF Range
<1> QED
  BY <1>1, <1>2 DEF Inner, Grows

LEMMA InnerThenGrows ==
    ASSUME NEW r, NEW p, NEW q, Inner(r, p), Grows(p, q)
    PROVE  Grows(r, q)
  BY DEF Inner, Grows

LEMMA GrowsThenInner ==
    ASSUME NEW r, NEW p, NEW q, Grows(r, p), Inner(p, q)
    PROVE  Grows(r, q)
  BY DEF Inner, Grows

\* The task that holds the lock keeps it.
LEMMA GrowsKeepsHead ==
    ASSUME NEW r \in Runners, NEW q, Grows(r, q), r.tasks # <<>>
    PROVE  q.tasks # <<>> /\ Head(q.tasks) = Head(r.tasks)
<1>1. PICK s \in Seq(TaskSet) : q.tasks = r.tasks \o s
  BY DEF Grows
<1>2. r.tasks \in Seq(TaskSet)
  BY DEF Runners
<1> QED
  BY <1>1, <1>2

LEMMA GrowsTasks ==
    ASSUME NEW r \in Runners, NEW q, Grows(r, q), NEW t \in Range(q.tasks)
    PROVE  t \in Range(r.tasks) \/ (t.kind = "write" /\ t.op \in Range(r.pending) /\ r.pending # <<>>)
<1>1. PICK s \in Seq(TaskSet) :
          /\ q.tasks = r.tasks \o s
          /\ \A u \in Range(s) : u.kind = "write" /\ u.op \in Range(r.pending)
          /\ r.pending = <<>> => s = <<>>
  BY DEF Grows
<1>2. r.tasks \in Seq(TaskSet)
  BY DEF Runners
<1>3. t \in Range(r.tasks) \/ t \in Range(s)
  BY <1>1, <1>2, RangeConcatenation
<1>4. Range(<<>>) = {}
  BY DEF Range
<1> QED
  BY <1>1, <1>3, <1>4

LEMMA GrowsRuns ==
    ASSUME NEW r \in Runners, NEW q, Grows(r, q)
    PROVE  Runs(r, q)
<1>1. ASSUME NEW o \in Ops, AsWrite(q, o) PROVE AsWrite(r, o)
  <2>1. CASE o \in Range(q.pending)
    BY <2>1 DEF AsWrite, Grows
  <2>2. CASE \E t \in Range(q.tasks) : t.kind = "write" /\ t.op = o
    <3>1. PICK t \in Range(q.tasks) : t.kind = "write" /\ t.op = o
      BY <2>2
    <3>2. t \in Range(r.tasks) \/ t.op \in Range(r.pending)
      BY GrowsTasks
    <3> QED
      BY <3>1, <3>2 DEF AsWrite
  <2>3. CASE q.written[o] # NoClient
    BY <2>3 DEF AsWrite, Grows
  <2> QED
    BY <1>1, <2>1, <2>2, <2>3 DEF AsWrite
<1>2. Deliveries(q) \subseteq Deliveries(r)
  BY GrowsTasks DEF Deliveries
<1>3. r.pending = <<>> => q.pending = <<>> /\ Range(q.tasks) \subseteq Range(r.tasks)
  BY GrowsTasks DEF Grows
<1>4. ASSUME OnTheWayIsNew(r) PROVE OnTheWayIsNew(q)
  <2>1. CASE r.tasks = <<>>
    <3>1. r.at = "lock" /\ q.at = "lock"
      BY <1>4, <2>1 DEF OnTheWayIsNew, Grows
    <3> QED
      BY <3>1 DEF OnTheWayIsNew
  <2>2. CASE r.tasks # <<>>
    BY <1>4, <2>2, GrowsKeepsHead DEF OnTheWayIsNew, Grows
  <2> QED
    BY <2>1, <2>2
<1> QED
  BY <1>1, <1>2, <1>3, <1>4 DEF Runs, Grows

-----------------------------------------------------------------------------
(* The normalizer and the journal. *)

LEMMA ShownFacts ==
    ASSUME NEW r \in Runners, NEW state \in States, NEW q, q = Shown(r, state)
    PROVE  /\ Inner(r, q) /\ q.journal.open = r.journal.open
           /\ \/ q.state = r.state /\ q.journal = r.journal
              \/ q.state = state /\ q.journal.state = state
           /\ ~r.interrupting \/ state \in {"interrupting", "idle"} => q.state = state
  BY DEF Shown, Inner, Runners, JournalSet

LEMMA FinishedJournal == [state |-> "finished", open |-> NoTurn] \in JournalSet
  BY DEF NoTurn, JournalSet

LEMMA FinishedFacts ==
    ASSUME NEW r \in Runners, NEW q, q = Finished(r)
    PROVE  Inner(r, q) /\ q.state = "idle" /\ q.journal = [state |-> "finished", open |-> NoTurn]
<1> DEFINE calm == [r EXCEPT !.interrupting = FALSE]
           shown == Shown(calm, "idle")
<1>1. calm \in Runners /\ Inner(r, calm) /\ ~calm.interrupting
  BY DEF Runners, Inner
<1>3. q = [shown EXCEPT !.journal = [state |-> "finished", open |-> NoTurn]]
  BY DEF Finished
<1> HIDE DEF calm
<1>2. Inner(calm, shown) /\ shown.state = "idle"
  <2>1. "idle" \in States
    BY DEF States
  <2> QED
    BY <1>1, <2>1, ShownFacts
<1> HIDE DEF shown
<1>4. shown \in Runners
  BY <1>2 DEF Inner
<1>5. Inner(shown, q) /\ q.state = shown.state /\ q.journal = [state |-> "finished", open |-> NoTurn]
  BY <1>3, <1>4, FinishedJournal DEF Inner, Runners
<1> QED
  BY <1>1, <1>2, <1>5 DEF Inner

LEMMA SettleFacts ==
    ASSUME NEW r \in Runners, NEW q, q = Settle(r)
    PROVE  /\ Inner(r, q) /\ q.state = r.state
           /\ \/ q.journal = r.journal /\ r.journal.state \in SettledStates
              \/ q.journal = [state |-> "finished", open |-> NoTurn]
<1>1. CASE r.journal.state \in SettledStates
  BY <1>1 DEF Settle, Inner
<1>2. CASE r.journal.state \notin SettledStates
  BY <1>2, FinishedJournal DEF Settle, Inner, Runners
<1> QED
  BY <1>1, <1>2

LEMMA ResolveFacts ==
    ASSUME NEW r \in Runners, NEW q, q = Resolve(r)
    PROVE  Inner(r, q) /\ q.state = r.state /\ q.journal = r.journal
<1>1. [c \in Clients |-> IF r.asks[c] = "open" THEN "resolved" ELSE r.asks[c]] \in [Clients -> AskStates]
  <2>1. r.asks \in [Clients -> AskStates]
    BY DEF Runners
  <2> QED
    BY <2>1 DEF AskStates
<1> QED
  BY <1>1 DEF Resolve, Inner, Runners

-----------------------------------------------------------------------------
(* Turns. *)

LEMMA OpenTurnFacts ==
    ASSUME NEW r \in Runners, NEW q, q = OpenTurn(r)
    PROVE  /\ q \in Runners
           /\ q.turn = r.turns + 1 /\ q.turn # NoTurn
           /\ q.closed = r.closed /\ q.pending = r.pending /\ q.ops = r.ops
           /\ q.client = r.client /\ q.written = r.written
           /\ q.tasks = r.tasks /\ q.at = r.at /\ q.via = r.via /\ q.delivery = r.delivery
           /\ q.journal.open = q.turn
           /\ r.state # "thinking" => q.state = "thinking" /\ q.journal.state = "thinking"
<1> DEFINE id == r.turns + 1
           p == [r EXCEPT !.turn = id, !.turns = id, !.interrupting = FALSE, !.journal.open = id]
<1>0. r.turns + 1 \in Nat /\ r.turns + 1 # NoTurn /\ r.turns \in Nat
      /\ r.journal \in JournalSet
  BY DEF Runners, NoTurn
<1>a. [r.journal EXCEPT !.open = r.turns + 1] \in JournalSet
      /\ [r.journal EXCEPT !.open = r.turns + 1].open = r.turns + 1
  BY <1>0 DEF JournalSet
<1>1. /\ p \in Runners /\ p.turn = id /\ id # NoTurn /\ ~p.interrupting /\ p.state = r.state
      /\ p.journal.open = id
      /\ p.closed = r.closed /\ p.pending = r.pending /\ p.ops = r.ops
      /\ p.client = r.client /\ p.written = r.written
      /\ p.tasks = r.tasks /\ p.at = r.at /\ p.via = r.via /\ p.delivery = r.delivery
  BY <1>0, <1>a DEF Runners
<1>2. q = Shown(p, "thinking")
  BY DEF OpenTurn
<1> HIDE DEF p
<1>3. /\ Inner(p, q) /\ q.journal.open = p.journal.open /\ q.state = "thinking"
      /\ \/ q.state = p.state
         \/ q.state = "thinking" /\ q.journal.state = "thinking"
  <2>1. "thinking" \in States
    BY DEF States
  <2> QED
    BY <1>1, <1>2, <2>1, ShownFacts
<1> QED
  BY <1>1, <1>3 DEF Inner

LEMMA OpenTurnJournal ==
    ASSUME NEW r \in Runners, NEW m \in Saids, m.late \/ r.state = "idle"
    PROVE  JournalInv(OpenTurn(r), m)
  BY OpenTurnFacts DEF JournalInv, SettledStates

LEMMA WritesScheduled ==
    ASSUME NEW r \in Runners, NEW ops \in Seq(Ops), NEW q, q = ScheduleWrites(r, ops)
    PROVE  /\ \E s \in Seq(TaskSet) :
                /\ q = [r EXCEPT !.tasks = r.tasks \o s]
                /\ \A t \in Range(s) : t.kind = "write" /\ t.op \in Range(ops)
                /\ ops = <<>> => s = <<>>
           /\ q.tasks \in Seq(TaskSet)
<1> DEFINE s == [i \in 1 .. Len(ops) |-> WriteTask(ops[i])]
<1>1. \A i \in 1 .. Len(ops) : ops[i] \in Ops /\ ops[i] \in Range(ops)
  BY DEF Range
<1>2. \A i \in 1 .. Len(ops) : /\ WriteTask(ops[i]) \in TaskSet
                               /\ WriteTask(ops[i]).kind = "write" /\ WriteTask(ops[i]).op = ops[i]
  BY <1>1 DEF WriteTask, TaskSet, NoTurn
<1>3. s \in Seq(TaskSet) /\ DOMAIN s = 1 .. Len(ops) /\ Len(s) = Len(ops)
  BY <1>2
<1>4. \A t \in Range(s) : t.kind = "write" /\ t.op \in Range(ops)
  BY <1>1, <1>2, <1>3 DEF Range
<1>5. q = [r EXCEPT !.tasks = r.tasks \o s]
  BY DEF ScheduleWrites
<1>6. r.tasks \in Seq(TaskSet)
  BY DEF Runners
<1> HIDE DEF s
<1>7. ops = <<>> => s = <<>>
  BY <1>3
<1>8. q.tasks = r.tasks \o s
  BY <1>5 DEF Runners
<1>9. r.tasks \o s \in Seq(TaskSet)
  BY <1>3, <1>6
<1> QED
  BY <1>3, <1>4, <1>5, <1>7, <1>8, <1>9

LEMMA TailRange ==
    ASSUME NEW S, NEW s \in Seq(S), s # <<>>
    PROVE  /\ Head(s) \in S /\ Head(s) \in Range(s)
           /\ Tail(s) \in Seq(S) /\ Range(Tail(s)) \subseteq Range(s)
<1>1. Tail(s) \in Seq(S) /\ Len(s) \in Nat /\ Len(s) >= 1 /\ Len(Tail(s)) = Len(s) - 1
  OBVIOUS
<1>2. \A i \in 1 .. Len(s) - 1 : Tail(s)[i] = s[i + 1] /\ i + 1 \in 1 .. Len(s)
  BY <1>1
<1>3. DOMAIN Tail(s) = 1 .. Len(s) - 1 /\ DOMAIN s = 1 .. Len(s)
  BY <1>1
<1>4. Range(Tail(s)) \subseteq Range(s)
  BY <1>2, <1>3 DEF Range
<1>5. Head(s) = s[1] /\ 1 \in DOMAIN s /\ s[1] \in S
  BY <1>1, <1>3
<1> QED
  BY <1>1, <1>4, <1>5 DEF Range

LEMMA AnyTime ==
    ASSUME NEW r, NEW m \in Saids, JournalInv(r, Clean)
    PROVE  JournalInv(r, m)
  BY DEF JournalInv, Clean

LEMMA JournalLoosens ==
    ASSUME NEW r, NEW m \in Saids, NEW n \in Saids, JournalInv(r, m),
           m.late = n.late, m.turns \subseteq n.turns
    PROVE  JournalInv(r, n)
  BY DEF JournalInv

LEMMA SettledEarly ==
    ASSUME NEW r \in Runners, NEW m \in Saids, NEW n \in Saids, JournalInv(r, m),
           m.late = n.late, m.turns \subseteq n.turns, r.turn = NoTurn \/ NoTurn \in n.turns
    PROVE  JournalInv(Settle(r), n)
<1> DEFINE q == Settle(r)
<1>1. /\ q.turn = r.turn /\ q.state = r.state
      /\ \/ q.journal = r.journal /\ r.journal.state \in SettledStates
         \/ q.journal = [state |-> "finished", open |-> NoTurn]
  BY SettleFacts DEF Inner
<1> HIDE DEF q
<1> QED
  BY <1>1 DEF JournalInv, SettledStates, q

LEMMA TurnClosedFacts ==
    ASSUME NEW r \in Runners, NEW q, q = TurnClosed(r)
    PROVE  /\ Grows(r, q)
           /\ r.pending = <<>> => q.turn = NoTurn
           /\ r.state = "idle" /\ r.journal = [state |-> "finished", open |-> NoTurn]
                  => JournalInv(q, Clean)
<1>1. CASE r.pending = <<>>
  <2>1. q = [r EXCEPT !.turn = NoTurn]
    BY <1>1 DEF TurnClosed
  <2>2. /\ q \in Runners /\ q.turn = NoTurn /\ q.turns = r.turns /\ q.closed = r.closed
        /\ q.pending = r.pending /\ q.ops = r.ops
        /\ q.client = r.client /\ q.written = r.written
        /\ q.tasks = r.tasks /\ q.at = r.at /\ q.via = r.via /\ q.delivery = r.delivery
        /\ q.state = r.state /\ q.journal = r.journal
    <3>1. NoTurn \in Nat
      BY DEF NoTurn
    <3> QED
      BY <2>1, <3>1 DEF Runners
  <2>3. r.tasks \in Seq(TaskSet) /\ r.tasks = r.tasks \o <<>> /\ <<>> \in Seq(TaskSet)
    BY NothingAppended DEF Runners
  <2>4. Range(<<>>) = {}
    BY DEF Range
  <2>5. Grows(r, q)
    BY <2>2, <2>3, <2>4 DEF Grows
  <2>6. r.journal = [state |-> "finished", open |-> NoTurn]
            => q.journal.open = NoTurn /\ q.journal.state = "finished"
    BY <2>2
  <2> QED
    BY <2>2, <2>5, <2>6 DEF JournalInv, SettledStates
<1>2. CASE r.pending # <<>>
  <2> DEFINE base == [r EXCEPT !.turn = NoTurn, !.pending = Tail(@), !.ops[Head(r.pending)] = "turn"]
             next == OpenTurn(base)
             writes == Keep(r.pending, Unwritten(next))
  <2>1. q = ScheduleWrites(next, writes)
    BY <1>2 DEF TurnClosed
  <2>2. /\ r.pending \in Seq(Ops) /\ Tail(r.pending) \in Seq(Ops) /\ Head(r.pending) \in Ops
        /\ Range(Tail(r.pending)) \subseteq Range(r.pending)
    BY <1>2, TailRange DEF Runners
  <2>0. r.ops \in [Ops -> OpStates] /\ "turn" \in OpStates /\ NoTurn \in Nat
    BY DEF Runners, OpStates, NoTurn
  <2>3. /\ base \in Runners
        /\ base.closed = r.closed /\ base.pending = Tail(r.pending)
        /\ base.client = r.client /\ base.written = r.written
        /\ base.tasks = r.tasks /\ base.at = r.at /\ base.via = r.via
        /\ base.delivery = r.delivery /\ base.state = r.state
        /\ base.ops = [r.ops EXCEPT ![Head(r.pending)] = "turn"]
    BY <2>0, <2>2 DEF Runners
  <2>4. \A o \in Ops : base.ops[o] = "unsent" => r.ops[o] = "unsent"
    BY <2>0, <2>2, <2>3
  <2> HIDE DEF base
  <2>5. /\ next \in Runners /\ next.turn # NoTurn
        /\ next.closed = r.closed /\ next.pending = Tail(r.pending) /\ next.ops = base.ops
        /\ next.client = r.client /\ next.written = r.written
        /\ next.tasks = r.tasks /\ next.at = r.at /\ next.via = r.via
        /\ next.delivery = r.delivery /\ next.journal.open = next.turn
        /\ r.state # "thinking" => next.state = "thinking" /\ next.journal.state = "thinking"
    BY <2>3, OpenTurnFacts
  <2> HIDE DEF next
  <2>6. writes \in Seq(Ops) /\ Range(writes) \subseteq Range(r.pending)
    BY <2>2, KeepFacts
  <2> HIDE DEF writes
  <2>7. /\ \E s \in Seq(TaskSet) :
              /\ q = [next EXCEPT !.tasks = next.tasks \o s]
              /\ \A t \in Range(s) : t.kind = "write" /\ t.op \in Range(writes)
        /\ q.tasks \in Seq(TaskSet)
    BY <2>1, <2>5, <2>6, WritesScheduled
  <2>8. PICK s \in Seq(TaskSet) :
              /\ q = [next EXCEPT !.tasks = next.tasks \o s]
              /\ \A t \in Range(s) : t.kind = "write" /\ t.op \in Range(writes)
    BY <2>7
  <2>9. /\ q \in Runners /\ q.tasks = next.tasks \o s
        /\ q.closed = next.closed /\ q.pending = next.pending /\ q.ops = next.ops
        /\ q.client = next.client /\ q.written = next.written /\ q.turn = next.turn
        /\ q.at = next.at /\ q.via = next.via /\ q.delivery = next.delivery
        /\ q.state = next.state /\ q.journal = next.journal
    BY <2>5, <2>7, <2>8 DEF Runners
  <2>a. \A t \in Range(s) : t.kind = "write" /\ t.op \in Range(r.pending)
    BY <2>6, <2>8
  <2>b. q.tasks = r.tasks \o s
    BY <2>5, <2>9
  <2>c. \E z \in Seq(TaskSet) :
          /\ q.tasks = r.tasks \o z
          /\ \A t \in Range(z) : t.kind = "write" /\ t.op \in Range(r.pending)
          /\ r.pending = <<>> => z = <<>>
    BY <1>2, <2>a, <2>b
  <2>d. Range(q.pending) \subseteq Range(r.pending)
    BY <2>2, <2>5, <2>9
  <2>e. \A o \in Ops : q.ops[o] = "unsent" => r.ops[o] = "unsent"
    BY <2>4, <2>5, <2>9
  <2>10. Grows(r, q)
    BY <1>2, <2>5, <2>9, <2>c, <2>d, <2>e DEF Grows
  <2> QED
    BY <1>2, <2>5, <2>9, <2>10 DEF JournalInv, SettledStates
<1> QED
  BY <1>1, <1>2

LEMMA ContinueTurnFacts ==
    ASSUME NEW r \in Runners, NEW q, q = ContinueTurn(r)
    PROVE  /\ Grows(r, q)
           /\ \A m \in Saids : JournalInv(r, m) => JournalInv(q, m)
<1>1. CASE r.turn # NoTurn \/ r.closed
  <2>1. q = r /\ Inner(r, q)
    BY <1>1 DEF ContinueTurn, Inner
  <2> QED
    BY <2>1, InnerGrows
<1>2. CASE r.turn = NoTurn /\ ~r.closed
  <2>1. q = OpenTurn(r)
    BY <1>2 DEF ContinueTurn
  <2>2. r.tasks \in Seq(TaskSet) /\ r.tasks = r.tasks \o <<>> /\ <<>> \in Seq(TaskSet)
    BY NothingAppended DEF Runners
  <2>3. Range(<<>>) = {}
    BY DEF Range
  <2>4. Grows(r, q)
    BY <1>2, <2>1, <2>2, <2>3, OpenTurnFacts DEF Grows
  <2>5. ASSUME NEW m \in Saids, JournalInv(r, m) PROVE JournalInv(q, m)
    BY <1>2, <2>1, <2>5, OpenTurnJournal DEF JournalInv
  <2> QED
    BY <2>4, <2>5
<1> QED
  BY <1>1, <1>2

LEMMA DeliveredFacts ==
    ASSUME NEW r \in Runners, NEW o \in Ops, NEW q, q = Delivered(r, o)
    PROVE  /\ Grows(r, q)
           /\ q.turn = r.turn /\ q.state = r.state /\ q.journal = r.journal
<1>1. CASE Contains(r.pending, o)
  <2> DEFINE left == Keep(r.pending, Ops \ {o})
  <2>1. q = [r EXCEPT !.pending = left, !.ops[o] = "delivered"]
    BY <1>1 DEF Delivered
  <2>2. left \in Seq(Ops) /\ Range(left) \subseteq Range(r.pending)
    <3>1. r.pending \in Seq(Ops)
      BY DEF Runners
    <3> QED
      BY <3>1, KeepFacts
  <2> HIDE DEF left
  <2>3. r.pending # <<>>
    BY <1>1 DEF Contains, Runners
  <2>4. r.ops \in [Ops -> OpStates] /\ "delivered" \in OpStates
    BY DEF Runners, OpStates
  <2>a. [r.ops EXCEPT ![o] = "delivered"] \in [Ops -> OpStates]
    BY <2>4
  <2>b. q = [r EXCEPT !.pending = left, !.ops = [r.ops EXCEPT ![o] = "delivered"]]
    BY <2>1
  <2>5. /\ q \in Runners /\ q.turn = r.turn /\ q.closed = r.closed
        /\ q.pending = left /\ q.ops = [r.ops EXCEPT ![o] = "delivered"]
        /\ q.client = r.client /\ q.written = r.written
        /\ q.tasks = r.tasks /\ q.at = r.at /\ q.via = r.via /\ q.delivery = r.delivery
        /\ q.state = r.state /\ q.journal = r.journal
    BY <2>b, <2>2, <2>a DEF Runners
  <2>6. \A p \in Ops : q.ops[p] = "unsent" => r.ops[p] = "unsent"
    BY <2>4, <2>5
  <2>7. r.tasks \in Seq(TaskSet) /\ r.tasks = r.tasks \o <<>> /\ <<>> \in Seq(TaskSet)
    BY NothingAppended DEF Runners
  <2>8. Range(<<>>) = {}
    BY DEF Range
  <2> QED
    BY <2>2, <2>3, <2>5, <2>6, <2>7, <2>8 DEF Grows
<1>2. CASE ~Contains(r.pending, o)
  <2>1. q = r /\ Inner(r, q)
    BY <1>2 DEF Delivered, Inner
  <2> QED
    BY <2>1, InnerGrows
<1> QED
  BY <1>1, <1>2

LEMMA AbortFacts ==
    ASSUME NEW r \in Runners, NEW q, q = Abort(r)
    PROVE  /\ Grows(r, q)
           /\ r.pending = <<>> => q.turn = NoTurn
           /\ \A m \in Saids : JournalInv(r, m) => JournalInv(q, m)
<1>1. CASE r.turn = NoTurn
  <2>1. q = r /\ Inner(r, q)
    BY <1>1 DEF Abort, Inner
  <2> QED
    BY <1>1, <2>1, InnerGrows
<1>2. CASE r.turn # NoTurn
  <2> DEFINE p == Resolve(r)
             f == Finished(p)
  <2>1. Inner(r, p) /\ p \in Runners
    BY ResolveFacts DEF Inner
  <2> HIDE DEF p
  <2>2. /\ Inner(p, f) /\ f \in Runners /\ f.state = "idle"
        /\ f.journal = [state |-> "finished", open |-> NoTurn]
    BY <2>1, FinishedFacts DEF Inner
  <2>3. q = TurnClosed(f)
    BY <1>2 DEF Abort, p
  <2> HIDE DEF f
  <2>4. Grows(f, q) /\ (f.pending = <<>> => q.turn = NoTurn) /\ JournalInv(q, Clean)
    BY <2>2, <2>3, TurnClosedFacts
  <2>5. Grows(r, q)
    BY <2>1, <2>2, <2>4, InnerThenGrows
  <2>6. f.pending = r.pending
    BY <2>1, <2>2 DEF Inner
  <2> QED
    BY <2>4, <2>5, <2>6, AnyTime
<1> QED
  BY <1>1, <1>2

\* A cancelled task holds the lock no longer.
LEMMA WithoutFacts ==
    ASSUME NEW r \in Runners, NEW cancelled, NEW q, q = Without(r, cancelled)
    PROVE  /\ Runs(r, q)
           /\ Range(q.tasks) \subseteq Range(r.tasks) \ cancelled
           /\ q.turn = r.turn /\ q.state = r.state /\ q.journal = r.journal
           /\ q.client = r.client /\ q.pending = r.pending
<1> DEFINE left == Keep(r.tasks, Range(r.tasks) \ cancelled)
           handsOn == r.tasks # <<>> /\ Head(r.tasks) \in cancelled
<1>1. r.tasks \in Seq(TaskSet)
  BY DEF Runners
<1>2. /\ left \in Seq(TaskSet) /\ Range(left) \subseteq Range(r.tasks) \ cancelled
      /\ r.tasks # <<>> /\ Head(r.tasks) \in Range(r.tasks) \ cancelled
            => left # <<>> /\ Head(left) = Head(r.tasks)
  <2> DEFINE wanted == Range(r.tasks) \ cancelled
  <2> HIDE DEF wanted
  <2>1. left = Keep(r.tasks, wanted)
    BY DEF wanted
  <2> HIDE DEF left
  <2>2. /\ left \in Seq(TaskSet) /\ Range(left) \subseteq Range(r.tasks) \cap wanted
        /\ r.tasks # <<>> /\ Head(r.tasks) \in wanted
              => left # <<>> /\ Head(left) = Head(r.tasks)
    BY <1>1, <2>1, KeepFacts
  <2> QED
    BY <2>2 DEF wanted
<1>3. r.tasks # <<>> => Head(r.tasks) \in Range(r.tasks)
  BY <1>1, TailRange
<1>4. q = [r EXCEPT !.tasks = left, !.at = IF handsOn THEN "lock" ELSE @,
                    !.via = IF handsOn THEN NoClient ELSE @]
  BY DEF Without
<1>a. NoClient \in Nat /\ r.via \in Nat /\ (IF handsOn THEN NoClient ELSE r.via) \in Nat
  BY DEF NoClient, Runners
<1>b. (IF handsOn THEN "lock" ELSE r.at) \in {"lock", "connect", "query", "drop"}
  BY DEF Runners
<1>c. q = [r EXCEPT !.tasks = left, !.at = IF handsOn THEN "lock" ELSE r.at,
                    !.via = IF handsOn THEN NoClient ELSE r.via]
  BY <1>4
<1> DEFINE at == IF handsOn THEN "lock" ELSE r.at
           via == IF handsOn THEN NoClient ELSE r.via
<1> HIDE DEF left, at, via
<1>5. /\ q \in Runners
      /\ q.turn = r.turn /\ q.turns = r.turns /\ q.closed = r.closed
      /\ q.pending = r.pending /\ q.ops = r.ops /\ q.state = r.state /\ q.journal = r.journal
      /\ q.client = r.client /\ q.written = r.written /\ q.delivery = r.delivery
      /\ q.tasks = left
      /\ q.at = at /\ q.via = via
  <2>1. at \in {"lock", "connect", "query", "drop"} /\ via \in Nat
    BY <1>a, <1>b DEF at, via
  <2>2. q = [r EXCEPT !.tasks = left, !.at = at, !.via = via]
    BY <1>c DEF at, via
  <2> QED
    BY <1>2, <2>1, <2>2 DEF Runners
<1> USE DEF at, via
<1>6. \A o \in Ops : AsWrite(q, o) => AsWrite(r, o)
  BY <1>2, <1>5 DEF AsWrite
<1>7. Deliveries(q) \subseteq Deliveries(r)
  BY <1>2, <1>5 DEF Deliveries
<1>8. ASSUME OnTheWayIsNew(r) PROVE OnTheWayIsNew(q)
  <2>1. CASE r.tasks = <<>> \/ handsOn
    <3>1. q.at = "lock"
      BY <1>5, <1>8, <2>1 DEF OnTheWayIsNew
    <3> QED
      BY <3>1 DEF OnTheWayIsNew
  <2>2. CASE r.tasks # <<>> /\ ~handsOn
    <3>1. left # <<>> /\ Head(left) = Head(r.tasks)
      BY <1>2, <1>3, <2>2
    <3> QED
      BY <1>5, <1>8, <2>2, <3>1 DEF OnTheWayIsNew
  <2> QED
    BY <2>1, <2>2
<1> QED
  BY <1>2, <1>5, <1>6, <1>7, <1>8 DEF Runs

-----------------------------------------------------------------------------
(* What a call leaves behind when it waits, or ends. *)

LEMMA EmptyRange ==
    ASSUME NEW S, NEW s \in Seq(S), Range(s) = {}
    PROVE  s = <<>>
<1>1. SUFFICES ASSUME s # <<>> PROVE FALSE
  OBVIOUS
<1> QED
  BY <1>1, TailRange

LEMMA RunsKeepsThePhase ==
    ASSUME NEW r, NEW q, Runs(r, q), r.pending = <<>>
    PROVE  /\ NoDelivery(r) => NoDelivery(q)
           /\ Cancelled(r) => Cancelled(q)
           /\ Dropped(r) => Dropped(q)
<1>1. q.tasks \in Seq(TaskSet) /\ Range(q.tasks) \subseteq Range(r.tasks)
  BY DEF Runs, Runners
<1>2. Range(<<>>) = {}
  BY DEF Range
<1>3. Cancelled(r) => Cancelled(q)
  BY <1>1, <1>2, EmptyRange DEF Cancelled
<1> QED
  BY <1>3 DEF Runs, NoDelivery, Cancelled, Dropped

\* A call closes the session only when it is marked as closed.
May(kind, r) == kind = "close" => r.closed /\ r.pending = <<>>

Fits(kind, r, o) ==
    /\ o.kind = kind /\ o.at \in Awaits /\ o.gone \in Nat
    /\ Runs(r, o.runner)
    /\ kind = "close" => o.at # "ack" /\ (o.at = "none" => o.runner.turn = NoTurn)

\* What a call that found no runner did to the journal is over with the close.
Heals(r, q) ==
    \A m \in Saids : JournalInv(r, m) /\ m.turns \subseteq {NoTurn}
                         => JournalInv(q, [late |-> m.late, turns |-> {}])

Good(kind, r, o) ==
    /\ Fits(kind, r, o)
    /\ \A m \in Saids : JournalInv(r, m) => JournalInv(o.runner, m)
    /\ kind = "close" /\ o.at = "none" => Heals(r, o.runner)

\* Where a call that closes has come to.
ComesToClose(o) ==
    /\ o.at = "delivery" => NoDelivery(o.runner)
    /\ o.at = "writes" => Cancelled(o.runner)
    /\ o.at \in {"drop", "none"} => Dropped(o.runner)

LEMMA OutcomeFields ==
    ASSUME NEW kind, NEW r, NEW at, NEW gone, NEW o, o = Outcome(kind, r, at, gone)
    PROVE  o.kind = kind /\ o.runner = r /\ o.at = at /\ o.gone = gone
  BY DEF Outcome

LEMMA EndsFacts ==
    ASSUME NEW kind, NEW r \in Runners, May(kind, r), NEW o, o = Ends(kind, r)
    PROVE  /\ Good(kind, r, o) /\ o.at = "none" /\ Grows(r, o.runner)
           /\ kind = "close" /\ Dropped(r) => ComesToClose(o)
<1> DEFINE q == o.runner
<1>1. o.kind = kind /\ o.at = "none" /\ o.gone = NoClient /\ NoClient \in Nat /\ "none" \in Awaits
  BY OutcomeFields DEF Ends, NoClient, Awaits
<1>2. /\ kind = "reload" => q = r
      /\ kind = "close" => q = Settle(Abort([r EXCEPT !.interrupting = TRUE]))
      /\ kind \notin {"reload", "close"} => q = Abort(r)
  BY DEF Ends, Outcome
<1> HIDE DEF q
<1>3. /\ Grows(r, q)
      /\ \A m \in Saids : JournalInv(r, m) => JournalInv(q, m)
      /\ kind = "close" => q.turn = NoTurn /\ Heals(r, q)
  <2>1. CASE kind = "reload"
    <3>1. q = r /\ Inner(r, q)
      BY <1>2, <2>1 DEF Inner
    <3> QED
      BY <2>1, <3>1, InnerGrows
  <2>2. CASE kind = "close"
    <3> DEFINE p == [r EXCEPT !.interrupting = TRUE]
               a == Abort(p)
    <3>1. p \in Runners /\ Inner(r, p) /\ p.state = r.state /\ p.journal = r.journal
          /\ p.pending = <<>>
      BY <2>2 DEF Runners, Inner, May
    <3>2. q = Settle(a)
      BY <1>2, <2>2
    <3> HIDE DEF p
    <3>3. /\ Grows(p, a) /\ a \in Runners /\ a.turn = NoTurn
          /\ \A m \in Saids : JournalInv(p, m) => JournalInv(a, m)
      BY <3>1, AbortFacts DEF Grows
    <3> HIDE DEF a
    <3>4. /\ Inner(a, q) /\ q.state = a.state
          /\ \/ q.journal = a.journal /\ a.journal.state \in SettledStates
             \/ q.journal = [state |-> "finished", open |-> NoTurn]
      BY <3>2, <3>3, SettleFacts
    <3>5. Grows(r, q)
      BY <3>1, <3>3, <3>4, InnerThenGrows, GrowsThenInner
    <3>6. q.turn = NoTurn
      BY <3>3, <3>4 DEF Inner
    <3>7. ASSUME NEW m \in Saids, JournalInv(r, m) PROVE JournalInv(q, m)
      <4>1. JournalInv(p, m)
        BY <3>1, <3>7 DEF JournalInv, Inner
      <4>2. JournalInv(a, m)
        BY <3>3, <4>1
      <4>3. "finished" \in SettledStates
        BY DEF SettledStates
      <4> QED
        BY <3>3, <3>4, <3>6, <4>2, <4>3 DEF JournalInv
    <3>8. ASSUME NEW m \in Saids, JournalInv(r, m), m.turns \subseteq {NoTurn}
          PROVE  JournalInv(q, [late |-> m.late, turns |-> {}])
      <4>1. JournalInv(p, m)
        BY <3>1, <3>8 DEF JournalInv, Inner
      <4>2. JournalInv(a, m)
        BY <3>3, <4>1
      <4>3. "finished" \in SettledStates
        BY DEF SettledStates
      <4> QED
        BY <3>3, <3>4, <3>6, <3>8, <4>2, <4>3 DEF JournalInv
    <3> QED
      BY <3>5, <3>6, <3>7, <3>8 DEF Heals
  <2>3. CASE kind \notin {"reload", "close"}
    BY <1>2, <2>3, AbortFacts
  <2> QED
    BY <2>1, <2>2, <2>3
<1>4. Runs(r, q)
  BY <1>3, GrowsRuns
<1>5. ASSUME kind = "close", Dropped(r) PROVE Dropped(q)
  BY <1>4, <1>5, RunsKeepsThePhase DEF May
<1>6. Good(kind, r, o)
  BY <1>1, <1>3, <1>4 DEF Good, Fits, q
<1>7. kind = "close" /\ Dropped(r) => ComesToClose(o)
  BY <1>1, <1>5 DEF ComesToClose, q
<1> QED
  BY <1>1, <1>3, <1>6, <1>7 DEF q

LEMMA ThenDropFacts ==
    ASSUME NEW kind, NEW r \in Runners, May(kind, r), NEW o, o = ThenDrop(kind, r)
    PROVE  /\ Good(kind, r, o) /\ o.runner.client = NoClient
           /\ \/ o.at = "none" /\ Grows(r, o.runner)
              \/ /\ o.at = "drop" /\ r.client # NoClient /\ o.gone = r.client
                 /\ o.runner.tasks = r.tasks
           /\ kind = "close" /\ Cancelled(r) => ComesToClose(o)
<1>1. CASE r.client = NoClient
  <2>1. o = Ends(kind, r)
    BY <1>1 DEF ThenDrop
  <2>2. /\ Good(kind, r, o) /\ o.at = "none" /\ Grows(r, o.runner)
        /\ kind = "close" /\ Dropped(r) => ComesToClose(o)
    BY <2>1, EndsFacts
  <2> QED
    BY <1>1, <2>2 DEF Grows, Dropped, Cancelled
<1>2. CASE r.client # NoClient
  <2> DEFINE q == [r EXCEPT !.client = NoClient]
  <2>1. o = Outcome(kind, q, "drop", r.client)
    BY <1>2 DEF ThenDrop
  <2>2. o.kind = kind /\ o.runner = q /\ o.at = "drop" /\ o.gone = r.client
    BY <2>1, OutcomeFields
  <2>0. NoClient \in Nat
    BY DEF NoClient
  <2>3. /\ q \in Runners /\ q.client = NoClient
        /\ q.turn = r.turn /\ q.turns = r.turns /\ q.closed = r.closed
        /\ q.pending = r.pending /\ q.ops = r.ops /\ q.state = r.state /\ q.journal = r.journal
        /\ q.written = r.written /\ q.delivery = r.delivery
        /\ q.tasks = r.tasks /\ q.at = r.at /\ q.via = r.via /\ r.client \in Nat
    BY <2>0 DEF Runners
  <2> HIDE DEF q
  <2>4. Runs(r, q)
    BY <2>3 DEF Runs, AsWrite, Deliveries, OnTheWayIsNew
  <2>5. \A m \in Saids : JournalInv(r, m) => JournalInv(q, m)
    BY <2>3 DEF JournalInv
  <2>6. Good(kind, r, o)
    BY <2>2, <2>3, <2>4, <2>5 DEF Good, Fits, Awaits
  <2>7. Cancelled(r) => ComesToClose(o)
    BY <2>2, <2>3 DEF ComesToClose, Cancelled, Dropped
  <2> QED
    BY <1>2, <2>2, <2>3, <2>6, <2>7
<1> QED
  BY <1>1, <1>2

LEMMA AfterWritesFacts ==
    ASSUME NEW kind, NEW r \in Runners, May(kind, r), NEW o, o = AfterWrites(kind, r)
    PROVE  /\ Good(kind, r, o)
           /\ kind = "close" /\ Cancelled(r) => ComesToClose(o)
  BY EndsFacts, ThenDropFacts DEF AfterWrites

Cancelling == {"writes", "delivery"}
LeftOf(tasks, cancelled, left) == Range(left) \subseteq Range(tasks) \ cancelled

LEMMA WithoutOutcome ==
    ASSUME NEW kind, NEW r \in Runners, NEW cancelled, NEW at \in Cancelling,
           NEW o, o = Outcome(kind, Without(r, cancelled), at, NoClient)
    PROVE  /\ Good(kind, r, o) /\ o.at = at
           /\ LeftOf(r.tasks, cancelled, o.runner.tasks)
           /\ o.runner.tasks \in Seq(TaskSet)
<1> DEFINE q == Without(r, cancelled)
<1>1. o.kind = kind /\ o.runner = q /\ o.at = at /\ o.gone = NoClient
  BY OutcomeFields
<1>2. /\ Runs(r, q) /\ Range(q.tasks) \subseteq Range(r.tasks) \ cancelled
      /\ q.turn = r.turn /\ q.state = r.state /\ q.journal = r.journal
  BY WithoutFacts
<1> HIDE DEF q
<1>3. \A m \in Saids : JournalInv(r, m) => JournalInv(q, m)
  BY <1>2 DEF JournalInv
<1>4. NoClient \in Nat /\ at \in Awaits /\ at # "ack" /\ at # "none"
  BY DEF NoClient, Awaits, Cancelling
<1>5. q.tasks \in Seq(TaskSet)
  BY <1>2 DEF Runs, Runners
<1> QED
  BY <1>1, <1>2, <1>3, <1>4, <1>5 DEF Good, Fits, LeftOf

LEMMA ThenWritesFacts ==
    ASSUME NEW kind, NEW r \in Runners, May(kind, r), NEW o, o = ThenWrites(kind, r)
    PROVE  /\ Good(kind, r, o)
           /\ kind = "close" /\ NoDelivery(r) => ComesToClose(o)
<1>0. r.tasks \in Seq(TaskSet)
  BY DEF Runners
<1>1. ASSUME NEW t \in Range(r.tasks), NoDelivery(r) PROVE t \in Writes(r)
  <2>1. t \in TaskSet
    BY <1>0, RangeOfSeq
  <2> QED
    BY <1>1, <2>1 DEF NoDelivery, Deliveries, TaskSet, Writes, IsWrite
<1>2. CASE Writes(r) # {}
  <2> DEFINE gone == Writes(r)
  <2>0. "writes" \in Cancelling
    BY DEF Cancelling
  <2>1. o = Outcome(kind, Without(r, gone), "writes", NoClient)
    BY <1>2 DEF ThenWrites
  <2> HIDE DEF gone
  <2>2. /\ Good(kind, r, o) /\ o.at = "writes"
        /\ LeftOf(r.tasks, gone, o.runner.tasks)
        /\ o.runner.tasks \in Seq(TaskSet)
    BY <2>0, <2>1, WithoutOutcome
  <2>3. NoDelivery(r) => Cancelled(o.runner)
    BY <1>1, <2>2, EmptyRange DEF Cancelled, gone, LeftOf
  <2> QED
    BY <2>2, <2>3 DEF ComesToClose
<1>3. CASE Writes(r) = {}
  <2>1. o = AfterWrites(kind, r)
    BY <1>3 DEF ThenWrites
  <2>2. NoDelivery(r) => Cancelled(r)
    BY <1>0, <1>1, <1>3, EmptyRange DEF Cancelled
  <2> QED
    BY <2>1, <2>2, AfterWritesFacts
<1> QED
  BY <1>2, <1>3

LEMMA ThenDeliveryFacts ==
    ASSUME NEW kind, NEW r \in Runners, May(kind, r), NEW o, o = ThenDelivery(kind, r)
    PROVE  /\ Good(kind, r, o)
           /\ kind = "close" /\ LastDelivery(r) => ComesToClose(o)
<1>1. LastDelivery(r) => Deliveries(r) = Delivery(r)
  BY DEF LastDelivery, Deliveries, Delivery
<1>2. CASE Delivery(r) # {}
  <2> DEFINE gone == Delivery(r)
  <2>0. "delivery" \in Cancelling
    BY DEF Cancelling
  <2>1. o = Outcome(kind, Without(r, gone), "delivery", NoClient)
    BY <1>2 DEF ThenDelivery
  <2> HIDE DEF gone
  <2>2. /\ Good(kind, r, o) /\ o.at = "delivery"
        /\ LeftOf(r.tasks, gone, o.runner.tasks)
    BY <2>0, <2>1, WithoutOutcome
  <2>3. LastDelivery(r) => NoDelivery(o.runner)
    BY <1>1, <2>2 DEF NoDelivery, Deliveries, gone, LeftOf
  <2> QED
    BY <2>2, <2>3 DEF ComesToClose
<1>3. CASE Delivery(r) = {} /\ kind = "request" /\ r.client # NoClient
  <2>1. o = Outcome(kind, r, "ack", r.client)
    BY <1>3 DEF ThenDelivery
  <2>2. o.kind = kind /\ o.runner = r /\ o.at = "ack" /\ o.gone = r.client /\ r.client \in Nat
    BY <2>1, OutcomeFields DEF Runners
  <2>3. Runs(r, r)
    BY DEF Runs
  <2> QED
    BY <1>3, <2>2, <2>3 DEF Good, Fits, Awaits
<1>4. CASE Delivery(r) = {} /\ ~(kind = "request" /\ r.client # NoClient)
  <2>1. o = ThenWrites(kind, r)
    BY <1>4 DEF ThenDelivery
  <2> QED
    BY <1>1, <1>4, <2>1, ThenWritesFacts DEF NoDelivery
<1> QED
  BY <1>2, <1>3, <1>4

-----------------------------------------------------------------------------
(* What a step of the session keeps. *)

LEMMA RunsKeeps ==
    ASSUME NEW r \in Runners, NEW q, Runs(r, q), NEW n \in Nat,
           OneWay(r), OnTheWayIsNew(r), OldClients(r, n)
    PROVE  /\ OneWay(q) /\ OnTheWayIsNew(q) /\ OldClients(q, n)
           /\ LastDelivery(r) => LastDelivery(q)
<1>1. OneWay(q)
  BY DEF OneWay, Runs, AsDelivery
<1>2. OldClients(q, n)
  <2>1. r.client <= n /\ r.via <= n /\ \A o \in Ops : r.written[o] <= n
    BY DEF OldClients
  <2>2. /\ q.written = r.written /\ q.client \in {r.client, NoClient}
        /\ q.via \in {r.via, r.client, NoClient}
    BY DEF Runs
  <2>3. q.client <= n /\ q.via <= n
    BY <2>1, <2>2 DEF NoClient
  <2> QED
    BY <2>1, <2>2, <2>3 DEF OldClients
<1>3. LastDelivery(r) => LastDelivery(q)
  BY DEF LastDelivery, Runs
<1> QED
  BY <1>1, <1>2, <1>3 DEF Runs

LEMMA Moves ==
    ASSUME Inv, Runs(runner, runner'), JournalInv(runner', Said'), UNCHANGED jobs,
           session' \in SessionSet, OthersInv', agent' \in Agents, used' \in UsedSet,
           used'.clients = used.clients, used'.forgot = used.forgot
    PROVE  Inv'
<1>1. /\ runner \in Runners /\ used.clients \in Nat /\ runner' \in Runners
      /\ jobs \in [Jobs -> JobSet]
  BY DEF Inv, TypeOK, UsedSet, Runs
<1>2. /\ OneWay(runner') /\ OnTheWayIsNew(runner') /\ OldClients(runner', used'.clients)
      /\ LastDelivery(runner) => LastDelivery(runner')
  BY <1>1, RunsKeeps DEF Inv
<1>3. TypeOK'
  BY <1>1 DEF TypeOK
<1>4. CloseInv'
  <2>1. runner'.closed = runner.closed /\ (runner.pending = <<>> => runner'.pending = <<>>)
    BY DEF Runs
  <2>2. CloseInv
    BY DEF Inv
  <2>3. jobs[Close].kind = "over" => runner'.turn = NoTurn
    BY <2>2 DEF CloseInv, Runs
  <2>4. Phase(jobs[Close], runner) => Phase(jobs[Close], runner')
    <3>1. CASE jobs[Close].kind = "none"
      BY <3>1 DEF Phase
    <3>2. CASE jobs[Close].kind # "none"
      <4>1. runner.pending = <<>>
        BY <2>2, <3>2 DEF CloseInv
      <4> QED
        BY <4>1, RunsKeepsThePhase DEF Phase
    <3> QED
      BY <3>1, <3>2
  <2> QED
    BY <1>2, <2>1, <2>2, <2>3, <2>4 DEF CloseInv
<1> QED
  BY <1>2, <1>3, <1>4 DEF Inv

LEMMA SaidStays ==
    ASSUME UNCHANGED session, used'.late = used.late, jobs'[Close] = jobs[Close]
    PROVE  Said' = Said
  BY DEF Said, StrayTurns, Closing

\* A step that no other runner, and no call of a session that is being closed, has
\* a part in.
LEMMA Steps ==
    ASSUME Inv, Runs(runner, runner'), JournalInv(runner', Said), UNCHANGED <<jobs, session>>,
           agent' \in Agents, used' \in UsedSet, used'.late = used.late,
           used'.clients = used.clients, used'.forgot = used.forgot
    PROVE  Inv'
<1>1. Said' = Said
  BY SaidStays
<1>2. session' \in SessionSet /\ OthersInv'
  BY DEF Inv, TypeOK, OthersInv
<1> QED
  BY <1>1, <1>2, Moves

LEMMA NewAgentType == NewAgent \in Agents
  BY DEF NewAgent, Agents

LEMMA TaskType ==
    ASSUME NEW r \in Runners, r.tasks # <<>>
    PROVE  Head(r.tasks) \in TaskSet /\ Head(r.tasks) \in Range(r.tasks)
  BY TailRange DEF Runners

LEMMA ArrivesType ==
    ASSUME TypeOK, OnItsWay, Arrives
    PROVE  agent' \in Agents
<1> DEFINE o == Head(runner.tasks).op
<1>1. o \in Ops
  BY TaskType DEF TypeOK, OnItsWay, TaskSet
<1>2. agent' = [agent EXCEPT !.inbox = Append(@, o), !.got[o] = @ + 1]
  BY DEF Arrives
<1> HIDE DEF o
<1>3. agent \in Agents /\ agent.got \in [Ops -> Nat] /\ agent.inbox \in Seq(Ops)
  BY DEF TypeOK, Agents
<1>4. [agent.got EXCEPT ![o] = agent.got[o] + 1] \in [Ops -> Nat] /\ Append(agent.inbox, o) \in Seq(Ops)
  BY <1>1, <1>3
<1>5. agent' = [agent EXCEPT !.inbox = Append(agent.inbox, o),
                             !.got = [agent.got EXCEPT ![o] = agent.got[o] + 1]]
  BY <1>2
<1> QED
  BY <1>3, <1>4, <1>5 DEF Agents

LEMMA AgentAfterType ==
    ASSUME TypeOK, NEW r, AgentAfter(r)
    PROVE  agent' \in Agents
  BY NewAgentType, ArrivesType DEF AgentAfter, TypeOK

\* A call that goes on, or begins, other than the close itself.
LEMMA SaidType ==
    ASSUME TypeOK
    PROVE  Said \in Saids
<1>1. used.late \in BOOLEAN /\ StrayTurns \in SUBSET Nat
  BY DEF TypeOK, UsedSet, SessionSet, StrayTurns, NoTurn
<1> QED
  BY <1>1 DEF Said, Saids

LEMMA JobMoves ==
    ASSUME Inv, NEW j \in Jobs, NEW kind \in Kinds, NEW o, Fits(kind, runner, o), Become(j, o),
           kind = "close" <=> j = Close, kind = "close" => runner.closed,
           kind = "close" => used.forgot \/ ComesToClose(o),
           JournalInv(o.runner, Said'), session' \in SessionSet, OthersInv',
           used' \in UsedSet, used'.clients = used.clients, used'.forgot = used.forgot
    PROVE  Inv'
<1> DEFINE job == IF o.at = "none" THEN Returned
                  ELSE [kind |-> o.kind, at |-> o.at, gone |-> o.gone,
                        turn |-> IF jobs[j].at = "none" THEN runner.turn ELSE jobs[j].turn]
<1>1. /\ runner \in Runners /\ used.clients \in Nat /\ jobs \in [Jobs -> JobSet] /\ TypeOK
      /\ CloseInv
  BY DEF Inv, TypeOK, UsedSet
<1>2. runner' = o.runner /\ AgentAfter(o.runner) /\ jobs' = [jobs EXCEPT ![j] = job]
  BY DEF Become
<1>3. job \in JobSet
  <2>1. CASE o.at = "none"
    BY <2>1 DEF Returned, Unused, JobSet, Kinds, Awaits, NoClient, NoTurn
  <2>2. CASE o.at # "none"
    <3>1. runner.turn \in Nat /\ jobs[j].turn \in Nat
      BY <1>1 DEF Runners, JobSet
    <3>2. o.kind \in Kinds /\ o.at \in Awaits /\ o.gone \in Nat
      BY DEF Fits
    <3> QED
      BY <2>2, <3>1, <3>2 DEF JobSet
  <2> QED
    BY <2>1, <2>2
<1>4. /\ o.at = "none" => job.kind = "over" /\ job.at = "none"
      /\ o.at # "none" => job.kind = kind /\ job.at = o.at
  BY DEF Fits, Returned, Unused
<1> HIDE DEF job
<1>5. Runs(runner, runner') /\ runner' \in Runners /\ JournalInv(runner', Said')
  BY <1>1, <1>2 DEF Fits, Runs
<1>6. /\ OneWay(runner') /\ OnTheWayIsNew(runner') /\ OldClients(runner', used'.clients)
      /\ LastDelivery(runner) => LastDelivery(runner')
  BY <1>1, <1>5, RunsKeeps DEF Inv
<1>7. jobs' \in [Jobs -> JobSet] /\ jobs'[j] = job
  BY <1>1, <1>2, <1>3
<1>8. \A i \in Jobs : i # j => jobs'[i] = jobs[i]
  BY <1>1, <1>2
<1>9. TypeOK'
  BY <1>1, <1>2, <1>5, <1>7, AgentAfterType DEF TypeOK
<1>10. runner'.closed = runner.closed /\ (runner.pending = <<>> => runner'.pending = <<>>)
  BY <1>5 DEF Runs
<1>11. Close \in Jobs
  BY DEF Jobs, Calls
<1>12. CloseInv'
  <2>1. CASE j = Close
    <3>1. kind = "close" /\ runner.closed
      BY <2>1
    <3>2. o.at # "ack" /\ (o.at = "none" => o.runner.turn = NoTurn)
      BY <3>1 DEF Fits
    <3>3. \A i \in Jobs : jobs'[i].kind = "close" => i = Close
      BY <1>1, <1>8, <2>1 DEF CloseInv
    <3>4. used.forgot \/ LastDelivery(runner')
      BY <1>1, <1>6 DEF CloseInv
    <3>5. used.forgot \/ Phase(job, runner')
      BY <1>2, <1>4, <3>1 DEF Phase, ComesToClose
    <3> QED
      BY <1>1, <1>2, <1>4, <1>7, <1>10, <2>1, <3>1, <3>2, <3>3, <3>4, <3>5 DEF CloseInv
  <2>2. CASE j # Close
    <3>1. jobs'[Close] = jobs[Close]
      BY <1>8, <1>11, <2>2
    <3>2. \A i \in Jobs : jobs'[i].kind = "close" => i = Close
      BY <1>1, <1>4, <1>7, <1>8, <2>2 DEF CloseInv
    <3>3. jobs[Close].kind = "over" => runner'.turn = NoTurn
      BY <1>1, <1>5 DEF CloseInv, Runs
    <3>4. Phase(jobs[Close], runner) => Phase(jobs[Close], runner')
      <4>1. CASE jobs[Close].kind = "none"
        BY <4>1 DEF Phase
      <4>2. CASE jobs[Close].kind # "none"
        <5>1. runner.pending = <<>>
          BY <1>1, <4>2 DEF CloseInv
        <5> QED
          BY <1>5, <5>1, RunsKeepsThePhase DEF Phase
      <4> QED
        BY <4>1, <4>2
    <3> QED
      BY <1>1, <1>6, <1>10, <3>1, <3>2, <3>3, <3>4 DEF CloseInv
  <2> QED
    BY <2>1, <2>2
<1> QED
  BY <1>5, <1>6, <1>9, <1>12 DEF Inv

\* Where the calls that wait for a closing runner have no part.
LEMMA JobSteps ==
    ASSUME Inv, NEW j \in Jobs, NEW kind \in Kinds, NEW o, Good(kind, runner, o), Become(j, o),
           kind = "close" <=> j = Close, kind = "close" => runner.closed /\ Closing,
           kind = "close" => used.forgot \/ ComesToClose(o), UNCHANGED session,
           used' \in UsedSet, used'.late = used.late,
           used'.clients = used.clients, used'.forgot = used.forgot
    PROVE  Inv'
<1>1. /\ jobs \in [Jobs -> JobSet] /\ Close \in Jobs /\ session' \in SessionSet /\ OthersInv'
      /\ JournalInv(runner, Said) /\ Said \in Saids
  BY SaidType DEF Inv, TypeOK, OthersInv, Jobs, Calls
<1>2. JournalInv(o.runner, Said)
  BY <1>1 DEF Good
<1>3. JournalInv(o.runner, Said')
  <2>1. CASE j # Close
    <3>1. jobs'[Close] = jobs[Close]
      BY <1>1, <2>1 DEF Become
    <3> QED
      BY <1>2, <3>1, SaidStays
  <2>2. CASE j = Close /\ (o.at # "none" \/ session.crossed)
    <3>1. Closing /\ (o.at # "none" => Closing')
      BY <1>1, <2>2 DEF Become, Closing
    <3>2. Said' = Said
      BY <2>2, <3>1 DEF Said, StrayTurns
    <3> QED
      BY <1>2, <3>2
  <2>3. CASE j = Close /\ o.at = "none" /\ ~session.crossed
    <3>1. ~Closing'
      BY <1>1, <2>3 DEF Become, Closing, Returned, Unused
    <3>2. Said.turns \subseteq {NoTurn} /\ Said.late = used.late
          /\ Said' = [late |-> used.late, turns |-> {}]
      BY <2>3, <3>1 DEF Said, StrayTurns
    <3>3. Heals(runner, o.runner)
      BY <2>3 DEF Good
    <3> QED
      BY <1>1, <3>2, <3>3 DEF Heals
  <2> QED
    BY <2>1, <2>2, <2>3
<1> QED
  BY <1>1, <1>3, JobMoves DEF Good

LEMMA GoodAfter ==
    ASSUME NEW kind, NEW r, NEW p, NEW o, Runs(r, p), Good(kind, p, o),
           \A m \in Saids : JournalInv(r, m) => JournalInv(p, m)
    PROVE  Good(kind, r, o)
  BY RunsOn DEF Good, Fits, Heals

LEMMA InnerRuns ==
    ASSUME NEW r \in Runners, NEW q, Inner(r, q)
    PROVE  Runs(r, q)
  BY InnerGrows, GrowsRuns

LEMMA InvFacts ==
    ASSUME Inv
    PROVE  /\ runner \in Runners /\ agent \in Agents /\ jobs \in [Jobs -> JobSet]
           /\ used \in UsedSet /\ used.clients \in Nat /\ used.late \in BOOLEAN
           /\ session \in SessionSet /\ OthersInv /\ Said \in Saids /\ Said.late = used.late
           /\ JournalInv(runner, Said) /\ CloseInv /\ TypeOK
  BY SaidType DEF Inv, TypeOK, UsedSet, Said

LEMMA Named ==
    /\ Close \in Jobs /\ Reload \in Jobs /\ Reload # Close
    /\ \A s \in Stops : s \in Jobs /\ s # Close
    /\ \A c \in Clients : c \in Jobs /\ c # Close
  BY NamesAssumption DEF Jobs, Calls

-----------------------------------------------------------------------------
(* The calls of the user. *)

LEMMA InitInv ==
    ASSUME Init
    PROVE  Inv
<1>1. runner \in Runners
  <2>1. <<>> \in Seq(Ops) /\ <<>> \in Seq(TaskSet) /\ NoTurn \in Nat /\ NoClient \in Nat
    BY DEF NoTurn, NoClient
  <2>2. [state |-> "idle", open |-> NoTurn] \in JournalSet
    BY <2>1 DEF JournalSet, States
  <2>3. /\ [o \in Ops |-> "unsent"] \in [Ops -> OpStates]
        /\ [o \in Ops |-> NoClient] \in [Ops -> Nat]
        /\ [c \in Clients |-> "none"] \in [Clients -> AskStates]
    BY <2>1 DEF OpStates, AskStates
  <2> QED
    BY <2>1, <2>2, <2>3 DEF Init, Runners, States
<1>2. agent \in Agents
  BY NewAgentType DEF Init
<1>3. Unused \in JobSet
  BY DEF Unused, JobSet, Kinds, Awaits, NoClient, NoTurn
<1>4. jobs \in [Jobs -> JobSet] /\ \A j \in Jobs : jobs[j].kind = "none" /\ jobs[j].at = "none"
  BY <1>3 DEF Init, Unused
<1>5. used \in UsedSet
  BY DEF Init, UsedSet
<1>6. JournalInv(runner, Said)
  BY DEF Init, JournalInv, SettledStates
<1>s. session \in SessionSet /\ OthersInv
  BY DEF Init, SessionSet, OthersInv
<1>7. Range(<<>>) = {}
  BY DEF Range
<1>8. /\ runner.tasks = <<>> /\ runner.pending = <<>> /\ runner.at = "lock"
      /\ runner.client = NoClient /\ runner.via = NoClient
      /\ \A o \in Ops : runner.written[o] = NoClient
      /\ runner.closed = FALSE /\ runner.turn = NoTurn /\ used.clients = 0
  BY DEF Init
<1>9. OneWay(runner) /\ OnTheWayIsNew(runner) /\ OldClients(runner, used.clients)
  BY <1>7, <1>8 DEF OneWay, AsWrite, AsDelivery, Deliveries, OnTheWayIsNew, OldClients, NoClient
<1>10. LastDelivery(runner)
  BY <1>7, <1>8 DEF LastDelivery, Deliveries
<1>11. CloseInv
  BY <1>4, <1>8, <1>10, Named DEF CloseInv, Phase
<1> QED
  BY <1>1, <1>2, <1>4, <1>5, <1>6, <1>s, <1>9, <1>11 DEF Inv, TypeOK

LEMMA AnswerInv ==
    ASSUME Inv, NEW c \in Clients, Answer(c)
    PROVE  Inv'
<1>1. runner' = [runner EXCEPT !.asks = [runner.asks EXCEPT ![c] = "resolved"]]
  BY DEF Answer
<1>2. [runner.asks EXCEPT ![c] = "resolved"] \in [Clients -> AskStates]
  BY InvFacts DEF Runners, AskStates
<1>3. Inner(runner, runner') /\ runner'.state = runner.state /\ runner'.journal = runner.journal
  BY <1>1, <1>2, InvFacts DEF Inner, Runners
<1>4. JournalInv(runner', Said)
  BY <1>3, InvFacts DEF JournalInv, Inner
<1> QED
  BY <1>3, <1>4, InvFacts, InnerRuns, Steps DEF Answer

LEMMA InterruptInv ==
    ASSUME Inv, NEW s \in Stops, Interrupt(s)
    PROVE  Inv'
<1>1. CASE runner.turn = NoTurn
  <2> DEFINE q == Settle(runner)
             o == Outcome("idle", q, "none", NoClient)
  <2>1. Become(s, o)
    BY <1>1 DEF Interrupt
  <2>2. o.kind = "idle" /\ o.runner = q /\ o.at = "none" /\ o.gone = NoClient
    BY OutcomeFields
  <2>3. /\ Inner(runner, q) /\ q.state = runner.state
        /\ \/ q.journal = runner.journal /\ runner.journal.state \in SettledStates
           \/ q.journal = [state |-> "finished", open |-> NoTurn]
    BY InvFacts, SettleFacts
  <2> HIDE DEF q, o
  <2>4. \A m \in Saids : JournalInv(runner, m) => JournalInv(q, m)
    BY <1>1, <2>3 DEF JournalInv, Inner, SettledStates
  <2>5. Good("idle", runner, o)
    BY <2>2, <2>3, <2>4, InvFacts, InnerRuns DEF Good, Fits, Awaits, NoClient
  <2>6. "idle" \in Kinds
    BY DEF Kinds
  <2> QED
    BY <2>1, <2>5, <2>6, InvFacts, Named, JobSteps DEF Interrupt
<1>2. CASE runner.turn # NoTurn /\ runner.interrupting
  <2> DEFINE p == Resolve(runner)
             o == ThenDelivery("force", p)
  <2>1. Become(s, o)
    BY <1>2 DEF Interrupt
  <2>2. Inner(runner, p) /\ p.state = runner.state /\ p.journal = runner.journal /\ p \in Runners
    BY InvFacts, ResolveFacts DEF Inner
  <2> HIDE DEF p
  <2>3. Good("force", p, o)
    BY <2>2, ThenDeliveryFacts DEF May
  <2> HIDE DEF o
  <2>4. \A m \in Saids : JournalInv(runner, m) => JournalInv(p, m)
    BY <2>2 DEF JournalInv, Inner
  <2>5. Good("force", runner, o)
    BY <2>2, <2>3, <2>4, InvFacts, InnerRuns, GoodAfter
  <2>6. "force" \in Kinds
    BY DEF Kinds
  <2> QED
    BY <2>1, <2>5, <2>6, InvFacts, Named, JobSteps DEF Interrupt
<1>3. CASE runner.turn # NoTurn /\ ~runner.interrupting
  <2> DEFINE i == [runner EXCEPT !.interrupting = TRUE]
             h == Shown(i, "interrupting")
             p == Resolve(h)
             o == ThenDelivery("request", p)
  <2>1. Become(s, o)
    BY <1>3 DEF Interrupt
  <2>2. i \in Runners /\ Inner(runner, i) /\ i.state = runner.state /\ i.journal = runner.journal
    BY InvFacts DEF Runners, Inner
  <2> HIDE DEF i
  <2>3. "interrupting" \in States
    BY DEF States
  <2>4. /\ Inner(i, h) /\ h.journal.open = i.journal.open /\ h \in Runners
        /\ \/ h.state = i.state /\ h.journal = i.journal
           \/ h.state = "interrupting" /\ h.journal.state = "interrupting"
    BY <2>2, <2>3, ShownFacts DEF Inner
  <2> HIDE DEF h
  <2>5. Inner(h, p) /\ p.state = h.state /\ p.journal = h.journal
    BY <2>4, ResolveFacts
  <2> HIDE DEF p
  <2>6. Inner(runner, p) /\ p \in Runners
    BY <2>2, <2>4, <2>5 DEF Inner
  <2>7. Good("request", p, o)
    BY <2>6, ThenDeliveryFacts DEF May
  <2> HIDE DEF o
  <2>8. \A m \in Saids : JournalInv(runner, m) => JournalInv(p, m)
    BY <1>3, <2>2, <2>4, <2>5, <2>6 DEF JournalInv, Inner, SettledStates
  <2>9. Good("request", runner, o)
    BY <2>6, <2>7, <2>8, InvFacts, InnerRuns, GoodAfter
  <2>10. "request" \in Kinds
    BY DEF Kinds
  <2> QED
    BY <2>1, <2>9, <2>10, InvFacts, Named, JobSteps DEF Interrupt
<1> QED
  BY <1>1, <1>2, <1>3

LEMMA ReloadInv ==
    ASSUME Inv, ReloadSettings
    PROVE  Inv'
<1> DEFINE o == ThenDrop("reload", runner)
<1>1. Become(Reload, o) /\ UNCHANGED session
  BY DEF ReloadSettings
<1>2. Good("reload", runner, o)
  BY InvFacts, ThenDropFacts DEF May
<1> HIDE DEF o
<1>3. "reload" \in Kinds
  BY DEF Kinds
<1>4. used' = [used EXCEPT !.events = used.events + 1]
  BY DEF ReloadSettings, Happens
<1>5. used' \in UsedSet /\ used'.late = used.late
      /\ used'.clients = used.clients /\ used'.forgot = used.forgot
  BY <1>4, InvFacts DEF UsedSet
<1> QED
  BY <1>1, <1>2, <1>3, <1>5, Named, JobSteps

LEMMA CloseSessionInv ==
    ASSUME Inv, CloseSession
    PROVE  Inv'
<1> DEFINE ops == [o \in Ops |-> IF runner.ops[o] = "queued" THEN "dropped" ELSE runner.ops[o]]
           p == [runner EXCEPT !.closed = TRUE, !.pending = <<>>, !.ops = ops]
           q == Resolve(p)
           o == Outcome("close", q, "sleep", NoClient)
<1>1. Become(Close, o) /\ jobs[Close].kind = "none" /\ UNCHANGED <<session, used>>
  BY DEF CloseSession, HasRunner, Held
<1>2. o.kind = "close" /\ o.runner = q /\ o.at = "sleep" /\ o.gone = NoClient
  BY OutcomeFields
<1> HIDE DEF o
<1>3. runner.ops \in [Ops -> OpStates] /\ <<>> \in Seq(Ops) /\ runner \in Runners
  BY InvFacts DEF Runners
<1>4. ops \in [Ops -> OpStates] /\ \A x \in Ops : ops[x] = "unsent" => runner.ops[x] = "unsent"
  BY <1>3 DEF OpStates
<1> HIDE DEF ops
<1>5. /\ p \in Runners /\ p.turn = runner.turn /\ p.state = runner.state
      /\ p.journal = runner.journal /\ p.closed = TRUE /\ p.pending = <<>> /\ p.ops = ops
      /\ p.client = runner.client /\ p.written = runner.written
      /\ p.tasks = runner.tasks /\ p.at = runner.at /\ p.via = runner.via
      /\ p.delivery = runner.delivery
  BY <1>3, <1>4 DEF Runners
<1> HIDE DEF p
<1>6. Inner(p, q) /\ q.state = p.state /\ q.journal = p.journal
  BY <1>5, ResolveFacts
<1> HIDE DEF q
<1>7. runner' = q /\ AgentAfter(q)
  BY <1>1, <1>2 DEF Become
<1>8. /\ runner' \in Runners /\ runner'.turn = runner.turn /\ runner'.state = runner.state
      /\ runner'.journal = runner.journal /\ runner'.closed = TRUE /\ runner'.pending = <<>>
      /\ runner'.ops = ops
      /\ runner'.client = runner.client /\ runner'.written = runner.written
      /\ runner'.tasks = runner.tasks /\ runner'.at = runner.at /\ runner'.via = runner.via
      /\ runner'.delivery = runner.delivery
  BY <1>5, <1>6, <1>7 DEF Inner
<1> DEFINE job == [kind |-> "close", at |-> "sleep", gone |-> NoClient,
                   turn |-> IF jobs[Close].at = "none" THEN runner.turn ELSE jobs[Close].turn]
<1>9. jobs' = [jobs EXCEPT ![Close] = job]
  BY <1>1, <1>2 DEF Become
<1>10. job \in JobSet /\ job.kind = "close" /\ job.at = "sleep"
  <2>1. runner.turn \in Nat /\ jobs[Close].turn \in Nat /\ NoClient \in Nat
    BY InvFacts, Named DEF Runners, JobSet, NoClient
  <2> QED
    BY <2>1 DEF JobSet, Kinds, Awaits
<1> HIDE DEF job
<1>11. jobs' \in [Jobs -> JobSet] /\ jobs'[Close] = job /\ \A j \in Jobs : j # Close => jobs'[j] = jobs[j]
  BY <1>9, <1>10, InvFacts, Named
<1>12. TypeOK'
  BY <1>1, <1>7, <1>8, <1>11, InvFacts, AgentAfterType DEF TypeOK
<1>13. JournalInv(runner', Said') /\ OthersInv'
  <2>1. JournalInv(runner', Said)
    BY <1>8, InvFacts DEF JournalInv
  <2>2. ~Closing
    BY <1>1, InvFacts DEF CloseInv, Closing
  <2>3. Said'.late = Said.late /\ Said.turns \subseteq Said'.turns
    BY <1>1, <2>2 DEF Said, StrayTurns
  <2>4. Said \in Saids /\ Said' \in Saids
    <3>1. used'.late \in BOOLEAN /\ StrayTurns' \in SUBSET Nat
      BY <1>12 DEF TypeOK, UsedSet, SessionSet, StrayTurns, NoTurn
    <3>2. Said' \in Saids
      BY <3>1 DEF Said, Saids
    <3> QED
      BY <3>2, SaidType, InvFacts
  <2> QED
    BY <1>1, <2>1, <2>3, <2>4, JournalLoosens, InvFacts DEF OthersInv
<1>14. Range(<<>>) = {}
  BY DEF Range
<1>15. \A x \in Ops : /\ AsWrite(runner', x) => AsWrite(runner, x)
                      /\ AsDelivery(runner', x) <=> AsDelivery(runner, x)
  BY <1>8, <1>14 DEF AsWrite, AsDelivery, Deliveries
<1>16. OneWay(runner')
  BY <1>4, <1>8, <1>15 DEF Inv, OneWay
<1>17. OnTheWayIsNew(runner') /\ OldClients(runner', used'.clients)
  BY <1>1, <1>8 DEF Inv, OnTheWayIsNew, OldClients
<1>18. used.forgot \/ LastDelivery(runner')
  BY <1>8, InvFacts DEF CloseInv, LastDelivery, Deliveries
<1>19. \A j \in Jobs : jobs'[j].kind = "close" => j = Close
  BY <1>11, InvFacts DEF CloseInv
<1>20. CloseInv'
  BY <1>1, <1>8, <1>10, <1>11, <1>18, <1>19 DEF CloseInv, Phase
<1> QED
  BY <1>12, <1>13, <1>16, <1>17, <1>20 DEF Inv

LEMMA AppendRange ==
    ASSUME NEW S, NEW s \in Seq(S), NEW x \in S
    PROVE  /\ Append(s, x) \in Seq(S) /\ Append(s, x) # <<>>
           /\ Range(Append(s, x)) = Range(s) \cup {x}
           /\ s # <<>> => Head(Append(s, x)) = Head(s)
<1>1. /\ Append(s, x) \in Seq(S) /\ Len(Append(s, x)) = Len(s) + 1 /\ Len(s) \in Nat
      /\ \A i \in 1 .. Len(s) : Append(s, x)[i] = s[i]
      /\ Append(s, x)[Len(s) + 1] = x
  OBVIOUS
<1>2. DOMAIN Append(s, x) = 1 .. Len(s) + 1 /\ DOMAIN s = 1 .. Len(s)
  BY <1>1
<1>3. Range(Append(s, x)) = Range(s) \cup {x}
  <2>1. ASSUME NEW y \in Range(Append(s, x)) PROVE y \in Range(s) \cup {x}
    <3>1. PICK i \in 1 .. Len(s) + 1 : y = Append(s, x)[i]
      BY <1>2 DEF Range
    <3> QED
      BY <1>1, <1>2, <3>1 DEF Range
  <2>2. ASSUME NEW y \in Range(s) PROVE y \in Range(Append(s, x))
    <3>1. PICK i \in 1 .. Len(s) : y = s[i]
      BY <1>2 DEF Range
    <3>2. i \in DOMAIN Append(s, x) /\ Append(s, x)[i] = y
      BY <1>1, <1>2, <3>1
    <3> QED
      BY <3>2 DEF Range
  <2>3. x \in Range(Append(s, x))
    <3>1. Len(s) + 1 \in DOMAIN Append(s, x)
      BY <1>1, <1>2
    <3> QED
      BY <1>1, <3>1 DEF Range
  <2> QED
    BY <2>1, <2>2, <2>3
<1>4. s # <<>> => Head(Append(s, x)) = Head(s)
  BY <1>1
<1>5. Append(s, x) # <<>>
  BY <1>1
<1> QED
  BY <1>1, <1>3, <1>4, <1>5

\* A message that begins a turn.
LEMMA BeginTurnInv ==
    ASSUME Inv, NEW o \in Ops, Send(o), runner.turn = NoTurn
    PROVE  Inv'
<1> DEFINE r0 == [runner EXCEPT !.ops = [runner.ops EXCEPT ![o] = "turn"]]
           r == OpenTurn(r0)
           task == DeliverTask(o, r.turn)
<1>1. /\ jobs[Close].kind = "none" /\ runner.ops[o] = "unsent"
      /\ runner' = [r EXCEPT !.tasks = Append(r.tasks, task), !.delivery = r.turn]
      /\ used' = [used EXCEPT !.forgot = used.forgot \/ Delivery(runner) # {}]
      /\ UNCHANGED <<agent, jobs, session>>
  BY DEF Send, Held
<1>2. runner.ops \in [Ops -> OpStates] /\ [runner.ops EXCEPT ![o] = "turn"] \in [Ops -> OpStates]
  BY InvFacts DEF Runners, OpStates
<1>3. /\ r0 \in Runners /\ r0.state = runner.state /\ r0.closed = runner.closed
      /\ r0.pending = runner.pending /\ r0.ops = [runner.ops EXCEPT ![o] = "turn"]
      /\ r0.client = runner.client /\ r0.written = runner.written
      /\ r0.tasks = runner.tasks /\ r0.at = runner.at /\ r0.via = runner.via
  BY <1>2, InvFacts DEF Runners
<1> HIDE DEF r0
<1>4. /\ r \in Runners /\ r.turn \in Nat /\ r.closed = runner.closed
      /\ r.pending = runner.pending /\ r.ops = [runner.ops EXCEPT ![o] = "turn"]
      /\ r.client = runner.client /\ r.written = runner.written
      /\ r.tasks = runner.tasks /\ r.at = runner.at /\ r.via = runner.via
      /\ r.turn # NoTurn
  <2>1. /\ r \in Runners /\ r.turn # NoTurn /\ r.closed = r0.closed
        /\ r.pending = r0.pending /\ r.ops = r0.ops
        /\ r.client = r0.client /\ r.written = r0.written
        /\ r.tasks = r0.tasks /\ r.at = r0.at /\ r.via = r0.via
    BY <1>3, OpenTurnFacts
  <2> HIDE DEF r
  <2>2. r.turn \in Nat
    BY <2>1 DEF Runners
  <2> QED
    BY <1>3, <2>1, <2>2
<1>5. JournalInv(r, Said)
  <2>1. Said.late \/ r0.state = "idle"
    BY <1>3, InvFacts DEF JournalInv
  <2> QED
    BY <1>3, <2>1, InvFacts, OpenTurnJournal
<1> HIDE DEF r
<1>6. task \in TaskSet /\ task.kind = "deliver" /\ task.op = o /\ task.turn = r.turn
  BY <1>4 DEF DeliverTask, TaskSet
<1> HIDE DEF task
<1>7. /\ Append(r.tasks, task) \in Seq(TaskSet) /\ Append(r.tasks, task) # <<>>
      /\ Range(Append(r.tasks, task)) = Range(runner.tasks) \cup {task}
      /\ r.tasks # <<>> => Head(Append(r.tasks, task)) = Head(r.tasks)
  <2>1. r.tasks \in Seq(TaskSet)
    BY <1>4 DEF Runners
  <2> QED
    BY <1>4, <1>6, <2>1, AppendRange
<1>8. /\ runner' \in Runners /\ runner'.turn = r.turn /\ runner'.state = r.state
      /\ runner'.journal = r.journal /\ runner'.closed = runner.closed
      /\ runner'.pending = runner.pending /\ runner'.ops = [runner.ops EXCEPT ![o] = "turn"]
      /\ runner'.client = runner.client /\ runner'.written = runner.written
      /\ runner'.tasks = Append(r.tasks, task) /\ runner'.at = runner.at
      /\ runner'.via = runner.via /\ runner'.delivery = r.turn
  BY <1>1, <1>4, <1>7 DEF Runners
<1>9. /\ used' \in UsedSet /\ used'.late = used.late /\ used'.clients = used.clients
      /\ used'.forgot = (used.forgot \/ Delivery(runner) # {})
  BY <1>1, InvFacts DEF UsedSet
<1>10. TypeOK'
  BY <1>1, <1>8, <1>9, InvFacts DEF TypeOK
<1>11. JournalInv(runner', Said') /\ OthersInv'
  <2>1. Said' = Said
    BY <1>1, <1>9, SaidStays
  <2> QED
    BY <1>1, <1>5, <1>8, <2>1, InvFacts DEF JournalInv, OthersInv
<1>12. ASSUME NEW x \in Ops
       PROVE  /\ AsWrite(runner', x) => AsWrite(runner, x)
              /\ x # o /\ AsDelivery(runner', x) => AsDelivery(runner, x)
              /\ x # o => runner'.ops[x] = runner.ops[x]
  BY <1>2, <1>6, <1>7, <1>8 DEF AsWrite, AsDelivery, Deliveries
<1>13. runner'.ops[o] = "turn"
  BY <1>2, <1>8
<1>14. OneWay(runner')
  BY <1>1, <1>12, <1>13 DEF OneWay, Inv
<1>15. OnTheWayIsNew(runner')
  BY <1>4, <1>7, <1>8 DEF OnTheWayIsNew, Inv
<1>16. OldClients(runner', used'.clients)
  BY <1>8, <1>9 DEF OldClients, Inv
<1>17. ASSUME ~used'.forgot PROVE LastDelivery(runner')
  <2>1. LastDelivery(runner) /\ Delivery(runner) = {}
    BY <1>9, <1>17, InvFacts DEF CloseInv
  <2>2. Deliveries(runner) = {}
    BY <2>1 DEF LastDelivery, Deliveries, Delivery
  <2> QED
    BY <1>6, <1>7, <1>8, <2>2 DEF LastDelivery, Deliveries
<1>18. CloseInv'
  BY <1>1, <1>8, <1>17, InvFacts DEF CloseInv, Phase
<1> QED
  BY <1>10, <1>11, <1>14, <1>15, <1>16, <1>18 DEF Inv

\* A message for the turn that runs.
LEMMA QueueInv ==
    ASSUME Inv, NEW o \in Ops, Send(o), runner.turn # NoTurn
    PROVE  Inv'
<1> DEFINE p == [runner EXCEPT !.pending = Append(runner.pending, o),
                               !.ops = [runner.ops EXCEPT ![o] = "queued"]]
           one == <<o>>
           q == ScheduleWrites(p, one)
<1>1. /\ jobs[Close].kind = "none" /\ runner.ops[o] = "unsent"
      /\ runner' = q
      /\ used' = [used EXCEPT !.forgot =
                     used.forgot \/ (runner.turn = NoTurn /\ Delivery(runner) # {})]
      /\ UNCHANGED <<agent, jobs, session>>
  BY DEF Send, Held
<1>2. /\ runner.ops \in [Ops -> OpStates]
      /\ [runner.ops EXCEPT ![o] = "queued"] \in [Ops -> OpStates]
      /\ runner.pending \in Seq(Ops) /\ Append(runner.pending, o) \in Seq(Ops)
      /\ runner.tasks \in Seq(TaskSet)
  BY InvFacts DEF Runners, OpStates
<1>3. Range(Append(runner.pending, o)) = Range(runner.pending) \cup {o}
  BY <1>2, AppendRange
<1>4. /\ p \in Runners /\ p.turn = runner.turn /\ p.state = runner.state /\ p.journal = runner.journal
      /\ p.closed = runner.closed /\ p.pending = Append(runner.pending, o)
      /\ p.ops = [runner.ops EXCEPT ![o] = "queued"]
      /\ p.client = runner.client /\ p.written = runner.written
      /\ p.tasks = runner.tasks /\ p.at = runner.at /\ p.via = runner.via
      /\ p.delivery = runner.delivery
  BY <1>2, InvFacts DEF Runners
<1> HIDE DEF p
<1>5. one \in Seq(Ops) /\ Range(one) = {o} /\ one # <<>>
  BY DEF Range
<1>q. q = ScheduleWrites(p, one)
  OBVIOUS
<1> HIDE DEF one, q
<1>6. /\ \E s \in Seq(TaskSet) :
            /\ q = [p EXCEPT !.tasks = p.tasks \o s]
            /\ \A t \in Range(s) : t.kind = "write" /\ t.op \in Range(one)
            /\ one = <<>> => s = <<>>
      /\ q.tasks \in Seq(TaskSet)
  <2>1. p \in Runners /\ one \in Seq(Ops)
    BY <1>4, <1>5
  <2> QED
    BY <1>q, <2>1, WritesScheduled
<1>7. PICK s \in Seq(TaskSet) :
            /\ q = [p EXCEPT !.tasks = p.tasks \o s]
            /\ \A t \in Range(s) : t.kind = "write" /\ t.op \in Range(one)
  BY <1>6
<1>a. /\ q \in Runners /\ q.turn = runner.turn /\ q.state = runner.state
      /\ q.journal = runner.journal /\ q.closed = runner.closed
      /\ q.pending = Append(runner.pending, o)
      /\ q.ops = [runner.ops EXCEPT ![o] = "queued"]
      /\ q.client = runner.client /\ q.written = runner.written
      /\ q.tasks = runner.tasks \o s /\ q.at = runner.at
      /\ q.via = runner.via /\ q.delivery = runner.delivery
  BY <1>4, <1>6, <1>7 DEF Runners
<1>8. /\ runner' \in Runners /\ runner'.turn = runner.turn /\ runner'.state = runner.state
      /\ runner'.journal = runner.journal /\ runner'.closed = runner.closed
      /\ runner'.pending = Append(runner.pending, o)
      /\ runner'.ops = [runner.ops EXCEPT ![o] = "queued"]
      /\ runner'.client = runner.client /\ runner'.written = runner.written
      /\ runner'.tasks = runner.tasks \o s /\ runner'.at = runner.at
      /\ runner'.via = runner.via /\ runner'.delivery = runner.delivery
  BY <1>1, <1>a
<1>9. Range(runner'.tasks) = Range(runner.tasks) \cup Range(s)
  BY <1>2, <1>8, RangeConcatenation
<1>10. \A t \in Range(s) : t.kind = "write" /\ t.op = o
  BY <1>5, <1>7
<1>11. /\ used' \in UsedSet /\ used'.late = used.late /\ used'.clients = used.clients
       /\ used'.forgot = used.forgot
  <2>1. used.forgot \in BOOLEAN
    BY InvFacts DEF UsedSet
  <2>2. used' = [used EXCEPT !.forgot = used.forgot]
    BY <1>1, <2>1
  <2> QED
    BY <2>2, InvFacts DEF UsedSet
<1>12. TypeOK'
  BY <1>1, <1>8, <1>11, InvFacts DEF TypeOK
<1>13. JournalInv(runner', Said') /\ OthersInv'
  <2>1. Said' = Said
    BY <1>1, <1>11, SaidStays
  <2> QED
    BY <1>1, <1>8, <2>1, InvFacts DEF JournalInv, OthersInv
<1>14. Deliveries(runner') = Deliveries(runner)
  BY <1>9, <1>10 DEF Deliveries
<1>15. ASSUME NEW x \in Ops, x # o
       PROVE  /\ AsWrite(runner', x) => AsWrite(runner, x)
              /\ runner'.ops[x] = runner.ops[x]
  BY <1>2, <1>3, <1>8, <1>9, <1>10, <1>15 DEF AsWrite
<1>16. runner'.ops[o] = "queued"
  BY <1>2, <1>8
<1>17. OneWay(runner')
  BY <1>1, <1>14, <1>15, <1>16 DEF OneWay, Inv, AsDelivery
<1>18. OnTheWayIsNew(runner')
  <2>1. CASE runner.tasks = <<>>
    BY <1>8, <2>1 DEF OnTheWayIsNew, Inv
  <2>2. CASE runner.tasks # <<>>
    <3>1. runner'.tasks # <<>> /\ Head(runner'.tasks) = Head(runner.tasks)
      BY <1>2, <1>8, <2>2
    <3> QED
      BY <1>8, <2>2, <3>1 DEF OnTheWayIsNew, Inv
  <2> QED
    BY <2>1, <2>2
<1>19. OldClients(runner', used'.clients)
  BY <1>8, <1>11 DEF OldClients, Inv
<1>20. used.forgot \/ LastDelivery(runner')
  BY <1>8, <1>14, InvFacts DEF LastDelivery, CloseInv
<1>21. CloseInv'
  BY <1>1, <1>8, <1>11, <1>20, InvFacts DEF CloseInv, Phase
<1> QED
  BY <1>12, <1>13, <1>17, <1>18, <1>19, <1>21 DEF Inv

-----------------------------------------------------------------------------
(* Suspended calls. *)

LEMMA JobFacts ==
    ASSUME Inv, NEW j \in Jobs, jobs[j].at # "none"
    PROVE  /\ jobs[j].kind \in Kinds
           /\ jobs[j].kind = "close" <=> j = Close
           /\ jobs[j].kind = "close" => May("close", runner) /\ runner.closed /\ Closing
  BY InvFacts DEF CloseInv, May, JobSet, Closing

LEMMA ClosePhase ==
    ASSUME Inv
    PROVE  \/ used.forgot
           \/ /\ LastDelivery(runner)
              /\ jobs[Close].at = "delivery" => NoDelivery(runner)
              /\ jobs[Close].at = "writes" => Cancelled(runner)
              /\ jobs[Close].at = "drop" => Dropped(runner)
  BY InvFacts DEF CloseInv, Phase

LEMMA CancelledTasksEndInv ==
    ASSUME Inv, NEW j \in Jobs, CancelledTasksEnd(j)
    PROVE  Inv'
<1> DEFINE kind == jobs[j].kind
           o == IF jobs[j].at = "delivery" THEN ThenWrites(kind, runner)
                ELSE AfterWrites(kind, runner)
<1>1. /\ jobs[j].at \in {"delivery", "writes"} /\ Become(j, o) /\ UNCHANGED <<session, used>>
  BY DEF CancelledTasksEnd
<1>2. /\ kind \in Kinds /\ (kind = "close" <=> j = Close)
      /\ kind = "close" => runner.closed /\ Closing
      /\ May(kind, runner)
  BY <1>1, JobFacts DEF May
<1> HIDE DEF kind
<1>3. CASE jobs[j].at = "delivery"
  <2>1. o = ThenWrites(kind, runner)
    BY <1>3
  <2> HIDE DEF o
  <2>2. Good(kind, runner, o) /\ (kind = "close" /\ NoDelivery(runner) => ComesToClose(o))
    BY <1>2, <2>1, InvFacts, ThenWritesFacts
  <2>3. kind = "close" => used.forgot \/ ComesToClose(o)
    BY <1>2, <1>3, <2>2, ClosePhase
  <2> QED
    BY <1>1, <1>2, <2>2, <2>3, InvFacts, JobSteps
<1>4. CASE jobs[j].at = "writes"
  <2>1. o = AfterWrites(kind, runner)
    BY <1>4
  <2> HIDE DEF o
  <2>2. Good(kind, runner, o) /\ (kind = "close" /\ Cancelled(runner) => ComesToClose(o))
    BY <1>2, <2>1, InvFacts, AfterWritesFacts
  <2>3. kind = "close" => used.forgot \/ ComesToClose(o)
    BY <1>2, <1>4, <2>2, ClosePhase
  <2> QED
    BY <1>1, <1>2, <2>2, <2>3, InvFacts, JobSteps
<1> QED
  BY <1>1, <1>3, <1>4

LEMMA DisconnectsInv ==
    ASSUME Inv, NEW j \in Jobs, Disconnects(j)
    PROVE  Inv'
<1> DEFINE kind == jobs[j].kind
           o == Ends(kind, runner)
<1>1. /\ jobs[j].at = "drop" /\ Become(j, o) /\ UNCHANGED <<session, used>>
  BY DEF Disconnects
<1>2. /\ kind \in Kinds /\ (kind = "close" <=> j = Close)
      /\ kind = "close" => runner.closed /\ Closing
      /\ May(kind, runner)
  BY <1>1, JobFacts DEF May
<1> HIDE DEF kind
<1>3. Good(kind, runner, o) /\ (kind = "close" /\ Dropped(runner) => ComesToClose(o))
  BY <1>2, InvFacts, EndsFacts
<1> HIDE DEF o
<1>4. kind = "close" => used.forgot \/ ComesToClose(o)
  BY <1>1, <1>2, <1>3, ClosePhase
<1> QED
  BY <1>1, <1>2, <1>3, <1>4, InvFacts, JobSteps

LEMMA AwakesInv ==
    ASSUME Inv, NEW j \in Jobs, Awakes(j)
    PROVE  Inv'
<1> DEFINE kind == jobs[j].kind
           o == ThenDelivery(kind, runner)
<1>1. /\ jobs[j].at = "sleep" /\ Become(j, o) /\ UNCHANGED <<session, used>>
  BY DEF Awakes
<1>2. /\ kind \in Kinds /\ (kind = "close" <=> j = Close)
      /\ kind = "close" => runner.closed /\ Closing
      /\ May(kind, runner)
  BY <1>1, JobFacts DEF May
<1> HIDE DEF kind
<1>3. Good(kind, runner, o) /\ (kind = "close" /\ LastDelivery(runner) => ComesToClose(o))
  BY <1>2, InvFacts, ThenDeliveryFacts
<1> HIDE DEF o
<1>4. kind = "close" => used.forgot \/ ComesToClose(o)
  BY <1>3, ClosePhase
<1> QED
  BY <1>1, <1>2, <1>3, <1>4, InvFacts, JobSteps

LEMMA StopAcknowledgedInv ==
    ASSUME Inv, NEW j \in Jobs, StopAcknowledged(j)
    PROVE  Inv'
<1> DEFINE o == Outcome("request", runner, "none", NoClient)
<1>1. jobs[j].at = "ack" /\ Become(j, o) /\ UNCHANGED <<session, used>>
  BY DEF StopAcknowledged
<1>2. o.kind = "request" /\ o.runner = runner /\ o.at = "none" /\ o.gone = NoClient
  BY OutcomeFields
<1> HIDE DEF o
<1>3. Runs(runner, runner)
  BY InvFacts DEF Runs
<1>4. Good("request", runner, o)
  BY <1>2, <1>3 DEF Good, Fits, Awaits, NoClient
<1>5. j # Close /\ "request" \in Kinds
  BY <1>1, InvFacts DEF CloseInv, Kinds
<1> QED
  BY <1>1, <1>4, <1>5, InvFacts, JobSteps

LEMMA StopTimesOutInv ==
    ASSUME Inv, NEW j \in Jobs, StopTimesOut(j)
    PROVE  Inv'
<1> DEFINE p == Resolve(runner)
           o == ThenDelivery("force", p)
<1>1. jobs[j].at = "ack" /\ Become(j, o) /\ UNCHANGED <<session, used>>
  BY DEF StopTimesOut
<1>2. Inner(runner, p) /\ p.state = runner.state /\ p.journal = runner.journal /\ p \in Runners
  BY InvFacts, ResolveFacts DEF Inner
<1> HIDE DEF p
<1>3. Good("force", p, o)
  BY <1>2, ThenDeliveryFacts DEF May
<1> HIDE DEF o
<1>4. \A m \in Saids : JournalInv(runner, m) => JournalInv(p, m)
  BY <1>2 DEF JournalInv, Inner
<1>5. Good("force", runner, o)
  BY <1>2, <1>3, <1>4, InvFacts, InnerRuns, GoodAfter
<1>6. j # Close /\ "force" \in Kinds
  BY <1>1, InvFacts DEF CloseInv, Kinds
<1> QED
  BY <1>1, <1>5, <1>6, InvFacts, JobSteps

LEMMA DropFailsInv ==
    ASSUME Inv, NEW j \in Jobs, j # Close, Become(j, ThenDrop("fail", runner)), UNCHANGED <<session, used>>
    PROVE  Inv'
<1> DEFINE o == ThenDrop("fail", runner)
<1>1. Become(j, o)
  OBVIOUS
<1>2. Good("fail", runner, o)
  BY InvFacts, ThenDropFacts DEF May
<1> HIDE DEF o
<1>3. "fail" \in Kinds
  BY DEF Kinds
<1> QED
  BY <1>1, <1>2, <1>3, InvFacts, JobSteps

LEMMA StopFailsInv ==
    ASSUME Inv, NEW j \in Jobs, StopFails(j)
    PROVE  Inv'
<1>1. j # Close
  BY InvFacts DEF StopFails, CloseInv
<1> QED
  BY <1>1, DropFailsInv DEF StopFails

LEMMA ReaderFailsInv ==
    ASSUME Inv, NEW c \in Clients, ReaderFails(c)
    PROVE  Inv'
  BY Named, DropFailsInv DEF ReaderFails

-----------------------------------------------------------------------------
(* The task that holds the lock. *)

LEMMA TaskDoneFacts ==
    ASSUME NEW r \in Runners, r.tasks # <<>>, NEW q, q = TaskDone(r)
    PROVE  /\ Runs(r, q) /\ q.client = r.client /\ q.at = "lock" /\ q.via = NoClient
           /\ q.turn = r.turn /\ q.state = r.state /\ q.journal = r.journal
           /\ q.pending = r.pending /\ q.ops = r.ops
<1>1. /\ Tail(r.tasks) \in Seq(TaskSet) /\ Range(Tail(r.tasks)) \subseteq Range(r.tasks)
      /\ NoClient \in Nat
  BY TailRange DEF Runners, NoClient
<1>2. q = [r EXCEPT !.tasks = Tail(r.tasks), !.at = "lock", !.via = NoClient]
  BY DEF TaskDone
<1>3. /\ q \in Runners
      /\ q.turn = r.turn /\ q.turns = r.turns /\ q.closed = r.closed
      /\ q.pending = r.pending /\ q.ops = r.ops /\ q.state = r.state /\ q.journal = r.journal
      /\ q.client = r.client /\ q.written = r.written /\ q.delivery = r.delivery
      /\ q.tasks = Tail(r.tasks) /\ q.at = "lock" /\ q.via = NoClient
  BY <1>1, <1>2 DEF Runners
<1>4. \A o \in Ops : AsWrite(q, o) => AsWrite(r, o)
  BY <1>1, <1>3 DEF AsWrite
<1>5. Deliveries(q) \subseteq Deliveries(r)
  BY <1>1, <1>3 DEF Deliveries
<1>6. OnTheWayIsNew(q)
  BY <1>3 DEF OnTheWayIsNew
<1> QED
  BY <1>1, <1>3, <1>4, <1>5, <1>6 DEF Runs

LEMMA TaskBeginsInv ==
    ASSUME Inv, TaskBegins
    PROVE  Inv'
<1>0. runner.tasks # <<>> /\ runner \in Runners /\ UNCHANGED <<agent, jobs, session, used>>
  BY InvFacts DEF TaskBegins, HasTask
<1>1. CASE runner.client = NoClient
  <2>1. runner' = [runner EXCEPT !.at = "connect"]
    BY <1>1 DEF TaskBegins
  <2>2. /\ runner' \in Runners
        /\ runner'.turn = runner.turn /\ runner'.closed = runner.closed
        /\ runner'.pending = runner.pending /\ runner'.ops = runner.ops
        /\ runner'.state = runner.state /\ runner'.journal = runner.journal
        /\ runner'.client = runner.client /\ runner'.written = runner.written
        /\ runner'.delivery = runner.delivery /\ runner'.tasks = runner.tasks
        /\ runner'.at = "connect" /\ runner'.via = runner.via
    BY <1>0, <2>1 DEF Runners
  <2>3. Runs(runner, runner')
    BY <1>0, <2>2 DEF Runs, AsWrite, Deliveries, OnTheWayIsNew
  <2>4. JournalInv(runner', Said)
    BY <2>2, InvFacts DEF JournalInv
  <2> QED
    BY <1>0, <2>3, <2>4, InvFacts, Steps
<1>2. CASE runner.client # NoClient /\ IsWrite(Task) /\ IsWritten(runner, Task.op)
  <2>1. runner' = TaskDone(runner)
    BY <1>2 DEF TaskBegins
  <2>2. /\ Runs(runner, runner')
        /\ runner'.turn = runner.turn /\ runner'.state = runner.state
        /\ runner'.journal = runner.journal
    BY <1>0, <2>1, TaskDoneFacts
  <2>3. JournalInv(runner', Said)
    BY <2>2, InvFacts DEF JournalInv
  <2> QED
    BY <1>0, <2>2, <2>3, InvFacts, Steps
<1>3. CASE runner.client # NoClient /\ ~(IsWrite(Task) /\ IsWritten(runner, Task.op))
  <2>1. runner' = [runner EXCEPT !.at = "query", !.via = runner.client]
    BY <1>3 DEF TaskBegins
  <2>2. /\ runner' \in Runners
        /\ runner'.turn = runner.turn /\ runner'.closed = runner.closed
        /\ runner'.pending = runner.pending /\ runner'.ops = runner.ops
        /\ runner'.state = runner.state /\ runner'.journal = runner.journal
        /\ runner'.client = runner.client /\ runner'.written = runner.written
        /\ runner'.delivery = runner.delivery /\ runner'.tasks = runner.tasks
        /\ runner'.at = "query" /\ runner'.via = runner.client
    <3>1. runner.client \in Nat
      BY <1>0 DEF Runners
    <3> QED
      BY <1>0, <2>1, <3>1 DEF Runners
  <2>3. runner.written[Task.op] # runner.client
    <3>1. Task \in TaskSet /\ Task \in Range(runner.tasks)
      BY <1>0, TaskType DEF Task
    <3>2. CASE IsWrite(Task)
      BY <1>3, <3>2 DEF IsWritten
    <3>3. CASE ~IsWrite(Task)
      <4>1. Task \in Deliveries(runner) /\ Task.op \in Ops
        BY <3>1, <3>3 DEF Deliveries, IsWrite, TaskSet
      <4>2. ~AsWrite(runner, Task.op)
        BY <4>1 DEF Inv, OneWay, AsDelivery
      <4> QED
        BY <1>3, <4>2 DEF AsWrite
    <3> QED
      BY <3>2, <3>3
  <2>4. OnTheWayIsNew(runner')
    BY <1>0, <2>2, <2>3 DEF OnTheWayIsNew, Task
  <2>5. Runs(runner, runner')
    BY <2>2, <2>4 DEF Runs, AsWrite, Deliveries
  <2>6. JournalInv(runner', Said)
    BY <2>2, InvFacts DEF JournalInv
  <2> QED
    BY <1>0, <2>5, <2>6, InvFacts, Steps
<1> QED
  BY <1>1, <1>2, <1>3

\* The steps that are no Runs: a client is connected, a message counts as written.
LEMMA CloseStays ==
    ASSUME CloseInv, UNCHANGED <<jobs, session>>, used'.forgot = used.forgot,
           runner'.closed = runner.closed, runner'.pending = runner.pending,
           runner'.turn = runner.turn, runner'.delivery = runner.delivery,
           Range(runner'.tasks) \subseteq Range(runner.tasks), ~Cancelled(runner)
    PROVE  CloseInv'
<1>1. LastDelivery(runner) => LastDelivery(runner')
  BY DEF LastDelivery, Deliveries
<1>2. NoDelivery(runner) => NoDelivery(runner')
  BY DEF NoDelivery, Deliveries
<1>3. ~Dropped(runner)
  BY DEF Dropped, Cancelled
<1> QED
  BY <1>1, <1>2, <1>3 DEF CloseInv, Phase

LEMMA ConnectsInv ==
    ASSUME Inv, Connects
    PROVE  Inv'
<1> DEFINE c == used.clients + 1
<1>1. /\ runner.tasks # <<>> /\ runner \in Runners /\ UNCHANGED <<jobs, session>>
      /\ runner' = [runner EXCEPT !.client = c, !.at = "query", !.via = c]
      /\ agent' = NewAgent /\ used' = [used EXCEPT !.clients = c]
  BY InvFacts DEF Connects, HasTask
<1>2. c \in Nat /\ used.clients \in Nat /\ c > used.clients
  BY InvFacts
<1> HIDE DEF c
<1>3. /\ runner' \in Runners
      /\ runner'.turn = runner.turn /\ runner'.closed = runner.closed
      /\ runner'.pending = runner.pending /\ runner'.ops = runner.ops
      /\ runner'.state = runner.state /\ runner'.journal = runner.journal
      /\ runner'.client = c /\ runner'.written = runner.written
      /\ runner'.delivery = runner.delivery /\ runner'.tasks = runner.tasks
      /\ runner'.at = "query" /\ runner'.via = c
  BY <1>1, <1>2 DEF Runners
<1>4. used' \in UsedSet /\ used'.late = used.late /\ used'.clients = c /\ used'.forgot = used.forgot
  BY <1>1, <1>2, InvFacts DEF UsedSet
<1>5. TypeOK'
  BY <1>1, <1>3, <1>4, NewAgentType, InvFacts DEF TypeOK
<1>6. JournalInv(runner', Said') /\ OthersInv'
  <2>1. Said' = Said
    BY <1>1, <1>4, SaidStays
  <2> QED
    BY <1>1, <1>3, <2>1, InvFacts DEF JournalInv, OthersInv
<1>7. OneWay(runner')
  BY <1>3 DEF Inv, OneWay, AsWrite, AsDelivery, Deliveries
<1>8. \A o \in Ops : runner.written[o] \in Nat /\ runner.written[o] <= used.clients
  BY <1>1 DEF Inv, OldClients, Runners
<1>9. OldClients(runner', used'.clients)
  BY <1>2, <1>3, <1>4, <1>8 DEF OldClients
<1>10. OnTheWayIsNew(runner')
  <2>1. Head(runner.tasks).op \in Ops
    BY <1>1, TaskType DEF TaskSet
  <2> QED
    BY <1>1, <1>2, <1>3, <1>8, <2>1 DEF OnTheWayIsNew
<1>11. CloseInv'
  BY <1>1, <1>3, <1>4, InvFacts, CloseStays DEF Cancelled
<1> QED
  BY <1>5, <1>6, <1>7, <1>9, <1>10, <1>11 DEF Inv

LEMMA QueryDoneInv ==
    ASSUME Inv, QueryDone
    PROVE  Inv'
<1> DEFINE p == IF IsWrite(Task) THEN [runner EXCEPT !.written[Task.op] = runner.via] ELSE runner
<1>1. /\ runner.tasks # <<>> /\ runner \in Runners /\ UNCHANGED <<jobs, session, used>>
      /\ runner' = TaskDone(p) /\ ((OnItsWay /\ Arrives) \/ UNCHANGED agent)
  BY InvFacts DEF QueryDone, HasTask
<1>2. Task \in TaskSet /\ Task \in Range(runner.tasks) /\ Task.op \in Ops
  BY <1>1, TaskType DEF Task, TaskSet
<1>3. /\ p \in Runners
      /\ p.turn = runner.turn /\ p.closed = runner.closed
      /\ p.pending = runner.pending /\ p.ops = runner.ops
      /\ p.state = runner.state /\ p.journal = runner.journal
      /\ p.client = runner.client
      /\ p.delivery = runner.delivery /\ p.tasks = runner.tasks
      /\ p.at = runner.at /\ p.via = runner.via
      /\ \/ p.written = runner.written
         \/ IsWrite(Task) /\ p.written = [runner.written EXCEPT ![Task.op] = runner.via]
  <2>1. CASE IsWrite(Task)
    <3>1. /\ runner.written \in [Ops -> Nat] /\ runner.via \in Nat
          /\ [runner.written EXCEPT ![Task.op] = runner.via] \in [Ops -> Nat]
      BY <1>1, <1>2 DEF Runners
    <3>2. p = [runner EXCEPT !.written = [runner.written EXCEPT ![Task.op] = runner.via]]
      BY <2>1
    <3> HIDE DEF p
    <3> QED
      BY <1>1, <2>1, <3>1, <3>2 DEF Runners
  <2>2. CASE ~IsWrite(Task)
    BY <1>1, <2>2
  <2> QED
    BY <2>1, <2>2
<1> HIDE DEF p
<1>4. runner.written \in [Ops -> Nat]
  BY <1>1 DEF Runners
<1>5. /\ Runs(p, runner') /\ runner' \in Runners /\ runner'.client = p.client /\ runner'.at = "lock"
      /\ runner'.turn = p.turn /\ runner'.state = p.state /\ runner'.journal = p.journal
      /\ runner'.pending = p.pending /\ runner'.ops = p.ops
      /\ runner'.closed = p.closed /\ runner'.delivery = p.delivery
  BY <1>1, <1>3, TaskDoneFacts DEF Runs
<1>6. \A o \in Ops : AsWrite(p, o) => AsWrite(runner, o)
  BY <1>2, <1>3, <1>4 DEF AsWrite, IsWrite
<1>7. OneWay(p)
  BY <1>3, <1>6 DEF Inv, OneWay, AsDelivery, Deliveries
<1>8. OldClients(p, used.clients)
  BY <1>2, <1>3, <1>4 DEF Inv, OldClients
<1>9. OneWay(runner')
  BY <1>5, <1>7 DEF Runs, OneWay, AsDelivery
<1>10. OldClients(runner', used.clients)
  BY <1>1, <1>3, <1>5, <1>8, InvFacts DEF Runs, OldClients, NoClient
<1>11. OnTheWayIsNew(runner')
  BY <1>5 DEF OnTheWayIsNew
<1>12. JournalInv(runner', Said') /\ OthersInv'
  <2>1. Said' = Said
    BY <1>1, SaidStays
  <2> QED
    BY <1>1, <1>3, <1>5, <2>1, InvFacts DEF JournalInv, OthersInv
<1>13. TypeOK'
  BY <1>1, <1>5, InvFacts, ArrivesType DEF TypeOK
<1>14. Range(runner'.tasks) \subseteq Range(runner.tasks)
  <2>1. Range(Tail(p.tasks)) \subseteq Range(p.tasks)
    BY <1>1, <1>3, TailRange DEF Runners
  <2>2. runner'.tasks = Tail(p.tasks)
    BY <1>1, <1>3 DEF TaskDone, Runners
  <2> QED
    BY <1>3, <2>1, <2>2
<1>15. CloseInv'
  BY <1>1, <1>3, <1>5, <1>14, InvFacts, CloseStays DEF Cancelled
<1> QED
  BY <1>1, <1>9, <1>10, <1>11, <1>12, <1>13, <1>15 DEF Inv

LEMMA TaskFailsRuns ==
    ASSUME Inv, runner.tasks # <<>>, TaskFails
    PROVE  /\ Runs(runner, runner') /\ runner'.client = NoClient /\ agent' = NewAgent
           /\ JournalInv(runner', Said)
<1> DEFINE o == ThenDrop("fail", runner)
           q == o.runner
<1>1. /\ runner' = IF o.at = "drop" THEN [q EXCEPT !.at = "drop", !.via = o.gone] ELSE TaskDone(q)
      /\ agent' = NewAgent
  BY DEF TaskFails
<1>2. /\ Good("fail", runner, o) /\ q.client = NoClient
      /\ \/ o.at = "none" /\ Grows(runner, q)
         \/ /\ o.at = "drop" /\ runner.client # NoClient /\ o.gone = runner.client
            /\ q.tasks = runner.tasks
  BY InvFacts, ThenDropFacts DEF May
<1>3. Runs(runner, q) /\ q \in Runners /\ JournalInv(q, Said)
  BY <1>2, InvFacts DEF Good, Fits, Runs
<1> HIDE DEF o, q
<1>4. CASE o.at = "none"
  <2>1. q.tasks # <<>>
    BY <1>2, <1>4, InvFacts, GrowsKeepsHead
  <2>2. /\ Runs(q, runner') /\ runner'.client = q.client
        /\ runner'.turn = q.turn /\ runner'.state = q.state /\ runner'.journal = q.journal
    BY <1>1, <1>3, <1>4, <2>1, TaskDoneFacts
  <2>3. JournalInv(runner', Said)
    BY <1>3, <2>2 DEF JournalInv
  <2>4. Runs(runner, runner')
    BY <1>3, <2>2, RunsOn
  <2> QED
    BY <1>1, <1>2, <2>2, <2>3, <2>4
<1>5. CASE o.at = "drop"
  <2>1. runner' = [q EXCEPT !.at = "drop", !.via = runner.client] /\ runner.client \in Nat
    BY <1>1, <1>2, <1>5, InvFacts DEF Runners
  <2>2. /\ runner' \in Runners
        /\ runner'.turn = q.turn /\ runner'.closed = q.closed
        /\ runner'.pending = q.pending /\ runner'.ops = q.ops
        /\ runner'.state = q.state /\ runner'.journal = q.journal
        /\ runner'.client = q.client /\ runner'.written = q.written
        /\ runner'.delivery = q.delivery /\ runner'.tasks = q.tasks
        /\ runner'.at = "drop" /\ runner'.via = runner.client
    BY <1>3, <2>1 DEF Runners
  <2>3. q.tasks # <<>>
    BY <1>2, <1>5
  <2>4. OnTheWayIsNew(runner')
    BY <2>2, <2>3 DEF OnTheWayIsNew
  <2>5. Runs(runner, runner')
    BY <1>3, <2>2, <2>4 DEF Runs, AsWrite, Deliveries
  <2>6. JournalInv(runner', Said)
    BY <1>3, <2>2 DEF JournalInv
  <2> QED
    BY <1>1, <1>2, <2>2, <2>5, <2>6
<1> QED
  BY <1>2, <1>4, <1>5

LEMMA HappensFacts ==
    ASSUME Inv, Happens
    PROVE  /\ used' \in UsedSet /\ used'.late = used.late
           /\ used'.clients = used.clients /\ used'.forgot = used.forgot
<1>1. used' = [used EXCEPT !.events = used.events + 1]
  BY DEF Happens
<1> QED
  BY <1>1, InvFacts DEF UsedSet

LEMMA ConnectFailsInv ==
    ASSUME Inv, ConnectFails
    PROVE  Inv'
<1>1. Happens /\ TaskFails /\ UNCHANGED <<jobs, session>> /\ runner.tasks # <<>>
  BY DEF ConnectFails, HasTask
<1>2. /\ Runs(runner, runner') /\ agent' = NewAgent /\ JournalInv(runner', Said)
  BY <1>1, TaskFailsRuns
<1> QED
  BY <1>1, <1>2, HappensFacts, NewAgentType, Steps

LEMMA QueryFailsInv ==
    ASSUME Inv, QueryFails
    PROVE  Inv'
<1>1. UNCHANGED <<jobs, session, used>> /\ runner.tasks # <<>>
  BY DEF QueryFails, HasTask
<1>2. CASE IsWrite(Task) /\ runner.via # runner.client
  <2>1. runner' = TaskDone(runner) /\ UNCHANGED agent
    BY <1>2 DEF QueryFails
  <2>2. /\ Runs(runner, runner')
        /\ runner'.turn = runner.turn /\ runner'.state = runner.state
        /\ runner'.journal = runner.journal
    BY <1>1, <2>1, InvFacts, TaskDoneFacts
  <2>3. JournalInv(runner', Said)
    BY <2>2, InvFacts DEF JournalInv
  <2> QED
    BY <1>1, <2>1, <2>2, <2>3, InvFacts, Steps
<1>3. CASE ~(IsWrite(Task) /\ runner.via # runner.client)
  <2>1. TaskFails
    BY <1>3 DEF QueryFails
  <2>2. /\ Runs(runner, runner') /\ agent' = NewAgent /\ JournalInv(runner', Said)
    BY <1>1, <2>1, TaskFailsRuns
  <2> QED
    BY <1>1, <2>2, InvFacts, NewAgentType, Steps
<1> QED
  BY <1>2, <1>3

LEMMA TaskDisconnectsInv ==
    ASSUME Inv, TaskDisconnects
    PROVE  Inv'
<1> DEFINE o == Ends("fail", runner)
           q == o.runner
<1>1. /\ UNCHANGED <<agent, jobs, session, used>> /\ runner.tasks # <<>>
      /\ runner' = TaskDone(q)
  BY DEF TaskDisconnects, HasTask
<1>2. Good("fail", runner, o) /\ Grows(runner, q)
  BY InvFacts, EndsFacts DEF May
<1>3. Runs(runner, q) /\ q \in Runners /\ JournalInv(q, Said)
  BY <1>2, InvFacts DEF Good, Fits, Runs
<1> HIDE DEF o, q
<1>4. q.tasks # <<>>
  BY <1>1, <1>2, InvFacts, GrowsKeepsHead
<1>5. /\ Runs(q, runner')
      /\ runner'.turn = q.turn /\ runner'.state = q.state /\ runner'.journal = q.journal
  BY <1>1, <1>3, <1>4, TaskDoneFacts
<1>6. JournalInv(runner', Said)
  BY <1>3, <1>5 DEF JournalInv
<1>7. Runs(runner, runner')
  BY <1>3, <1>5, RunsOn
<1> QED
  BY <1>1, <1>6, <1>7, InvFacts, Steps

-----------------------------------------------------------------------------
(* The agent. *)

LEMMA AgentTakesInv ==
    ASSUME Inv, AgentTakes
    PROVE  Inv'
<1> DEFINE p == ContinueTurn(runner)
           x == Head(agent.inbox)
<1>1. /\ agent.inbox # <<>> /\ UNCHANGED <<jobs, session, used>>
      /\ agent' = [agent EXCEPT !.inbox = Tail(agent.inbox), !.works = TRUE]
      /\ runner' = Delivered(p, x)
  BY DEF AgentTakes
<1>2. agent \in Agents /\ x \in Ops /\ Tail(agent.inbox) \in Seq(Ops)
  BY <1>1, InvFacts, TailRange DEF Agents
<1> HIDE DEF x
<1>3. agent' \in Agents
  BY <1>1, <1>2 DEF Agents
<1>a. Grows(runner, p) /\ JournalInv(p, Said)
  BY InvFacts, ContinueTurnFacts
<1> HIDE DEF p
<1>4. Grows(runner, p) /\ p \in Runners /\ JournalInv(p, Said)
  BY <1>a DEF Grows
<1>5. /\ Grows(p, runner')
      /\ runner'.turn = p.turn /\ runner'.state = p.state /\ runner'.journal = p.journal
  BY <1>1, <1>2, <1>4, DeliveredFacts
<1>6. JournalInv(runner', Said)
  BY <1>4, <1>5 DEF JournalInv
<1>7. Runs(runner, runner')
  BY <1>4, <1>5, InvFacts, GrowsRuns, RunsOn
<1> QED
  BY <1>1, <1>3, <1>6, <1>7, InvFacts, Steps

LEMMA AgentSpeaksInv ==
    ASSUME Inv, AgentSpeaks
    PROVE  Inv'
<1>1. UNCHANGED <<agent, jobs, session, used>> /\ runner' = ContinueTurn(runner)
  BY DEF AgentSpeaks
<1>2. Grows(runner, runner') /\ JournalInv(runner', Said)
  BY <1>1, InvFacts, ContinueTurnFacts
<1> QED
  BY <1>1, <1>2, InvFacts, GrowsRuns, Steps

LEMMA AgentEndsInv ==
    ASSUME Inv, AgentEnds
    PROVE  Inv'
<1> DEFINE f == Finished(runner)
<1>1. /\ UNCHANGED <<jobs, session, used>> /\ agent' = [agent EXCEPT !.works = FALSE]
      /\ runner' = TurnClosed(f)
  BY DEF AgentEnds
<1>2. agent' \in Agents
  BY <1>1, InvFacts DEF Agents
<1>3. /\ Inner(runner, f) /\ f \in Runners /\ f.state = "idle"
      /\ f.journal = [state |-> "finished", open |-> NoTurn]
  BY InvFacts, FinishedFacts DEF Inner
<1> HIDE DEF f
<1>4. Grows(f, runner') /\ JournalInv(runner', Clean)
  BY <1>1, <1>3, TurnClosedFacts
<1>5. Grows(runner, runner')
  BY <1>3, <1>4, InnerThenGrows
<1> QED
  BY <1>1, <1>2, <1>4, <1>5, InvFacts, AnyTime, GrowsRuns, Steps

LEMMA RunnerUnchanged ==
    ASSUME Inv, UNCHANGED <<runner, jobs, session>>, agent' \in Agents, used' \in UsedSet,
           used'.late = used.late, used'.clients = used.clients, used'.forgot = used.forgot
    PROVE  Inv'
<1>1. Runs(runner, runner)
  BY InvFacts DEF Runs
<1> QED
  BY <1>1, InvFacts, Steps

LEMMA AgentWakesInv ==
    ASSUME Inv, AgentWakes
    PROVE  Inv'
<1>1. UNCHANGED <<runner, jobs, session>> /\ agent' = [agent EXCEPT !.works = TRUE] /\ Happens
  BY DEF AgentWakes
<1>2. agent' \in Agents
  BY <1>1, InvFacts DEF Agents
<1> QED
  BY <1>1, <1>2, HappensFacts, RunnerUnchanged

LEMMA AgentBreaksInv ==
    ASSUME Inv, AgentBreaks
    PROVE  Inv'
<1>1. UNCHANGED <<runner, jobs, session>> /\ Happens
      /\ \E how \in {"dead", "deaf"} : agent' = [agent EXCEPT ![how] = TRUE]
  BY DEF AgentBreaks
<1>2. agent' = [agent EXCEPT !.dead = TRUE] \/ agent' = [agent EXCEPT !.deaf = TRUE]
  BY <1>1
<1>3. agent' \in Agents
  BY <1>2, InvFacts DEF Agents
<1> QED
  BY <1>1, <1>3, HappensFacts, RunnerUnchanged

\* The approvals show a state, unless the turn they belong to is over.
LEMMA ShownWhileAsking ==
    ASSUME Inv, NEW asks \in [Clients -> AskStates], NEW state \in States, state # "idle",
           runner' = Shown([runner EXCEPT !.asks = asks], state)
    PROVE  /\ Runs(runner, runner')
           /\ JournalInv(runner', [late |-> used.late \/ runner.turn = NoTurn, turns |-> StrayTurns])
<1> DEFINE p == [runner EXCEPT !.asks = asks]
<1>1. p \in Runners /\ Inner(runner, p) /\ p.state = runner.state /\ p.journal = runner.journal
  BY InvFacts DEF Runners, Inner
<1>2. runner' = Shown(p, state)
  OBVIOUS
<1> HIDE DEF p
<1>3. /\ Inner(p, runner') /\ runner'.journal.open = p.journal.open
      /\ \/ runner'.state = p.state /\ runner'.journal = p.journal
         \/ runner'.state = state /\ runner'.journal.state = state
  BY <1>1, <1>2, ShownFacts
<1>4. Inner(runner, runner')
  BY <1>1, <1>3 DEF Inner
<1>5. state \notin SettledStates
  BY DEF States, SettledStates
<1> DEFINE m == [late |-> used.late \/ runner.turn = NoTurn, turns |-> StrayTurns]
<1>6. JournalInv(runner', m)
  <2>1. runner'.journal.open \in {runner'.turn} \cup StrayTurns
    BY <1>1, <1>3, <1>4, InvFacts DEF JournalInv, Inner, Said
  <2>2. CASE m.late
    BY <2>1, <2>2 DEF JournalInv
  <2>3. CASE ~m.late
    <3>1. ~used.late /\ runner.turn # NoTurn /\ runner'.turn = runner.turn
      BY <1>4, <2>3 DEF Inner
    <3>2. runner.state \notin SettledStates
          /\ (StrayTurns # {} \/ runner.journal.state = runner.state)
      BY <3>1, InvFacts DEF JournalInv, Said
    <3> QED
      BY <1>1, <1>3, <1>5, <2>1, <3>1, <3>2 DEF JournalInv
  <2> QED
    BY <2>2, <2>3
<1> QED
  BY <1>4, <1>6, InvFacts, InnerRuns

LEMMA SaidLater ==
    ASSUME UNCHANGED <<jobs, session>>
    PROVE  Said' = [late |-> used'.late, turns |-> StrayTurns]
  BY DEF Said, StrayTurns, Closing

LEMMA CanUseToolInv ==
    ASSUME Inv, CanUseTool
    PROVE  Inv'
<1> DEFINE asks == [runner.asks EXCEPT ![runner.client] = "open"]
           late == used.late \/ runner.turn = NoTurn
<1>1. /\ UNCHANGED <<agent, jobs, session>>
      /\ used' = [used EXCEPT !.events = used.events + 1, !.late = late]
      /\ runner' = Shown([runner EXCEPT !.asks = asks], "waiting_approval")
  BY DEF CanUseTool
<1>2. asks \in [Clients -> AskStates]
  BY InvFacts DEF Runners, AskStates
<1> HIDE DEF asks
<1>3. "waiting_approval" \in States /\ late \in BOOLEAN
  BY DEF States
<1>4. /\ Runs(runner, runner')
      /\ JournalInv(runner', [late |-> late, turns |-> StrayTurns])
  BY <1>1, <1>2, <1>3, ShownWhileAsking
<1> HIDE DEF late
<1>b. used \in UsedSet
  BY InvFacts
<1>c. used.events \in Nat /\ used.events + 1 \in Nat
  BY <1>b DEF UsedSet
<1>6. used' \in UsedSet /\ used'.late = late
      /\ used'.clients = used.clients /\ used'.forgot = used.forgot
  BY <1>1, <1>3, <1>b, <1>c DEF UsedSet
<1>7. JournalInv(runner', Said') /\ session' \in SessionSet /\ OthersInv'
  BY <1>1, <1>4, <1>6, SaidLater, InvFacts DEF OthersInv
<1> QED
  BY <1>1, <1>4, <1>6, <1>7, InvFacts, Moves

LEMMA ApprovalSettlesInv ==
    ASSUME Inv, NEW c \in Clients, ApprovalSettles(c)
    PROVE  Inv'
<1> DEFINE asks == [runner.asks EXCEPT ![c] = "none"]
           late == used.late \/ runner.turn = NoTurn
<1>1. /\ UNCHANGED <<agent, jobs, session>>
      /\ used' = [used EXCEPT !.late = late]
      /\ \E state \in {"waiting_approval", "thinking"} :
            runner' = Shown([runner EXCEPT !.asks = asks], state)
  BY DEF ApprovalSettles
<1>2. asks \in [Clients -> AskStates]
  BY InvFacts DEF Runners, AskStates
<1>3. late \in BOOLEAN
  BY InvFacts
<1>4. PICK state \in {"waiting_approval", "thinking"} :
         runner' = Shown([runner EXCEPT !.asks = asks], state)
  BY <1>1
<1>5. state \in States /\ state # "idle"
  BY DEF States
<1> HIDE DEF asks
<1>6. /\ Runs(runner, runner')
      /\ JournalInv(runner', [late |-> late, turns |-> StrayTurns])
  BY <1>2, <1>4, <1>5, ShownWhileAsking
<1> HIDE DEF late
<1>7. used' \in UsedSet /\ used'.late = late
      /\ used'.clients = used.clients /\ used'.forgot = used.forgot
  BY <1>1, <1>3, InvFacts DEF UsedSet
<1>8. JournalInv(runner', Said') /\ session' \in SessionSet /\ OthersInv'
  BY <1>1, <1>6, <1>7, SaidLater, InvFacts DEF OthersInv
<1> QED
  BY <1>1, <1>6, <1>7, <1>8, InvFacts, Moves

-----------------------------------------------------------------------------
(* What is called while a session is being closed, and the runners it builds. *)

\* Another runner changes the journal, the approvals and the numbers of the turns.
LEMMA AsideInv ==
    ASSUME Inv, UNCHANGED <<agent, jobs, used>>, runner' \in Runners,
           runner'.turn = runner.turn, runner'.state = runner.state,
           runner'.closed = runner.closed, runner'.pending = runner.pending,
           runner'.client = runner.client, runner'.written = runner.written,
           runner'.tasks = runner.tasks, runner'.at = runner.at, runner'.via = runner.via,
           runner'.delivery = runner.delivery,
           \A o \in Ops : runner'.ops[o] = "unsent" => runner.ops[o] = "unsent",
           session' \in SessionSet, session'.crossed,
           runner'.journal.open \in {runner.turn, NoTurn} \cup session'.turns
    PROVE  Inv'
<1>1. Runs(runner, runner')
  BY DEF Runs, AsWrite, Deliveries, OnTheWayIsNew
<1>2. StrayTurns' = session'.turns \cup {NoTurn}
  BY DEF StrayTurns
<1>3. Said' = [late |-> used.late, turns |-> session'.turns \cup {NoTurn}]
  BY <1>2 DEF Said
<1>4. JournalInv(runner', Said')
  BY <1>3, InvFacts DEF JournalInv
<1>5. OthersInv'
  BY DEF OthersInv
<1> QED
  BY <1>1, <1>4, <1>5, InvFacts, Moves

LEMMA OtherTurnFacts ==
    ASSUME NEW r \in Runners, NEW q, q = OtherTurn(r)
    PROVE  /\ q \in Runners /\ q.turn = r.turn /\ q.state = r.state
           /\ q.closed = r.closed /\ q.pending = r.pending /\ q.ops = r.ops
           /\ q.client = r.client /\ q.written = r.written /\ q.tasks = r.tasks
           /\ q.at = r.at /\ q.via = r.via /\ q.delivery = r.delivery
           /\ q.journal.open = r.turns + 1 /\ r.turns + 1 \in Nat
<1>1. r.turns + 1 \in Nat
  BY DEF Runners
<1>2. [state |-> "thinking", open |-> r.turns + 1] \in JournalSet
  BY <1>1 DEF JournalSet, States
<1> QED
  BY <1>1, <1>2 DEF OtherTurn, Runners

LEMMA OtherOpensFacts ==
    ASSUME Inv, NEW ended, NEW taken, OtherOpens(ended, taken)
    PROVE  session' \in SessionSet /\ session'.crossed /\ runner.turns + 1 \in session'.turns
<1> DEFINE turns == (session.turns \ ended) \cup {runner.turns + 1}
           waiting == session.waiting \ taken
<1>1. session' = [session EXCEPT !.crossed = TRUE, !.waiting = waiting, !.turns = turns]
  BY DEF OtherOpens
<1>2. session \in SessionSet /\ runner.turns + 1 \in Nat
  BY InvFacts DEF Runners
<1>3. turns \in SUBSET Nat /\ waiting \in SUBSET Ops /\ runner.turns + 1 \in turns
  BY <1>2 DEF SessionSet
<1> HIDE DEF turns, waiting
<1> QED
  BY <1>1, <1>2, <1>3 DEF SessionSet

\* A message is taken from those that are unsent.
LEMMA TakenFacts ==
    ASSUME NEW r \in Runners, NEW o \in Ops, NEW q, q = [r EXCEPT !.ops[o] = "other"]
    PROVE  /\ q \in Runners /\ q.turn = r.turn /\ q.state = r.state /\ q.journal = r.journal
           /\ q.closed = r.closed /\ q.pending = r.pending
           /\ q.client = r.client /\ q.written = r.written /\ q.tasks = r.tasks
           /\ q.at = r.at /\ q.via = r.via /\ q.delivery = r.delivery
           /\ \A x \in Ops : q.ops[x] = "unsent" => r.ops[x] = "unsent"
<1>1. r.ops \in [Ops -> OpStates] /\ [r.ops EXCEPT ![o] = "other"] \in [Ops -> OpStates]
  BY DEF Runners, OpStates
<1>2. q = [r EXCEPT !.ops = [r.ops EXCEPT ![o] = "other"]]
  OBVIOUS
<1>3. \A x \in Ops : [r.ops EXCEPT ![o] = "other"][x] = "unsent" => r.ops[x] = "unsent"
  BY <1>1
<1> DEFINE taken == [r.ops EXCEPT ![o] = "other"]
<1> HIDE DEF taken
<1>4. taken \in [Ops -> OpStates] /\ q = [r EXCEPT !.ops = taken]
      /\ \A x \in Ops : taken[x] = "unsent" => r.ops[x] = "unsent"
  BY <1>1, <1>2, <1>3 DEF taken
<1>5. q \in Runners
  BY <1>4 DEF Runners
<1>6. /\ q.ops = taken /\ q.turn = r.turn /\ q.state = r.state /\ q.journal = r.journal
      /\ q.closed = r.closed /\ q.pending = r.pending
      /\ q.client = r.client /\ q.written = r.written /\ q.tasks = r.tasks
      /\ q.at = r.at /\ q.via = r.via /\ q.delivery = r.delivery
  BY <1>4 DEF Runners
<1> QED
  BY <1>4, <1>5, <1>6

LEMMA SendWhileClosingInv ==
    ASSUME Inv, NEW o \in Ops, SendWhileClosing(o)
    PROVE  Inv'
<1>1. UNCHANGED <<agent, jobs, used>>
  BY DEF SendWhileClosing
<1>2. ASSUME runner' = [OtherTurn(runner) EXCEPT !.ops[o] = "other"], OtherOpens({}, {})
      PROVE  Inv'
  <2> DEFINE r == OtherTurn(runner)
  <2>1. /\ r \in Runners /\ r.turn = runner.turn /\ r.state = runner.state
        /\ r.closed = runner.closed /\ r.pending = runner.pending /\ r.ops = runner.ops
        /\ r.client = runner.client /\ r.written = runner.written /\ r.tasks = runner.tasks
        /\ r.at = runner.at /\ r.via = runner.via /\ r.delivery = runner.delivery
        /\ r.journal.open = runner.turns + 1
    BY InvFacts, OtherTurnFacts
  <2>2. runner' = [r EXCEPT !.ops[o] = "other"]
    BY <1>2
  <2> HIDE DEF r
  <2>3. /\ runner' \in Runners /\ runner'.turn = r.turn /\ runner'.state = r.state
        /\ runner'.journal = r.journal
        /\ runner'.closed = r.closed /\ runner'.pending = r.pending
        /\ runner'.client = r.client /\ runner'.written = r.written /\ runner'.tasks = r.tasks
        /\ runner'.at = r.at /\ runner'.via = r.via /\ runner'.delivery = r.delivery
        /\ \A x \in Ops : runner'.ops[x] = "unsent" => r.ops[x] = "unsent"
    BY <2>1, <2>2, TakenFacts
  <2>4. session' \in SessionSet /\ session'.crossed /\ runner.turns + 1 \in session'.turns
    BY <1>2, OtherOpensFacts
  <2> QED
    BY <1>1, <2>1, <2>3, <2>4, AsideInv
<1>3. ASSUME session.turns # {}, runner' = [runner EXCEPT !.ops[o] = "other"],
             session' = [session EXCEPT !.waiting = session.waiting \cup {o}]
      PROVE  Inv'
  <2>1. /\ runner' \in Runners /\ runner'.turn = runner.turn /\ runner'.state = runner.state
        /\ runner'.journal = runner.journal
        /\ runner'.closed = runner.closed /\ runner'.pending = runner.pending
        /\ runner'.client = runner.client /\ runner'.written = runner.written
        /\ runner'.tasks = runner.tasks /\ runner'.at = runner.at
        /\ runner'.via = runner.via /\ runner'.delivery = runner.delivery
        /\ \A x \in Ops : runner'.ops[x] = "unsent" => runner.ops[x] = "unsent"
    BY <1>3, InvFacts, TakenFacts
  <2>2. session.crossed /\ session \in SessionSet /\ session.waiting \cup {o} \in SUBSET Ops
    BY <1>3, InvFacts DEF OthersInv, SessionSet
  <2>3. session' \in SessionSet /\ session'.crossed /\ session'.turns = session.turns
    BY <1>3, <2>2 DEF SessionSet
  <2>4. runner.journal.open \in {runner.turn, NoTurn} \cup session.turns
    BY <2>2, InvFacts DEF JournalInv, Said, StrayTurns
  <2> QED
    BY <1>1, <2>1, <2>3, <2>4, AsideInv
<1> QED
  BY <1>2, <1>3 DEF SendWhileClosing

LEMMA OtherEndsInv ==
    ASSUME Inv, NEW t \in session.turns, OtherEnds(t)
    PROVE  Inv'
<1>1. UNCHANGED <<agent, jobs, used>>
  BY DEF OtherEnds
<1>2. ASSUME runner' = [runner EXCEPT !.journal = [state |-> "finished", open |-> NoTurn]],
             session' = [session EXCEPT !.turns = session.turns \ {t}]
      PROVE  Inv'
  <2>1. /\ runner' \in Runners /\ runner'.turn = runner.turn /\ runner'.state = runner.state
        /\ runner'.journal = [state |-> "finished", open |-> NoTurn]
        /\ runner'.closed = runner.closed /\ runner'.pending = runner.pending
        /\ runner'.client = runner.client /\ runner'.written = runner.written
        /\ runner'.tasks = runner.tasks /\ runner'.at = runner.at
        /\ runner'.via = runner.via /\ runner'.delivery = runner.delivery
        /\ runner'.ops = runner.ops
    BY <1>2, InvFacts, FinishedJournal DEF Runners
  <2>2. session.crossed /\ session \in SessionSet
    BY InvFacts DEF OthersInv
  <2>3. session' \in SessionSet /\ session'.crossed
    BY <1>2, <2>2 DEF SessionSet
  <2> QED
    BY <1>1, <2>1, <2>3, AsideInv
<1>3. ASSUME runner' = OtherTurn(runner), NEW o, OtherOpens({t}, {o})
      PROVE  Inv'
  <2>1. session' \in SessionSet /\ session'.crossed /\ runner.turns + 1 \in session'.turns
    BY <1>3, OtherOpensFacts
  <2> QED
    BY <1>1, <1>3, <2>1, InvFacts, OtherTurnFacts, AsideInv
<1> QED
  BY <1>2, <1>3 DEF OtherEnds

LEMMA OtherContinuesInv ==
    ASSUME Inv, OtherContinues
    PROVE  Inv'
<1>1. /\ UNCHANGED <<agent, jobs>> /\ Happens
      /\ runner' = OtherTurn(runner) /\ OtherOpens({}, {})
  BY DEF OtherContinues
<1>2. session' \in SessionSet /\ session'.crossed /\ runner.turns + 1 \in session'.turns
  BY <1>1, OtherOpensFacts
<1>3. /\ runner' \in Runners /\ runner'.turn = runner.turn /\ runner'.state = runner.state
      /\ runner'.closed = runner.closed /\ runner'.pending = runner.pending
      /\ runner'.client = runner.client /\ runner'.written = runner.written
      /\ runner'.tasks = runner.tasks /\ runner'.at = runner.at
      /\ runner'.via = runner.via /\ runner'.delivery = runner.delivery
      /\ runner'.ops = runner.ops /\ runner'.journal.open = runner.turns + 1
  BY <1>1, InvFacts, OtherTurnFacts
<1>4. /\ used' \in UsedSet /\ used'.late = used.late
      /\ used'.clients = used.clients /\ used'.forgot = used.forgot
  BY <1>1, HappensFacts
<1>5. Runs(runner, runner')
  BY <1>3 DEF Runs, AsWrite, Deliveries, OnTheWayIsNew
<1>6. StrayTurns' = session'.turns \cup {NoTurn}
  BY <1>2 DEF StrayTurns
<1>7. Said' = [late |-> used.late, turns |-> session'.turns \cup {NoTurn}]
  BY <1>4, <1>6 DEF Said
<1>8. JournalInv(runner', Said')
  BY <1>2, <1>3, <1>7, InvFacts DEF JournalInv
<1> QED
  BY <1>1, <1>2, <1>4, <1>5, <1>8, InvFacts, Moves DEF OthersInv

LEMMA OtherShowsInv ==
    ASSUME Inv, OtherShows
    PROVE  Inv'
<1>1. /\ UNCHANGED <<agent, jobs, session, used>> /\ session.crossed
      /\ runner' = [runner EXCEPT !.journal = [runner.journal EXCEPT !.state = "thinking"]]
  BY DEF OtherShows
<1>2. [runner.journal EXCEPT !.state = "thinking"] \in JournalSet
      /\ [runner.journal EXCEPT !.state = "thinking"].open = runner.journal.open
  BY InvFacts DEF Runners, JournalSet, States
<1>3. /\ runner' \in Runners /\ runner'.turn = runner.turn /\ runner'.state = runner.state
      /\ runner'.journal.open = runner.journal.open
      /\ runner'.closed = runner.closed /\ runner'.pending = runner.pending
      /\ runner'.client = runner.client /\ runner'.written = runner.written
      /\ runner'.tasks = runner.tasks /\ runner'.at = runner.at
      /\ runner'.via = runner.via /\ runner'.delivery = runner.delivery
      /\ runner'.ops = runner.ops
  BY <1>1, <1>2, InvFacts DEF Runners
<1>4. runner.journal.open \in {runner.turn, NoTurn} \cup session.turns
  BY <1>1, InvFacts DEF JournalInv, Said, StrayTurns
<1> QED
  BY <1>1, <1>3, <1>4, InvFacts, AsideInv

LEMMA OtherResolvesInv ==
    ASSUME Inv, OtherResolves
    PROVE  Inv'
<1>1. UNCHANGED <<agent, jobs, session, used>> /\ runner' = Resolve(runner)
  BY DEF OtherResolves
<1>2. Inner(runner, runner') /\ runner'.state = runner.state /\ runner'.journal = runner.journal
  BY <1>1, InvFacts, ResolveFacts
<1>3. JournalInv(runner', Said)
  BY <1>2, InvFacts DEF JournalInv, Inner
<1> QED
  BY <1>1, <1>2, <1>3, InvFacts, InnerRuns, Steps

\* The journal may be settled while the turn runs.
LEMMA SweptFacts ==
    ASSUME Inv, Closing', session'.swept, session'.crossed = session.crossed,
           session'.turns = session.turns, used'.late = used.late
    PROVE  JournalInv(Settle(runner), Said')
<1>1. Said'.late = Said.late /\ Said.turns \subseteq Said'.turns /\ NoTurn \in Said'.turns
  BY DEF Said, StrayTurns
<1>2. Said' \in Saids
  <2>1. StrayTurns' \in SUBSET Nat
    BY InvFacts DEF StrayTurns, SessionSet, NoTurn
  <2> QED
    BY <2>1, InvFacts DEF Said, Saids
<1> QED
  BY <1>1, <1>2, InvFacts, SettledEarly

LEMMA StopWhileClosingInv ==
    ASSUME Inv, NEW s \in Stops, StopWhileClosing(s)
    PROVE  Inv'
<1> DEFINE q == Settle(runner)
           o == Outcome("idle", q, "none", NoClient)
<1>1. /\ Become(s, o) /\ UNCHANGED used /\ Closing
      /\ session' = [session EXCEPT !.swept = TRUE]
  BY DEF StopWhileClosing
<1>2. o.kind = "idle" /\ o.runner = q /\ o.at = "none" /\ o.gone = NoClient
  BY OutcomeFields
<1>3. Inner(runner, q)
  BY InvFacts, SettleFacts
<1> HIDE DEF o
<1>4. /\ session' \in SessionSet /\ session'.swept /\ session'.crossed = session.crossed
      /\ session'.turns = session.turns
  BY <1>1, InvFacts DEF SessionSet
<1>5. Closing'
  BY <1>1, InvFacts, Named DEF Become, Closing
<1>6. JournalInv(q, Said')
  BY <1>1, <1>4, <1>5, SweptFacts
<1> HIDE DEF q
<1>7. Fits("idle", runner, o) /\ "idle" \in Kinds
  BY <1>2, <1>3, InvFacts, InnerRuns DEF Fits, Awaits, NoClient, Kinds
<1> QED
  BY <1>1, <1>2, <1>4, <1>6, <1>7, InvFacts, Named, JobMoves DEF OthersInv

LEMMA CloseAgainInv ==
    ASSUME Inv, CloseAgain
    PROVE  Inv'
<1>1. /\ UNCHANGED <<agent, jobs, used>> /\ runner' = Settle(runner)
      /\ jobs[Close].kind # "none"
      /\ session' = IF Closing THEN [session EXCEPT !.sealed = TRUE, !.swept = TRUE] ELSE session
  BY DEF CloseAgain, Held
<1>2. Inner(runner, runner')
  BY <1>1, InvFacts, SettleFacts
<1>3. CASE Closing
  <2>1. /\ session' \in SessionSet /\ session'.swept /\ session'.crossed = session.crossed
        /\ session'.turns = session.turns
    BY <1>1, <1>3, InvFacts DEF SessionSet
  <2>2. Closing'
    BY <1>1, <1>3 DEF Closing
  <2>3. JournalInv(runner', Said')
    BY <1>1, <2>1, <2>2, SweptFacts
  <2> QED
    BY <1>1, <1>2, <2>1, <2>3, InvFacts, InnerRuns, Moves DEF OthersInv
<1>4. CASE ~Closing
  <2>1. runner.turn = NoTurn
    BY <1>1, <1>4, InvFacts DEF CloseInv, Closing
  <2>2. JournalInv(runner', Said)
    BY <1>1, <2>1, InvFacts, SettledEarly
  <2> QED
    BY <1>1, <1>2, <1>4, <2>2, InvFacts, InnerRuns, Steps
<1> QED
  BY <1>3, <1>4

-----------------------------------------------------------------------------
(* The invariant holds. *)

LEMMA NextInv ==
    ASSUME Inv, Next
    PROVE  Inv'
<1>1. ASSUME NEW o \in Ops, Send(o) PROVE Inv'
  BY <1>1, BeginTurnInv, QueueInv
<1>2. ASSUME NEW c \in Clients, Answer(c) \/ ApprovalSettles(c) \/ ReaderFails(c) PROVE Inv'
  BY <1>2, AnswerInv, ApprovalSettlesInv, ReaderFailsInv
<1>3. ASSUME NEW j \in Jobs, JobGoesOn(j) PROVE Inv'
  BY <1>3, CancelledTasksEndInv, DisconnectsInv, AwakesInv, StopAcknowledgedInv,
     StopTimesOutInv, StopFailsInv DEF JobGoesOn
<1>4. ASSUME TaskBegins \/ Connects \/ ConnectFails \/ QueryDone \/ QueryFails \/ TaskDisconnects
      PROVE  Inv'
  BY <1>4, TaskBeginsInv, ConnectsInv, ConnectFailsInv, QueryDoneInv, QueryFailsInv,
     TaskDisconnectsInv
<1>5. ASSUME AgentTakes \/ AgentSpeaks \/ AgentEnds \/ AgentWakes \/ AgentBreaks \/ CanUseTool
      PROVE  Inv'
  BY <1>5, AgentTakesInv, AgentSpeaksInv, AgentEndsInv, AgentWakesInv, AgentBreaksInv,
     CanUseToolInv
<1>6. ASSUME UNCHANGED vars PROVE Inv'
  BY <1>6, InvFacts, RunnerUnchanged DEF vars
<1>7. ASSUME CloseSession \/ CloseAgain \/ ReloadSettings PROVE Inv'
  BY <1>7, CloseSessionInv, CloseAgainInv, ReloadInv
<1>8. ASSUME OtherContinues \/ OtherShows \/ OtherResolves PROVE Inv'
  BY <1>8, OtherContinuesInv, OtherShowsInv, OtherResolvesInv
<1> QED
  BY <1>1, <1>2, <1>3, <1>4, <1>5, <1>6, <1>7, <1>8, InterruptInv, StopWhileClosingInv,
     SendWhileClosingInv, OtherEndsInv DEF Next, Terminating

\* The invariant: the types, what the journal says of the turn, what is on its way
\* to which agent, how far a close has come, and whose other turns the journal may
\* have open meanwhile.
THEOREM ChatInvHolds == Spec => []Inv
<1>1. Inv /\ [Next]_vars => Inv'
  BY NextInv, InvFacts, RunnerUnchanged DEF vars
<1> QED
  BY <1>1, InitInv, PTL DEF Spec

\* After a crash at any time the journal has the turn that ran as its open turn, and
\* no other (TurnSettler.sweep), for any messages, stops and events, but for what is
\* called before close_session has stored the session as closed: a stop or a second
\* close may have settled that turn by then, and a turn of another runner follows it.
THEOREM JournalIsTrue == Spec => []JournalFollowsTheTurn
<1>1. Inv => JournalFollowsTheTurn
  <2> SUFFICES ASSUME Inv PROVE JournalFollowsTheTurn
    OBVIOUS
  <2>1. JournalInv(runner, Said)
    BY DEF Inv
  <2> QED
    BY <2>1 DEF JournalFollowsTheTurn, JournalInv, Said
<1> QED
  BY <1>1, ChatInvHolds, PTL

\* Whatever was under way when close() was called and whatever is called while it
\* waits, the runner it closed has no turn, no message that waits and, unless a
\* delivery outlived its turn, no agent and no task. A turn that is left then belongs
\* to another runner.
THEOREM ClosedStaysQuiet == Spec => []ClosedIsQuiet
<1>1. Inv => ClosedIsQuiet
  BY DEF Inv, CloseInv, Phase, Dropped, ClosedIsQuiet
<1> QED
  BY <1>1, ChatInvHolds, PTL

-----------------------------------------------------------------------------
(* What an agent is given. *)

\* A step gives the agent nothing, or drops it, or connects another, or a text
\* that was on its way arrives.
Gives ==
    \/ agent'.got = agent.got
    \/ runner'.client # runner.client \/ runner'.client = NoClient
    \/ OnItsWay /\ Arrives

LEMMA BecomeGives ==
    ASSUME NEW j, NEW o, Become(j, o)
    PROVE  Gives
  BY DEF Become, AgentAfter, Gives

LEMMA NextGives ==
    ASSUME Inv, Next
    PROVE  Gives
<1>1. agent \in Agents /\ runner \in Runners /\ used.clients \in Nat
  BY InvFacts
<1>2. ASSUME NEW o \in Ops, Send(o) PROVE Gives
  BY <1>2 DEF Send, Gives
<1>3. ASSUME NEW s \in Stops, Interrupt(s) PROVE Gives
  BY <1>3, BecomeGives DEF Interrupt
<1>16. ASSUME NEW s \in Stops, StopWhileClosing(s) PROVE Gives
  BY <1>16, BecomeGives DEF StopWhileClosing
<1>17. ASSUME NEW o \in Ops, SendWhileClosing(o) PROVE Gives
  BY <1>17 DEF SendWhileClosing, Gives
<1>18. ASSUME NEW t \in session.turns, OtherEnds(t) PROVE Gives
  BY <1>18 DEF OtherEnds, Gives
<1>19. ASSUME CloseAgain \/ OtherContinues \/ OtherShows \/ OtherResolves PROVE Gives
  BY <1>19 DEF CloseAgain, OtherContinues, OtherShows, OtherResolves, Gives
<1>4. ASSUME CloseSession \/ ReloadSettings PROVE Gives
  BY <1>4, BecomeGives DEF CloseSession, ReloadSettings
<1>5. ASSUME NEW c \in Clients, Answer(c) \/ ApprovalSettles(c) PROVE Gives
  BY <1>5 DEF Answer, ApprovalSettles, Gives
<1>6. ASSUME NEW c \in Clients, ReaderFails(c) PROVE Gives
  BY <1>6, BecomeGives DEF ReaderFails
<1>7. ASSUME NEW j \in Jobs, JobGoesOn(j) PROVE Gives
  BY <1>7, BecomeGives DEF JobGoesOn, CancelledTasksEnd, Disconnects, Awakes,
     StopAcknowledged, StopTimesOut, StopFails
<1>8. ASSUME TaskBegins \/ TaskDisconnects PROVE Gives
  BY <1>8 DEF TaskBegins, TaskDisconnects, Gives
<1>9. ASSUME QueryDone PROVE Gives
  BY <1>9 DEF QueryDone, Gives
<1>10. ASSUME Connects PROVE Gives
  <2> DEFINE c == used.clients + 1
  <2>1. runner' = [runner EXCEPT !.client = c, !.at = "query", !.via = c]
    BY <1>10 DEF Connects
  <2>2. c # runner.client
    <3>1. runner.client \in Nat /\ runner.client <= used.clients
      BY <1>1 DEF Runners, Inv, OldClients
    <3> QED
      BY <1>1, <3>1
  <2> HIDE DEF c
  <2>3. runner'.client = c
    BY <1>1, <2>1 DEF Runners
  <2> QED
    BY <2>2, <2>3 DEF Gives
<1>11. ASSUME ConnectFails PROVE Gives
  BY <1>11, TaskFailsRuns DEF ConnectFails, HasTask, Gives
<1>12. ASSUME QueryFails PROVE Gives
  BY <1>12, TaskFailsRuns DEF QueryFails, HasTask, Gives
<1>13. ASSUME AgentTakes \/ AgentEnds \/ AgentWakes PROVE Gives
  BY <1>1, <1>13 DEF AgentTakes, AgentEnds, AgentWakes, Agents, Gives
<1>14. ASSUME AgentBreaks PROVE Gives
  <2>1. agent' = [agent EXCEPT !.dead = TRUE] \/ agent' = [agent EXCEPT !.deaf = TRUE]
    BY <1>14 DEF AgentBreaks
  <2> QED
    BY <1>1, <2>1 DEF Agents, Gives
<1>15. ASSUME AgentSpeaks \/ CanUseTool \/ Terminating PROVE Gives
  BY <1>15 DEF AgentSpeaks, CanUseTool, Terminating, vars, Gives
<1> QED
  BY <1>2, <1>3, <1>4, <1>5, <1>6, <1>7, <1>8, <1>9, <1>10, <1>11, <1>12, <1>13, <1>14,
     <1>15, <1>16, <1>17, <1>18, <1>19 DEF Next

\* An agent that was given a message as a write is not given it again, by whatever
\* task, of whatever turn, however tasks are cancelled and clients are replaced.
THEOREM MessagesAreWrittenOnce == Spec => NeverWrittenTwice
<1>1. Inv /\ [Next]_vars =>
        [\A o \in Ops : IsWritten(runner, o) /\ runner'.client = runner.client
                            => agent'.got[o] = agent.got[o]]_vars
  <2> SUFFICES ASSUME Inv, Next, NEW o \in Ops, IsWritten(runner, o),
                      runner'.client = runner.client
               PROVE  agent'.got[o] = agent.got[o]
    BY DEF vars
  <2>1. runner.client # NoClient /\ runner.written[o] = runner.client
    BY DEF IsWritten
  <2>2. agent'.got = agent.got \/ (OnItsWay /\ Arrives)
    BY <2>1, NextGives DEF Gives
  <2>3. CASE OnItsWay /\ Arrives
    <3> DEFINE x == Head(runner.tasks).op
    <3>1. x # o
      BY <2>1, <2>3 DEF Inv, OnTheWayIsNew, OnItsWay
    <3>2. agent' = [agent EXCEPT !.inbox = Append(agent.inbox, x),
                                 !.got = [agent.got EXCEPT ![x] = agent.got[x] + 1]]
      BY <2>3 DEF Arrives
    <3>3. agent \in Agents /\ agent.got \in [Ops -> Nat]
      BY InvFacts DEF Agents
    <3> HIDE DEF x
    <3>4. agent'.got = [agent.got EXCEPT ![x] = agent.got[x] + 1]
      BY <3>2, <3>3 DEF Agents
    <3> QED
      BY <3>1, <3>3, <3>4
  <2> QED
    BY <2>2, <2>3
<1> QED
  BY <1>1, ChatInvHolds, PTL DEF Spec, NeverWrittenTwice

-----------------------------------------------------------------------------
(* The channel of the project. *)

(* Sequences of events, whatever the events hold. *)

IsLog(log) == \E S : log \in Seq(S)

LEMMA LogsConcatenate ==
    ASSUME NEW a, NEW b, IsLog(a), IsLog(b), NEW c, c = a \o b
    PROVE  /\ IsLog(c) /\ Len(a) \in Nat /\ Len(b) \in Nat /\ Len(c) = Len(a) + Len(b)
           /\ \A i \in 1 .. Len(a) : c[i] = a[i]
           /\ \A i \in 1 .. Len(b) : c[Len(a) + i] = b[i]
           /\ \A i \in 1 .. Len(c) : i \in 1 .. Len(a) \/ i - Len(a) \in 1 .. Len(b)
<1>1. PICK S : a \in Seq(S)
  BY DEF IsLog
<1>2. PICK T : b \in Seq(T)
  BY DEF IsLog
<1>3. a \in Seq(S \cup T) /\ b \in Seq(S \cup T)
  BY <1>1, <1>2
<1>4. c \in Seq(S \cup T)
  BY <1>3
<1>5. IsLog(c)
  BY <1>4 DEF IsLog
<1> QED
  BY <1>3, <1>5

Fields == {"state", "queue", "calls", "covered", "log", "snapshot", "key", "health",
           "simulated", "paused", "closed", "sims", "follow", "failed", "torn"}

IsServer(s) == DOMAIN s = Fields /\ IsLog(s.log)

\* The followers and the events stay as they are.
Leaves(s, q) == IsServer(q) /\ q.follow = s.follow /\ q.log = s.log

LEMMA ReadsLeaves ==
    ASSUME NEW s, IsServer(s), NEW c
    PROVE  Leaves(s, Reads(s, c))
  BY DEF Reads, Leaves, IsServer, Fields

LEMMA LeftLeaves ==
    ASSUME NEW s, IsServer(s), NEW c
    PROVE  Leaves(s, Left(s, c))
  BY DEF Left, Leaves, IsServer, Fields

LEMMA AnsweredLeaves ==
    ASSUME NEW s, IsServer(s), NEW c, NEW state
    PROVE  Leaves(s, Answered(s, c, state))
  BY DEF Answered, Leaves, IsServer, Fields

LEMMA LeavesOn ==
    ASSUME NEW s, NEW p, NEW q, Leaves(s, p), Leaves(p, q)
    PROVE  Leaves(s, q)
  BY DEF Leaves

LEMMA AskedLeaves ==
    ASSUME NEW s, IsServer(s), NEW c
    PROVE  Leaves(s, Asked(s, c))
<1> DEFINE waits == [s EXCEPT !.queue = Append(@, c), !.covered = @ \ {c},
                              !.calls[c] = [Idle EXCEPT !.at = "lock", !.since = Len(past)]]
<1>1. Leaves(s, waits)
  BY DEF Leaves, IsServer, Fields
<1>2. Asked(s, c) = IF s.queue = <<>> THEN Reads(waits, c) ELSE waits
  BY DEF Asked
<1> HIDE DEF waits
<1>3. Leaves(waits, Reads(waits, c))
  BY <1>1, ReadsLeaves DEF Leaves
<1> QED
  BY <1>1, <1>2, <1>3, LeavesOn

LEMMA CancelLeaves ==
    ASSUME NEW s, IsServer(s)
    PROVE  Leaves(s, Cancel(s))
<1> DEFINE i == Current(s)
           sim == s.sims[i]
           gone == [s EXCEPT !.sims[i].at = IF sim.at = "run" THEN "reap" ELSE "over"]
<1>1. Cancel(s) = IF i = 0 THEN s ELSE IF sim.at = "apply" THEN Left(gone, "sim") ELSE gone
  BY DEF Cancel
<1> HIDE DEF i, sim
<1>2. Leaves(s, gone)
  BY DEF Leaves, IsServer, Fields
<1> HIDE DEF gone
<1>3. Leaves(gone, Left(gone, "sim"))
  BY <1>2, LeftLeaves DEF Leaves
<1>4. Leaves(s, s)
  BY DEF Leaves
<1> QED
  BY <1>1, <1>2, <1>3, <1>4, LeavesOn

LEMMA ScheduleLeaves ==
    ASSUME NEW s, IsServer(s), NEW key
    PROVE  Leaves(s, Schedule(s, key))
<1> DEFINE p == Cancel(s)
           q == [p EXCEPT !.sims = Append(@, [key |-> key, at |-> "sleep"])]
<1>1. Leaves(s, p)
  BY CancelLeaves
<1>2. Schedule(s, key) = IF s.closed THEN s ELSE q
  BY DEF Schedule
<1> HIDE DEF p
<1>3. Leaves(p, q)
  BY <1>1 DEF Leaves, IsServer, Fields
<1>4. Leaves(s, s)
  BY DEF Leaves
<1> QED
  BY <1>1, <1>2, <1>3, <1>4, LeavesOn

LEMMA PauseLeaves ==
    ASSUME NEW s, IsServer(s)
    PROVE  Leaves(s, Pause(s))
<1> DEFINE p == Cancel(s)
<1>1. Leaves(s, p)
  BY CancelLeaves
<1>2. PICK paused : Pause(s) = [p EXCEPT !.paused = paused]
  BY DEF Pause
<1> HIDE DEF p
<1>3. Leaves(p, [p EXCEPT !.paused = paused])
  BY <1>1 DEF Leaves, IsServer, Fields
<1> QED
  BY <1>1, <1>2, <1>3, LeavesOn

LEMMA ResetLeaves ==
    ASSUME NEW s, IsServer(s)
    PROVE  Leaves(s, Reset(s))
<1> DEFINE p == Cancel(s)
<1>1. Leaves(s, p)
  BY CancelLeaves
<1>2. Reset(s) = [p EXCEPT !.simulated = 0, !.paused = FALSE]
  BY DEF Reset
<1> HIDE DEF p
<1>3. Leaves(p, [p EXCEPT !.simulated = 0, !.paused = FALSE])
  BY <1>1 DEF Leaves, IsServer, Fields
<1> QED
  BY <1>1, <1>2, <1>3, LeavesOn

LEMMA ResumeLeaves ==
    ASSUME NEW s, IsServer(s)
    PROVE  Leaves(s, Resume(s))
<1> DEFINE p == [s EXCEPT !.paused = FALSE]
<1>1. Leaves(s, p)
  BY DEF Leaves, IsServer, Fields
<1>2. Resume(s) = IF s.paused THEN Schedule(p, s.key) ELSE p
  BY DEF Resume
<1> HIDE DEF p
<1>3. Leaves(p, Schedule(p, s.key))
  BY <1>1, ScheduleLeaves DEF Leaves
<1> QED
  BY <1>1, <1>2, <1>3, LeavesOn

-----------------------------------------------------------------------------
(* What is published. *)

NoNotices(events) == IsLog(events) /\ \A i \in 1 .. Len(events) : events[i].type # "notice"

\* Events are added, and none of them is a notice.
Tells(s, q) ==
    IsServer(q) /\ q.follow = s.follow /\ \E events : NoNotices(events) /\ q.log = s.log \o events

LEMMA LeavesTells ==
    ASSUME NEW s, IsServer(s), NEW q, Leaves(s, q)
    PROVE  Tells(s, q)
<1>1. PICK S : s.log \in Seq(S)
  BY DEF IsServer, IsLog
<1>2. q.log = s.log \o <<>>
  BY <1>1 DEF Leaves
<1>3. <<>> \in Seq({}) /\ Len(<<>>) = 0
  OBVIOUS
<1>4. NoNotices(<<>>)
  BY <1>3 DEF NoNotices, IsLog
<1> QED
  BY <1>2, <1>4 DEF Tells, Leaves

LEMMA TellsThenLeaves ==
    ASSUME NEW s, NEW p, NEW q, Tells(s, p), Leaves(p, q)
    PROVE  Tells(s, q)
  BY DEF Tells, Leaves

LEMMA LeavesThenTells ==
    ASSUME NEW s, NEW p, NEW q, Leaves(s, p), Tells(p, q)
    PROVE  Tells(s, q)
  BY DEF Tells, Leaves

LEMMA PublishTells ==
    ASSUME NEW s, IsServer(s), NEW events, NoNotices(events)
    PROVE  Tells(s, Publish(s, events))
<1> DEFINE q == Publish(s, events)
<1>1. q = [s EXCEPT !.log = s.log \o events]
  BY DEF Publish
<1>2. q.log = s.log \o events /\ q.follow = s.follow /\ DOMAIN q = Fields
  BY <1>1 DEF IsServer, Fields
<1>q. q = Publish(s, events)
  OBVIOUS
<1> HIDE DEF q
<1>a. IsLog(s.log) /\ IsLog(events)
  BY DEF NoNotices, IsServer
<1>b. IsLog(s.log \o events)
  BY <1>a, LogsConcatenate
<1>3. IsLog(q.log)
  BY <1>2, <1>b
<1> QED
  BY <1>2, <1>3, <1>q DEF Tells, IsServer

LEMMA EventIsNoNotice ==
    ASSUME NEW type, type # "notice", NEW tree, NEW health, NEW n
    PROVE  NoNotices(<<Event(type, tree, health, n)>>)
<1> DEFINE event == Event(type, tree, health, n)
<1>1. event.type # "notice"
  BY DEF Event
<1>2. SUFFICES NoNotices(<<event>>)
  OBVIOUS
<1> HIDE DEF event
<1>3. IsLog(<<event>>)
  <2>1. <<event>> \in Seq({event})
    OBVIOUS
  <2> QED
    BY <2>1 DEF IsLog
<1>4. Len(<<event>>) = 1 /\ <<event>>[1] = event
  OBVIOUS
<1>5. \A i \in 1 .. 1 : i = 1
  OBVIOUS
<1> QED
  BY <1>1, <1>3, <1>4, <1>5 DEF NoNotices

LEMMA BuildersNoNotices ==
    ASSUME NEW s, NEW tree, NEW health
    PROVE  NoNotices(Builders(s, tree, health))
<1> DEFINE a == <<Event("files", tree, health, 0)>>
           b == IF health # s.health THEN <<Event("diagnostics", tree, health, 0)>> ELSE <<>>
           c == a \o b
<1>1. NoNotices(a)
  BY EventIsNoNotice
<1>2. <<>> \in Seq({}) /\ Len(<<>>) = 0
  OBVIOUS
<1>3. NoNotices(b)
  BY <1>2, EventIsNoNotice DEF NoNotices, IsLog
<1> HIDE DEF a, b
<1>4. NoNotices(c)
  <2>1. IsLog(a) /\ IsLog(b)
    BY <1>1, <1>3 DEF NoNotices
  <2> HIDE DEF c
  <2>2. /\ IsLog(c) /\ Len(a) \in Nat /\ Len(b) \in Nat /\ Len(c) = Len(a) + Len(b)
        /\ \A i \in 1 .. Len(a) : c[i] = a[i]
        /\ \A i \in 1 .. Len(b) : c[Len(a) + i] = b[i]
        /\ \A i \in 1 .. Len(c) : i \in 1 .. Len(a) \/ i - Len(a) \in 1 .. Len(b)
    BY <2>1, LogsConcatenate DEF c
  <2>3. ASSUME NEW i \in 1 .. Len(c) PROVE c[i].type # "notice"
    <3>1. CASE i \in 1 .. Len(a)
      BY <1>1, <2>2, <3>1 DEF NoNotices
    <3>2. CASE i - Len(a) \in 1 .. Len(b)
      <4>1. c[Len(a) + (i - Len(a))] = b[i - Len(a)] /\ Len(a) + (i - Len(a)) = i
        BY <2>2, <3>2
      <4> QED
        BY <1>3, <3>2, <4>1 DEF NoNotices
    <3> QED
      BY <2>2, <3>1, <3>2
  <2> QED
    BY <2>2, <2>3 DEF NoNotices
<1>5. NoNotices(<<Event("resync", tree, health, 0)>>)
  BY EventIsNoNotice
<1>6. Builders(s, tree, health) = IF ChangedPaths(s.snapshot, tree) > BatchLimit
                                  THEN <<Event("resync", tree, health, 0)>> ELSE c
  BY DEF Builders, a, b
<1> QED
  BY <1>4, <1>5, <1>6

LEMMA RefreshedTells ==
    ASSUME NEW s, IsServer(s), NEW state
    PROVE  Tells(s, Refreshed(s, state))
<1> DEFINE reindexed == state.tree.spec # s.key
           ready == IF reindexed THEN Reset(s) ELSE Resume(s)
           health == IF reindexed THEN [report |-> state.report, simulated |-> 0] ELSE s.health
           events == Builders(s, state.tree, health)
           said == Publish(ready, events)
           told == [said EXCEPT !.snapshot = state.tree, !.key = state.tree.spec,
                                !.health = health]
<1>1. Refreshed(s, state) =
        IF ChangedPaths(s.snapshot, state.tree) = 0
        THEN IF reindexed THEN s ELSE ready
        ELSE IF reindexed THEN Schedule(told, state.tree.spec) ELSE told
  BY DEF Refreshed
<1>2. Leaves(s, ready)
  BY ResetLeaves, ResumeLeaves
<1>3. NoNotices(events)
  BY BuildersNoNotices
<1> HIDE DEF reindexed, ready, health, events
<1>4. Tells(ready, said)
  BY <1>2, <1>3, PublishTells DEF Leaves
<1> HIDE DEF said
<1>5. Leaves(said, told)
  BY <1>4 DEF Tells, Leaves, IsServer, Fields
<1> HIDE DEF told
<1>6. Leaves(told, Schedule(told, state.tree.spec))
  BY <1>5, ScheduleLeaves DEF Leaves
<1>7. Tells(s, told)
  BY <1>2, <1>4, <1>5, LeavesThenTells, TellsThenLeaves
<1>8. Tells(s, Schedule(told, state.tree.spec))
  BY <1>6, <1>7, TellsThenLeaves
<1>9. Tells(s, ready) /\ Tells(s, s)
  BY <1>2, LeavesTells DEF Leaves
<1> QED
  BY <1>1, <1>7, <1>8, <1>9

LEMMA AppliedTells ==
    ASSUME NEW s, IsServer(s), NEW state
    PROVE  Tells(s, Applied(s, state))
<1> DEFINE health == [report |-> state.report, simulated |-> s.simulated]
           event == Event("diagnostics", s.snapshot, health, 0)
           said == Publish(s, <<event>>)
           told == IF health # s.health THEN said ELSE s
<1>1. PICK sims, torn :
          Applied(s, state) = [told EXCEPT !.health = health, !.sims = sims, !.torn = torn]
  <2> DEFINE n == Current(s)
             q == [told EXCEPT !.health = health, !.sims[n].at = "over",
                               !.torn = @ \/ state.tree.spec # s.key]
  <2>1. Applied(s, state) = q
    BY DEF Applied
  <2> HIDE DEF health, told, n
  <2>2. q = [told EXCEPT !.health = health,
                         !.sims = [told.sims EXCEPT ![n] = [told.sims[n] EXCEPT !.at = "over"]],
                         !.torn = told.torn \/ state.tree.spec # s.key]
    OBVIOUS
  <2> QED
    BY <2>1, <2>2
<1>2. NoNotices(<<event>>)
  BY EventIsNoNotice
<1>3. Tells(s, said)
  BY <1>2, PublishTells
<1>4. Tells(s, s)
  BY LeavesTells DEF Leaves
<1> HIDE DEF said, event, health
<1>5. Tells(s, told)
  BY <1>3, <1>4
<1> HIDE DEF told
<1>6. Leaves(told, [told EXCEPT !.health = health, !.sims = sims, !.torn = torn])
  BY <1>5 DEF Tells, Leaves, IsServer, Fields
<1> QED
  BY <1>1, <1>5, <1>6, TellsThenLeaves

LEMMA ContinueTells ==
    ASSUME NEW s, IsServer(s), NEW c, NEW state
    PROVE  Tells(s, Continue(s, c, state))
<1> DEFINE told == Refreshed(s, state)
<1>1. CASE c = "watch"
  <2>1. PICK failed : Continue(s, c, state) = [told EXCEPT !.failed = failed]
    BY <1>1 DEF Continue
  <2>2. Tells(s, told)
    BY RefreshedTells
  <2> HIDE DEF told
  <2>3. Leaves(told, [told EXCEPT !.failed = failed])
    BY <2>2 DEF Tells, Leaves, IsServer, Fields
  <2> QED
    BY <2>1, <2>2, <2>3, TellsThenLeaves
<1>2. CASE c # "watch" /\ c = "sim"
  BY <1>2, AppliedTells DEF Continue
<1>3. CASE c # "watch" /\ c # "sim"
  BY <1>3, LeavesTells DEF Continue, Leaves
<1> QED
  BY <1>1, <1>2, <1>3

-----------------------------------------------------------------------------
(* The steps that leave the followers and the notices alone. *)

LEMMA CallTells ==
    ASSUME IsServer(server), NEW c, Call(c)
    PROVE  Tells(server, server')
<1>1. CASE GetsLock(c)
  <2>1. server' = IF server.calls[c].answered
                  THEN Continue(Left(server, c), c, server.state) ELSE Reads(server, c)
    BY <1>1 DEF GetsLock
  <2> DEFINE left == Left(server, c)
  <2>2. Leaves(server, left)
    BY LeftLeaves
  <2>3. Tells(left, Continue(left, c, server.state))
    BY <2>2, ContinueTells DEF Leaves
  <2>4. Tells(server, Reads(server, c))
    BY ReadsLeaves, LeavesTells
  <2> QED
    BY <2>1, <2>2, <2>3, <2>4, LeavesThenTells
<1>2. CASE TakesSnapshot(c)
  <2> DEFINE tree == [server.state EXCEPT !.tree = disk]
             answered == Answered(server, c, tree)
             paused == IF c = "watch" THEN Pause(server) ELSE server
  <2>1. server' = IF disk.spec = server.state.tree.spec
                  THEN Continue(answered, c, tree)
                  ELSE [paused EXCEPT !.calls[c].at = "build", !.calls[c].tree = disk]
    BY <1>2 DEF TakesSnapshot
  <2>2. Leaves(server, answered)
    BY AnsweredLeaves
  <2>3. Tells(answered, Continue(answered, c, tree))
    BY <2>2, ContinueTells DEF Leaves
  <2>4. Leaves(server, paused)
    BY PauseLeaves DEF Leaves
  <2> HIDE DEF tree, answered, paused
  <2>5. Leaves(paused, [paused EXCEPT !.calls[c].at = "build", !.calls[c].tree = disk])
    BY <2>4 DEF Leaves, IsServer, Fields
  <2> QED
    BY <2>1, <2>2, <2>3, <2>4, <2>5, LeavesThenTells, LeavesOn, LeavesTells
<1>3. CASE Builds(c)
  <2> DEFINE state == [tree |-> server.calls[c].tree, report |-> disk.spec]
             torn == [server EXCEPT !.torn = @ \/ state.report # state.tree.spec]
             answered == Answered(torn, c, state)
  <2>1. server' = Continue(answered, c, state)
    BY <1>3 DEF Builds
  <2> HIDE DEF state
  <2>2. Leaves(server, torn)
    BY DEF Leaves, IsServer, Fields
  <2> HIDE DEF torn
  <2>3. Leaves(torn, answered)
    BY <2>2, AnsweredLeaves DEF Leaves
  <2> HIDE DEF answered
  <2>4. Tells(answered, Continue(answered, c, state))
    BY <2>3, ContinueTells DEF Leaves
  <2> QED
    BY <2>1, <2>2, <2>3, <2>4, LeavesOn, LeavesThenTells
<1> QED
  BY <1>1, <1>2, <1>3 DEF Call

LEMMA WatchesTells ==
    ASSUME IsServer(server), Watches
    PROVE  Tells(server, server')
<1>1. server' = server \/ server' = Asked(server, "watch")
  BY DEF Watches, StartsWatching, Notices, TakesBatch, SettlesMore, Settles
<1>2. Leaves(server, server)
  BY DEF Leaves
<1> QED
  BY <1>1, <1>2, AskedLeaves, LeavesTells

LEMMA AppliesLeaves ==
    ASSUME NEW s, IsServer(s), NEW i, NEW found
    PROVE  Leaves(s, Applies(s, i, found))
<1> DEFINE p == [s EXCEPT !.sims[i].at = "over"]
           q == [s EXCEPT !.sims[i].at = "apply", !.simulated = found]
<1>1. Leaves(s, p) /\ Leaves(s, q)
  BY DEF Leaves, IsServer, Fields
<1>2. Applies(s, i, found) = IF s.sims[i].key # s.key THEN p ELSE Asked(q, "sim")
  BY DEF Applies
<1> HIDE DEF p, q
<1> QED
  BY <1>1, <1>2, AskedLeaves, LeavesOn DEF Leaves

LEMMA SimulationTells ==
    ASSUME IsServer(server), Simulation
    PROVE  Tells(server, server')
<1>1. PICK i : Starts(i) \/ Reaped(i) \/ Simulates(i)
  BY DEF Simulation
<1>2. CASE Starts(i) \/ Reaped(i)
  BY <1>2, LeavesTells DEF Starts, Reaped, Leaves, IsServer, Fields
<1>3. CASE Simulates(i)
  <2> DEFINE p == Applies(server, i, Found(disk.spec))
  <2>1. PICK torn : server' = [p EXCEPT !.torn = torn]
    BY <1>3 DEF Simulates
  <2>2. Leaves(server, p)
    BY AppliesLeaves
  <2> HIDE DEF p
  <2>3. Leaves(p, server')
    BY <2>1, <2>2 DEF Leaves, IsServer, Fields
  <2> QED
    BY <2>2, <2>3, LeavesOn, LeavesTells
<1> QED
  BY <1>1, <1>2, <1>3

\* Edits, page reads, faults.
LEMMA InputsTell ==
    ASSUME IsServer(server), Inputs
    PROVE  Tells(server, server')
<1>0. Tells(server, server)
  BY LeavesTells DEF Leaves
<1>1. ASSUME NEW tree, Edits(tree) PROVE Tells(server, server')
  BY <1>0, <1>1 DEF Edits
<1>2. ASSUME PageReads PROVE Tells(server, server')
  BY <1>2, AskedLeaves, LeavesTells DEF PageReads
<1>3. ASSUME NEW n, Publishes(n) PROVE Tells(server, server')
  BY <1>0, <1>3 DEF Publishes
<1>4. ASSUME NEW c, CallFails(c) PROVE Tells(server, server')
  <2> DEFINE p == Left(server, c)
             left == [p EXCEPT !.failed = @ \cup {c}]
             n == Current(left)
             over == [left EXCEPT !.sims[n].at = "over"]
  <2>1. server' = IF c = "sim" THEN over ELSE left
    BY <1>4 DEF CallFails
  <2>2. Leaves(server, p)
    BY LeftLeaves
  <2> HIDE DEF p, n
  <2>3. Leaves(p, left)
    BY <2>2 DEF Leaves, IsServer, Fields
  <2> HIDE DEF left
  <2>4. Leaves(left, over)
    BY <2>3 DEF Leaves, IsServer, Fields
  <2> HIDE DEF over
  <2> QED
    BY <2>1, <2>2, <2>3, <2>4, LeavesOn, LeavesTells
<1>5. ASSUME NEW i, SimulationFails(i) PROVE Tells(server, server')
  <2> DEFINE p == Applies(server, i, 0)
  <2>1. PICK failed : server' = [p EXCEPT !.failed = failed]
    BY <1>5 DEF SimulationFails
  <2>2. Leaves(server, p)
    BY AppliesLeaves
  <2> HIDE DEF p
  <2>3. Leaves(p, server')
    BY <2>1, <2>2 DEF Leaves, IsServer, Fields
  <2> QED
    BY <2>2, <2>3, LeavesOn, LeavesTells
<1>6. ASSUME WatchFails PROVE Tells(server, server')
  BY <1>0, <1>6, LeftLeaves, LeavesTells DEF WatchFails
<1> QED
  BY <1>1, <1>2, <1>3, <1>4, <1>5, <1>6 DEF Inputs

LEMMA ClosesTells ==
    ASSUME IsServer(server), Closes
    PROVE  Tells(server, server')
<1> DEFINE p == Cancel(server)
<1>1. server' = [p EXCEPT !.closed = TRUE]
  BY DEF Closes
<1>2. Leaves(server, p)
  BY CancelLeaves
<1> HIDE DEF p
<1>3. Leaves(p, server')
  BY <1>1, <1>2 DEF Leaves, IsServer, Fields
<1> QED
  BY <1>2, <1>3, LeavesOn, LeavesTells

-----------------------------------------------------------------------------
(* The followers. *)

FollowStates == {"off", "resync", "batch", "wait", "over"}
FollowSet == [at : FollowStates, cursor : Nat, batch : Seq(Nat), last : Nat,
              informed : Nat, slid : BOOLEAN]

\* What a follower has been told of the events it holds and of those behind it.
Reading(me) ==
    /\ me.at = "batch" =>
          /\ me.batch # <<>>
          /\ \A i \in 1 .. Len(me.batch) - 1 : me.batch[i + 1] = me.batch[i] + 1
          /\ me.slid \/ Head(me.batch) <= me.informed
    /\ me.at \in {"batch", "wait"} => me.cursor <= me.informed \/ me.slid

FollowInv ==
    /\ IsServer(server)
    /\ server.follow \in [Followers -> FollowSet]
    /\ \A f \in Followers : Reading(server.follow[f])

\* Only the follower f goes on.
GoesOn(s, f, me, q) ==
    IsServer(q) /\ q.log = s.log /\ q.follow = [s.follow EXCEPT ![f] = me]

LEMMA MovesOn ==
    ASSUME NEW s, NEW f, NEW me, NEW p, NEW m, NEW q, GoesOn(s, f, me, p), GoesOn(p, f, m, q)
    PROVE  GoesOn(s, f, m, q)
  BY DEF GoesOn

LEMMA LogLength ==
    ASSUME NEW s, IsServer(s)
    PROVE  /\ Len(s.log) \in Nat
           /\ Oldest(s) \in Nat /\ Oldest(s) >= 1 /\ Oldest(s) <= Len(s.log) + 1
<1>1. PICK S : s.log \in Seq(S)
  BY DEF IsServer, IsLog
<1>2. Len(s.log) \in Nat
  BY <1>1
<1>3. Window \in Nat \ {0}
  BY ChannelAssumption
<1> QED
  BY <1>2, <1>3 DEF Oldest

LEMMA ToldMoves ==
    ASSUME NEW s, IsServer(s), NEW f \in Followers, s.follow \in [Followers -> FollowSet],
           NEW seq \in Nat
    PROVE  GoesOn(s, f, [s.follow[f] EXCEPT !.last = seq,
                            !.informed = IF seq = s.follow[f].informed + 1 THEN seq
                                         ELSE s.follow[f].informed], Told(s, f, seq))
<1> DEFINE me == s.follow[f]
           a == [s EXCEPT !.follow = [s.follow EXCEPT ![f] = [me EXCEPT !.last = seq]]]
           b == [a.follow[f] EXCEPT !.informed =
                    IF seq = a.follow[f].informed + 1 THEN seq ELSE a.follow[f].informed]
           q == [a EXCEPT !.follow = [a.follow EXCEPT ![f] = b]]
<1>1. Told(s, f, seq) = q
  BY DEF Told
<1>2. me \in FollowSet
  OBVIOUS
<1> HIDE DEF me
<1>3. /\ a.follow = [s.follow EXCEPT ![f] = [me EXCEPT !.last = seq]]
      /\ IsServer(a) /\ a.log = s.log
  BY DEF IsServer, Fields
<1>4. a.follow[f] = [me EXCEPT !.last = seq]
  BY <1>3
<1>5. a.follow[f].informed = me.informed
  BY <1>2, <1>4 DEF FollowSet
<1> HIDE DEF a
<1>6. b = [me EXCEPT !.last = seq,
                     !.informed = IF seq = me.informed + 1 THEN seq ELSE me.informed]
  BY <1>4, <1>5
<1> HIDE DEF b
<1>7. q.follow = [a.follow EXCEPT ![f] = b] /\ IsServer(q) /\ q.log = s.log
  BY <1>3 DEF IsServer, Fields
<1>8. [a.follow EXCEPT ![f] = b] = [s.follow EXCEPT ![f] = b]
  BY <1>3
<1>9. GoesOn(s, f, b, q)
  BY <1>7, <1>8 DEF GoesOn
<1> HIDE DEF q
<1> QED
  BY <1>1, <1>6, <1>9 DEF me

Events(from, to) == [i \in 1 .. (to + 1 - from) |-> from + i - 1]

LEMMA Consecutive ==
    ASSUME NEW from \in Nat, NEW to \in Nat, from <= to
    PROVE  /\ Events(from, to) \in Seq(Nat) /\ Events(from, to) # <<>>
           /\ Head(Events(from, to)) = from
           /\ \A i \in 1 .. Len(Events(from, to)) - 1 :
                 Events(from, to)[i + 1] = Events(from, to)[i] + 1
<1> DEFINE n == to + 1 - from
           new == Events(from, to)
<1>1. n \in Nat /\ n >= 1
  OBVIOUS
<1>2. new = [i \in 1 .. n |-> from + i - 1]
  BY DEF Events
<1>3. \A i \in 1 .. n : from + i - 1 \in Nat
  OBVIOUS
<1> SUFFICES new \in Seq(Nat) /\ new # <<>> /\ Head(new) = from
             /\ \A i \in 1 .. Len(new) - 1 : new[i + 1] = new[i] + 1
  OBVIOUS
<1> HIDE DEF n, new
<1>4. new \in Seq(Nat) /\ Len(new) = n
  BY <1>1, <1>2, <1>3
<1>5. \A i \in 1 .. n : new[i] = from + i - 1
  BY <1>2
<1>6. new # <<>> /\ Head(new) = from
  <2>1. new[1] = from
    BY <1>1, <1>5
  <2> QED
    BY <1>1, <1>4, <2>1
<1>7. ASSUME NEW i \in 1 .. Len(new) - 1 PROVE new[i + 1] = new[i] + 1
  <2>1. i \in 1 .. n /\ i + 1 \in 1 .. n
    BY <1>1, <1>4
  <2>2. new[i + 1] = from + (i + 1) - 1 /\ new[i] = from + i - 1
    BY <1>5, <2>1
  <2> QED
    BY <2>1, <2>2
<1> QED
  BY <1>4, <1>6, <1>7

\* Nothing was missed up to the cursor, and the next event is in the window.
Ready(s, me) ==
    me.slid \/ (me.cursor <= me.informed /\ Oldest(s) <= me.cursor + 1)

LEMMA ReadMoves ==
    ASSUME NEW s, IsServer(s), NEW f \in Followers, s.follow \in [Followers -> FollowSet],
           Ready(s, s.follow[f])
    PROVE  \E me \in FollowSet : Reading(me) /\ GoesOn(s, f, me, Read(s, f))
<1> DEFINE me == s.follow[f]
           from == IF me.cursor + 1 > Oldest(s) THEN me.cursor + 1 ELSE Oldest(s)
           to == Len(s.log)
           new == [i \in 1 .. (to + 1 - from) |-> from + i - 1]
           at == IF s.closed THEN "over" ELSE "wait"
           w == [me EXCEPT !.at = at]
           b == [me EXCEPT !.at = "batch", !.batch = new]
           p == [s EXCEPT !.follow[f].at = "batch", !.follow[f].batch = new]
           rest == [s EXCEPT !.follow[f].at = at]
<1>1. Read(s, f) = IF from > to THEN rest ELSE Told(p, f, from)
  BY DEF Read
<1>2. /\ me \in FollowSet /\ Oldest(s) \in Nat /\ to \in Nat /\ me.cursor \in Nat
      /\ me.informed \in Nat /\ me.slid \in BOOLEAN
  BY LogLength DEF FollowSet
<1>3. /\ from \in Nat /\ Ready(s, me)
      /\ me.slid \/ (me.cursor <= me.informed /\ from = me.cursor + 1)
  BY <1>2 DEF Ready
<1>4. CASE from > to
  <2>1. at \in {"over", "wait"} /\ at \in FollowStates
    BY DEF FollowStates
  <2> HIDE DEF at
  <2>2. w \in FollowSet /\ w.at \in {"over", "wait"} /\ w.cursor = me.cursor
        /\ w.informed = me.informed /\ w.slid = me.slid
    BY <1>2, <2>1 DEF FollowSet
  <2>3. Reading(w)
    BY <1>3, <2>2 DEF Reading
  <2>4. rest = [s EXCEPT !.follow = [s.follow EXCEPT ![f] = w]]
    OBVIOUS
  <2> HIDE DEF rest, w
  <2>5. GoesOn(s, f, w, rest)
    BY <2>4 DEF GoesOn, IsServer, Fields
  <2> QED
    BY <1>1, <1>4, <2>2, <2>3, <2>5
<1>5. CASE ~(from > to)
  <2> DEFINE m == [p.follow[f] EXCEPT !.last = from,
                       !.informed = IF from = p.follow[f].informed + 1 THEN from
                                    ELSE p.follow[f].informed]
  <2>0. new = Events(from, to) /\ from <= to
    BY <1>2, <1>3, <1>5 DEF Events
  <2> HIDE DEF new
  <2>1. /\ new \in Seq(Nat) /\ new # <<>> /\ Head(new) = from
        /\ \A i \in 1 .. Len(new) - 1 : new[i + 1] = new[i] + 1
    <3> HIDE DEF from, to
    <3> QED
      BY <1>2, <1>3, <2>0, Consecutive
  <2>a. Ready(s, me) /\ from \in Nat
    BY <1>3
  <2> HIDE DEF from
  <2>2. /\ b \in FollowSet /\ b.at = "batch" /\ b.batch = new /\ b.cursor = me.cursor
        /\ b.informed = me.informed /\ b.slid = me.slid
    BY <1>2, <2>1 DEF FollowSet, FollowStates
  <2>3. p = [s EXCEPT !.follow = [s.follow EXCEPT ![f] = b]]
    BY DEF b
  <2> HIDE DEF p, b
  <2>4. GoesOn(s, f, b, p)
    BY <2>3 DEF GoesOn, IsServer, Fields
  <2>5. p.follow \in [Followers -> FollowSet] /\ p.follow[f] = b /\ IsServer(p)
    BY <2>2, <2>4 DEF GoesOn
  <2>6. GoesOn(p, f, m, Told(p, f, from))
    BY <2>5, <2>a, ToldMoves
  <2>7. m = [b EXCEPT !.last = from,
                      !.informed = IF from = b.informed + 1 THEN from ELSE b.informed]
    BY <2>5
  <2> HIDE DEF m
  <2>8. /\ m \in FollowSet /\ m.at = "batch" /\ m.batch = new /\ m.cursor = me.cursor
        /\ m.informed = (IF from = me.informed + 1 THEN from ELSE me.informed)
        /\ m.slid = me.slid
    BY <1>2, <2>2, <2>7, <2>a DEF FollowSet
  <2>9. me.slid \/ (me.cursor <= me.informed /\ from = me.cursor + 1)
    BY <1>3
  <2>10. m.slid \/ (m.cursor <= m.informed /\ from <= m.informed)
    BY <1>2, <2>8, <2>9
  <2>11. Reading(m)
    BY <2>1, <2>8, <2>10 DEF Reading
  <2> QED
    BY <1>1, <1>5, <2>4, <2>6, <2>8, <2>11, MovesOn
<1> QED
  BY <1>4, <1>5

\* Whatever it did, the follower is as it should be, and the others are as they were.
LEMMA FollowerMoves ==
    ASSUME FollowInv, NEW f \in Followers, NEW me \in FollowSet, Reading(me),
           GoesOn(server, f, me, server')
    PROVE  FollowInv' /\ server'.log = server.log
  BY DEF FollowInv, GoesOn

LEMMA SlidMoves ==
    ASSUME NEW s, IsServer(s), NEW f \in Followers, s.follow \in [Followers -> FollowSet]
    PROVE  GoesOn(s, f, [s.follow[f] EXCEPT !.slid =
                            s.follow[f].slid \/ s.follow[f].cursor + 1 < Oldest(s)], Slid(s, f))
<1> DEFINE m == [s.follow[f] EXCEPT !.slid =
                     s.follow[f].slid \/ s.follow[f].cursor + 1 < Oldest(s)]
<1>1. Slid(s, f) = [s EXCEPT !.follow = [s.follow EXCEPT ![f] = m]]
  BY DEF Slid
<1> HIDE DEF m
<1>2. GoesOn(s, f, m, Slid(s, f))
  BY <1>1 DEF GoesOn, IsServer, Fields
<1> QED
  BY <1>2 DEF m

\* A follower that looks for the events behind its cursor.
LEMMA LooksOn ==
    ASSUME NEW s, IsServer(s), NEW f \in Followers, s.follow \in [Followers -> FollowSet],
           s.follow[f].slid \/ s.follow[f].cursor <= s.follow[f].informed
    PROVE  \E me \in FollowSet : Reading(me) /\ GoesOn(s, f, me, Read(Slid(s, f), f))
<1> DEFINE old == s.follow[f]
           m == [old EXCEPT !.slid = old.slid \/ old.cursor + 1 < Oldest(s)]
           p == Slid(s, f)
<1>1. GoesOn(s, f, m, p)
  BY SlidMoves
<1>2. /\ old \in FollowSet /\ old.cursor \in Nat /\ old.informed \in Nat /\ Oldest(s) \in Nat
  BY LogLength DEF FollowSet
<1> HIDE DEF p
<1>3. /\ m \in FollowSet /\ m.cursor = old.cursor /\ m.informed = old.informed
      /\ old.slid => m.slid
      /\ old.cursor + 1 < Oldest(s) => m.slid
  BY <1>2 DEF FollowSet
<1> HIDE DEF m
<1>4. p.follow \in [Followers -> FollowSet] /\ p.follow[f] = m /\ IsServer(p) /\ p.log = s.log
  BY <1>1, <1>3 DEF GoesOn
<1>5. Oldest(p) = Oldest(s)
  BY <1>4 DEF Oldest
<1>6. Ready(p, p.follow[f])
  BY <1>2, <1>3, <1>4, <1>5 DEF Ready
<1>7. PICK me \in FollowSet : Reading(me) /\ GoesOn(p, f, me, Read(p, f))
  BY <1>4, <1>6, ReadMoves
<1>8. GoesOn(s, f, me, Read(p, f))
  BY <1>1, <1>7, MovesOn
<1> QED
  BY <1>7, <1>8 DEF p

LEMMA TellsKeepsFollowers ==
    ASSUME FollowInv, Tells(server, server')
    PROVE  FollowInv'
  BY DEF FollowInv, Tells

\* A follower that was moved, and then reads on.
LEMMA MovesThenReads ==
    ASSUME FollowInv, NEW f \in Followers, NEW m \in FollowSet, NEW p,
           GoesOn(server, f, m, p), Ready(p, m), server' = Read(p, f)
    PROVE  FollowInv' /\ server'.log = server.log
<1>1. p.follow \in [Followers -> FollowSet] /\ p.follow[f] = m /\ IsServer(p)
  BY DEF FollowInv, GoesOn
<1>2. PICK me \in FollowSet : Reading(me) /\ GoesOn(p, f, me, Read(p, f))
  BY <1>1, ReadMoves
<1>3. GoesOn(server, f, me, server')
  BY <1>2, MovesOn
<1> QED
  BY <1>2, <1>3, FollowerMoves

LEMMA AfterResyncReads ==
    ASSUME FollowInv, NEW f \in Followers, AfterResync(f)
    PROVE  FollowInv' /\ server'.log = server.log
<1> DEFINE old == server.follow[f]
           n == Len(server.log)
           m == [old EXCEPT !.cursor = n, !.slid = n > old.informed]
           p == [server EXCEPT !.follow[f].cursor = n, !.follow[f].slid = n > old.informed]
<1>1. server' = Read(p, f)
  BY DEF AfterResync
<1>2. /\ old \in FollowSet /\ IsServer(server) /\ n \in Nat /\ old.informed \in Nat
      /\ server.follow \in [Followers -> FollowSet]
      /\ Oldest(server) \in Nat /\ Oldest(server) <= n + 1
  BY LogLength DEF FollowInv, FollowSet
<1>3. (n > old.informed) \in BOOLEAN
  OBVIOUS
<1>4. /\ m \in FollowSet /\ m.cursor = n /\ m.informed = old.informed
      /\ n > old.informed => m.slid
  BY <1>2, <1>3 DEF FollowSet
<1>5. p = [server EXCEPT !.follow = [server.follow EXCEPT ![f] = m]]
  BY <1>2 DEF IsServer, Fields
<1> HIDE DEF p
<1>6. GoesOn(server, f, m, p)
  <2> HIDE DEF m, n
  <2> QED
    BY <1>2, <1>5 DEF GoesOn, IsServer, Fields
<1> HIDE DEF m
<1>7. Oldest(p) = Oldest(server)
  BY <1>6 DEF GoesOn, Oldest
<1>8. Ready(p, m)
  <2> HIDE DEF n, old
  <2> QED
    BY <1>2, <1>4, <1>7 DEF Ready
<1> QED
  BY <1>1, <1>4, <1>6, <1>8, MovesThenReads

LEMMA WakesReads ==
    ASSUME FollowInv, NEW f \in Followers, Wakes(f)
    PROVE  FollowInv' /\ server'.log = server.log
<1>1. server' = Read(Slid(server, f), f) /\ server.follow[f].at = "wait"
  BY DEF Wakes
<1>2. server.follow[f].slid \/ server.follow[f].cursor <= server.follow[f].informed
  BY <1>1 DEF FollowInv, Reading
<1>3. PICK me \in FollowSet : Reading(me) /\ GoesOn(server, f, me, server')
  BY <1>1, <1>2, LooksOn DEF FollowInv
<1> QED
  BY <1>3, FollowerMoves

LEMMA RestOfBatch ==
    ASSUME NEW b \in Seq(Nat), Len(b) > 1,
           \A i \in 1 .. Len(b) - 1 : b[i + 1] = b[i] + 1
    PROVE  /\ Head(b) \in Nat /\ b[2] \in Nat /\ b[2] = Head(b) + 1
           /\ Tail(b) \in Seq(Nat) /\ Tail(b) # <<>> /\ Head(Tail(b)) = b[2]
           /\ \A i \in 1 .. Len(Tail(b)) - 1 : Tail(b)[i + 1] = Tail(b)[i] + 1
<1>1. Head(b) = b[1] /\ b[1] \in Nat /\ b[2] \in Nat /\ Len(b) \in Nat
  OBVIOUS
<1>2. b[1 + 1] = b[1] + 1
  BY <1>1
<1> DEFINE t == Tail(b)
<1>3. /\ t \in Seq(Nat) /\ Len(t) = Len(b) - 1
      /\ \A i \in 1 .. Len(t) : t[i] = b[i + 1]
  <2>1. b # <<>>
    OBVIOUS
  <2> QED
    BY <2>1, HeadTailProperties
<1> HIDE DEF t
<1>4. t # <<>> /\ Head(t) = t[1] /\ t[1] = b[1 + 1]
  BY <1>1, <1>3
<1>5. ASSUME NEW i \in 1 .. Len(t) - 1 PROVE t[i + 1] = t[i] + 1
  <2>1. i \in 1 .. Len(t) /\ i + 1 \in 1 .. Len(t) /\ i + 1 \in 1 .. Len(b) - 1
    BY <1>1, <1>3
  <2>2. t[i + 1] = b[(i + 1) + 1] /\ t[i] = b[i + 1]
    BY <1>3, <2>1
  <2>3. b[(i + 1) + 1] = b[i + 1] + 1
    BY <2>1
  <2> QED
    BY <2>2, <2>3
<1> QED
  BY <1>1, <1>2, <1>3, <1>4, <1>5 DEF t

\* A follower whose client has had the event it held, and one that is given an event.
HadHead(me) == [me EXCEPT !.cursor = Head(me.batch), !.batch = Tail(me.batch)]
Given(me, seq) ==
    [me EXCEPT !.last = seq, !.informed = IF seq = me.informed + 1 THEN seq ELSE me.informed]

\* The next event of the batch follows the one the client has just had.
LEMMA NextOfBatch ==
    ASSUME NEW me \in FollowSet, Reading(me), me.at = "batch", Len(me.batch) > 1
    PROVE  /\ me.batch[2] \in Nat
           /\ Given(HadHead(me), me.batch[2]) \in FollowSet
           /\ Reading(Given(HadHead(me), me.batch[2]))
<1>1. /\ me.batch \in Seq(Nat) /\ me.informed \in Nat /\ me.slid \in BOOLEAN
  BY DEF FollowSet
<1>2. /\ \A i \in 1 .. Len(me.batch) - 1 : me.batch[i + 1] = me.batch[i] + 1
      /\ me.slid \/ Head(me.batch) <= me.informed
  BY DEF Reading
<1> DEFINE h == Head(me.batch)
           t == Tail(me.batch)
           n == me.batch[2]
           m == HadHead(me)
           q == Given(m, n)
<1>3. /\ h \in Nat /\ n \in Nat /\ n = h + 1 /\ t \in Seq(Nat) /\ t # <<>> /\ Head(t) = n
      /\ \A i \in 1 .. Len(t) - 1 : t[i + 1] = t[i] + 1
  BY <1>1, <1>2, RestOfBatch
<1>4. m = [me EXCEPT !.cursor = h, !.batch = t]
  BY DEF HadHead
<1> HIDE DEF m
<1>5. q = [m EXCEPT !.last = n, !.informed = IF n = m.informed + 1 THEN n ELSE m.informed]
  BY DEF Given
<1>6. me.slid \/ h <= me.informed
  BY <1>2
<1> HIDE DEF h, t, n, q
<1>7. /\ m \in FollowSet /\ m.cursor = h /\ m.batch = t /\ m.informed = me.informed
      /\ m.slid = me.slid /\ m.at = "batch"
  BY <1>3, <1>4 DEF FollowSet
<1>8. /\ q \in FollowSet /\ q.cursor = h /\ q.batch = t /\ q.slid = me.slid /\ q.at = "batch"
      /\ q.informed = (IF n = me.informed + 1 THEN n ELSE me.informed)
  BY <1>3, <1>5, <1>7 DEF FollowSet
<1>9. q.slid \/ (n <= q.informed /\ h <= q.informed)
  <2>1. CASE me.slid
    BY <1>8, <2>1
  <2>2. CASE h <= me.informed
    <3>0. h \in Nat /\ n \in Nat /\ n = h + 1 /\ me.informed \in Nat
      BY <1>1, <1>3
    <3>a. q.informed = (IF n = me.informed + 1 THEN n ELSE me.informed)
      BY <1>8
    <3>b. n <= me.informed \/ n = me.informed + 1
      BY <3>0, <2>2
    <3>1. q.informed \in Nat /\ n <= q.informed
      BY <3>0, <3>a, <3>b
    <3> QED
      BY <1>3, <3>1
  <2> QED
    BY <1>6, <2>1, <2>2
<1>10. Reading(q)
  BY <1>3, <1>8, <1>9 DEF Reading
<1> QED
  BY <1>3, <1>8, <1>10 DEF n, m, q

LEMMA AfterEventReads ==
    ASSUME FollowInv, NEW f \in Followers, AfterEvent(f)
    PROVE  FollowInv' /\ server'.log = server.log
<1> DEFINE old == server.follow[f]
           batch == old.batch
           m == [old EXCEPT !.cursor = Head(batch), !.batch = Tail(batch)]
           p == [server EXCEPT !.follow[f].cursor = Head(batch), !.follow[f].batch = Tail(batch)]
<1>1. /\ server' = IF Len(batch) > 1 THEN Told(p, f, batch[2]) ELSE Read(Slid(p, f), f)
      /\ old.at = "batch"
  BY DEF AfterEvent
<1>2. /\ old \in FollowSet /\ IsServer(server) /\ server.follow \in [Followers -> FollowSet]
      /\ Reading(old)
  BY DEF FollowInv
<1>3. /\ batch \in Seq(Nat) /\ batch # <<>> /\ old.informed \in Nat
      /\ old.slid \/ Head(batch) <= old.informed
  BY <1>1, <1>2 DEF Reading, FollowSet
<1>4. Head(batch) \in Nat /\ Tail(batch) \in Seq(Nat)
  <2>1. batch \in Seq(Nat) /\ batch # <<>>
    BY <1>3
  <2> HIDE DEF batch
  <2>2. Head(batch) \in Nat
    BY <2>1, HeadTailProperties
  <2>3. Tail(batch) \in Seq(Nat)
    BY <2>1, HeadTailProperties
  <2> QED
    BY <2>2, <2>3
<1>5. m \in FollowSet /\ m.cursor = Head(batch) /\ m.informed = old.informed /\ m.slid = old.slid
  BY <1>2, <1>4 DEF FollowSet
<1>6. p = [server EXCEPT !.follow = [server.follow EXCEPT ![f] = m]]
  BY <1>2 DEF IsServer, Fields
<1> HIDE DEF p
<1>7. GoesOn(server, f, m, p)
  <2> HIDE DEF m
  <2> QED
    BY <1>2, <1>6 DEF GoesOn, IsServer, Fields
<1>8. p.follow \in [Followers -> FollowSet] /\ p.follow[f] = m /\ IsServer(p)
  <2> HIDE DEF m
  <2> QED
    BY <1>2, <1>5, <1>7 DEF GoesOn
<1>9. CASE Len(batch) > 1
  <2> DEFINE q == [m EXCEPT !.last = batch[2],
                            !.informed = IF batch[2] = m.informed + 1 THEN batch[2]
                                         ELSE m.informed]
  <2>0. q = Given(HadHead(old), old.batch[2]) /\ Len(old.batch) > 1
    BY <1>9 DEF Given, HadHead
  <2>1. batch[2] \in Nat /\ q \in FollowSet /\ Reading(q)
    <3> HIDE DEF m, q, old
    <3> QED
      BY <1>1, <1>2, <2>0, NextOfBatch
  <2> DEFINE r == [p.follow[f] EXCEPT !.last = batch[2],
                            !.informed = IF batch[2] = p.follow[f].informed + 1 THEN batch[2]
                                         ELSE p.follow[f].informed]
  <2>2. GoesOn(p, f, r, Told(p, f, batch[2]))
    <3> HIDE DEF batch, m
    <3> QED
      BY <1>8, <2>1, ToldMoves
  <2>3. r = q
    BY <1>8
  <2> HIDE DEF q, r
  <2>4. GoesOn(server, f, q, server')
    <3> HIDE DEF batch, m
    <3> QED
      BY <1>1, <1>7, <1>9, <2>2, <2>3, MovesOn
  <2> QED
    BY <2>1, <2>4, FollowerMoves
<1>10. CASE ~(Len(batch) > 1)
  <2>1. p.follow[f].slid \/ p.follow[f].cursor <= p.follow[f].informed
    BY <1>3, <1>5, <1>8
  <2> HIDE DEF m
  <2>2. PICK me \in FollowSet : Reading(me) /\ GoesOn(p, f, me, Read(Slid(p, f), f))
    BY <1>8, <2>1, LooksOn
  <2>3. GoesOn(server, f, me, server')
    BY <1>1, <1>7, <1>10, <2>2, MovesOn
  <2> QED
    BY <2>2, <2>3, FollowerMoves
<1> QED
  BY <1>9, <1>10

LEMMA JoinsReads ==
    ASSUME FollowInv, NEW f \in Followers, NEW after \in Nat, Joins(f, after)
    PROVE  FollowInv' /\ server'.log = server.log
<1> DEFINE old == server.follow[f]
           n == Len(server.log)
           loaded == after = n
           one == IF n > 0 THEN n ELSE 1
           m == [old EXCEPT !.at = "resync", !.slid = FALSE, !.batch = <<>>, !.last = one,
                            !.informed = n]
           k == AtCursor(old, after, n)
           s == [server EXCEPT !.follow[f] = m]
           p == [server EXCEPT !.follow[f] = k]
<1>1. /\ StaleCursor(server, after) => server' = s
      /\ ~StaleCursor(server, after) => server' = Read(p, f)
  <2>1. StaleCursor(server, after) => server' = s
    BY DEF Joins
  <2>2. ~StaleCursor(server, after) => server' = Read(p, f)
    BY DEF Joins
  <2> QED
    BY <2>1, <2>2
<1>2. /\ old \in FollowSet /\ IsServer(server) /\ server.follow \in [Followers -> FollowSet]
      /\ old.informed \in Nat /\ n \in Nat /\ Oldest(server) \in Nat
  BY LogLength DEF FollowInv, FollowSet
<1>3. m \in FollowSet /\ m.at = "resync"
  <2>1. one \in Nat
    BY <1>2
  <2>2. m.at = "resync" /\ <<>> \in Seq(Nat) /\ FALSE \in BOOLEAN /\ "resync" \in FollowStates
    BY <1>2 DEF FollowSet, FollowStates
  <2> HIDE DEF one, n
  <2> QED
    BY <1>2, <2>1, <2>2 DEF FollowSet
<1>4. /\ k \in FollowSet /\ k.cursor = after
      /\ k.informed = (IF loaded THEN after ELSE old.informed)
      /\ ~loaded /\ after > old.informed => k.slid
  <2> DEFINE i == IF loaded THEN after ELSE old.informed
             b == ~loaded /\ after > old.informed
  <2>1. i \in Nat /\ b \in BOOLEAN /\ <<>> \in Seq(Nat)
    BY <1>2
  <2>2. k = [old EXCEPT !.cursor = after, !.last = after, !.batch = <<>>, !.informed = i,
                        !.slid = b]
    BY DEF AtCursor
  <2> HIDE DEF k, i, b
  <2>3. k \in FollowSet /\ k.cursor = after /\ k.informed = i /\ k.slid = b
    BY <1>2, <2>1, <2>2 DEF FollowSet
  <2> QED
    BY <2>3 DEF i, b
<1>5. CASE StaleCursor(server, after)
  <2>1. Reading(m)
    BY <1>3 DEF Reading
  <2> HIDE DEF m
  <2>2. GoesOn(server, f, m, s)
    BY <1>2 DEF GoesOn, IsServer, Fields
  <2> QED
    BY <1>1, <1>3, <1>5, <2>1, <2>2, FollowerMoves
<1>6. CASE ~StaleCursor(server, after)
  <2>1. after <= n /\ Oldest(server) <= after + 1
    BY <1>2, <1>6 DEF StaleCursor
  <2>2. k.slid \/ (k.cursor <= k.informed /\ Oldest(server) <= k.cursor + 1)
    <3> HIDE DEF k, n
    <3> QED
      BY <1>2, <1>4, <2>1
  <2> HIDE DEF k
  <2>3. GoesOn(server, f, k, p)
    BY <1>2 DEF GoesOn, IsServer, Fields
  <2>4. Oldest(p) = Oldest(server)
    BY <2>3 DEF GoesOn, Oldest
  <2>5. Ready(p, k)
    BY <2>2, <2>4 DEF Ready
  <2> QED
    BY <1>1, <1>4, <1>6, <2>3, <2>5, MovesThenReads
<1> QED
  BY <1>5, <1>6

-----------------------------------------------------------------------------
(* The notices. *)

NoticeKinds == {"deliver", "announce", "flushed"}
ItemSet == [kind : NoticeKinds, n : Nat]
RelaySet == [ready : Seq(ItemSet), cooling : BOOLEAN, held : Nat, timer : BOOLEAN,
             published : Nat, raced : BOOLEAN]

\* How far a notice has got, the furthest first.
Rank(kind) == CASE kind = "flushed" -> 0 [] kind = "announce" -> 1 [] OTHER -> 2

\* What is so of two items of the queue, the one before the other: a notice that
\* has got further is an older one, and no progress that was held back waits
\* behind a notice that is about to be told, or behind other such progress.
Apart(a, b) ==
    /\ Rank(a.kind) < Rank(b.kind) => a.n < b.n
    /\ Rank(b.kind) < Rank(a.kind) => b.n < a.n
    /\ a.kind = b.kind => a.n < b.n
    /\ b.kind = "flushed" => a.kind = "deliver"

Line(queue) == \A i, j \in 1 .. Len(queue) : i < j => Apart(queue[i], queue[j])

\* The progress that is held back is older than all that is on its way.
HeldIsNext(r) ==
    r.timer => /\ r.held <= r.published
               /\ \A j \in 1 .. Len(r.ready) : r.ready[j].kind # "flushed" /\ r.held < r.ready[j].n

NoticesOf(log) == {i \in 1 .. Len(log) : log[i].type = "notice"}

\* What has been told is older than what is still to be told.
ToldBefore(r, log) ==
    \A i \in NoticesOf(log) :
        /\ log[i].n \in Nat /\ log[i].n <= r.published
        /\ r.timer => log[i].n < r.held
        /\ \A j \in 1 .. Len(r.ready) : log[i].n < r.ready[j].n

ToldInOrder(log) == \A i, j \in NoticesOf(log) : i < j => log[i].n < log[j].n

Ordered(r, log) ==
    /\ \A j \in 1 .. Len(r.ready) : r.ready[j].n <= r.published
    /\ Line(r.ready)
    /\ HeldIsNext(r)
    /\ ToldBefore(r, log)
    /\ ToldInOrder(log)

RelayInv == relay \in RelaySet /\ (relay.raced \/ Ordered(relay, server.log))

LEMMA LineTail ==
    ASSUME NEW q \in Seq(ItemSet), q # <<>>, Line(q), NEW t, t = Tail(q)
    PROVE  /\ t \in Seq(ItemSet) /\ Line(t) /\ Head(q) \in ItemSet /\ Head(q) = q[1]
           /\ 1 \in 1 .. Len(q) /\ Len(t) \in Nat
           /\ \A j \in 1 .. Len(t) : /\ j + 1 \in 1 .. Len(q) /\ t[j] = q[j + 1]
                                     /\ t[j] \in ItemSet /\ Apart(Head(q), t[j])
<1>1. /\ t \in Seq(ItemSet) /\ Len(t) = Len(q) - 1 /\ Len(q) \in Nat /\ Len(q) >= 1
      /\ \A j \in 1 .. Len(t) : t[j] = q[j + 1]
  BY HeadTailProperties
<1>2. Head(q) = q[1] /\ q[1] \in ItemSet /\ Len(t) \in Nat /\ 1 \in 1 .. Len(q)
  BY <1>1
<1>3. Line(t)
  <2> SUFFICES ASSUME NEW i \in 1 .. Len(t), NEW j \in 1 .. Len(t), i < j
               PROVE  Apart(t[i], t[j])
    BY DEF Line
  <2>1. i + 1 \in 1 .. Len(q) /\ j + 1 \in 1 .. Len(q) /\ i + 1 < j + 1
    BY <1>1
  <2>2. Apart(q[i + 1], q[j + 1])
    BY <2>1 DEF Line
  <2> QED
    BY <1>1, <2>2
<1>4. ASSUME NEW j \in 1 .. Len(t)
      PROVE  j + 1 \in 1 .. Len(q) /\ t[j] = q[j + 1] /\ t[j] \in ItemSet /\ Apart(Head(q), t[j])
  <2>1. j + 1 \in 1 .. Len(q) /\ 1 < j + 1 /\ t[j] = q[j + 1] /\ t[j] \in ItemSet
    BY <1>1
  <2>2. Apart(q[1], q[j + 1])
    BY <1>2, <2>1 DEF Line
  <2> QED
    BY <1>2, <2>1, <2>2
<1> QED
  BY <1>1, <1>2, <1>3, <1>4

LEMMA LineAppend ==
    ASSUME NEW q \in Seq(ItemSet), Line(q), NEW x \in ItemSet, NEW z, z = Append(q, x),
           \A j \in 1 .. Len(q) : Apart(q[j], x)
    PROVE  /\ z \in Seq(ItemSet) /\ Line(z) /\ Len(q) \in Nat
           /\ \A j \in 1 .. Len(z) : (j \in 1 .. Len(q) /\ z[j] = q[j]) \/ z[j] = x
<1>1. /\ z \in Seq(ItemSet) /\ Len(z) = Len(q) + 1 /\ Len(q) \in Nat /\ z[Len(q) + 1] = x
      /\ \A j \in 1 .. Len(q) : z[j] = q[j]
  BY AppendProperties
<1>2. \A j \in 1 .. Len(z) : j \in 1 .. Len(q) \/ j = Len(q) + 1
  BY <1>1
<1>3. Line(z)
  <2> SUFFICES ASSUME NEW i \in 1 .. Len(z), NEW j \in 1 .. Len(z), i < j
               PROVE  Apart(z[i], z[j])
    BY DEF Line
  <2>1. i \in 1 .. Len(q)
    BY <1>1
  <2>2. CASE j \in 1 .. Len(q)
    BY <1>1, <2>1, <2>2 DEF Line
  <2>3. CASE j = Len(q) + 1
    BY <1>1, <2>1, <2>3
  <2> QED
    BY <1>2, <2>2, <2>3
<1> QED
  BY <1>1, <1>2, <1>3

\* A notice is told.
With(log, e) == log \o <<e>>

LEMMA NoticeTold ==
    ASSUME NEW log, IsLog(log), NEW e, e.type = "notice"
    PROVE  /\ IsLog(With(log, e))
           /\ \A i \in NoticesOf(With(log, e)) :
                 \/ i \in NoticesOf(log) /\ With(log, e)[i] = log[i]
                 \/ i = Len(log) + 1 /\ With(log, e)[i] = e
           /\ Len(log) \in Nat
<1>1. PICK one : one = <<e>>
  OBVIOUS
<1>2. IsLog(one) /\ Len(one) = 1 /\ one[1] = e
  <2>1. one \in Seq({e})
    BY <1>1
  <2> QED
    BY <1>1, <2>1 DEF IsLog
<1> DEFINE w == log \o one
<1>3. With(log, e) = w
  BY <1>1 DEF With
<1>4. w = log \o one
  OBVIOUS
<1> HIDE DEF w
<1>5. /\ IsLog(w) /\ Len(log) \in Nat /\ Len(w) = Len(log) + Len(one)
      /\ \A i \in 1 .. Len(log) : w[i] = log[i]
      /\ \A i \in 1 .. Len(one) : w[Len(log) + i] = one[i]
  <2>1. IsLog(w)
    BY <1>2, LogsConcatenate DEF w
  <2>2. Len(log) \in Nat /\ Len(one) \in Nat
    BY <1>2, LogsConcatenate DEF w
  <2>3. Len(w) = Len(log) + Len(one)
    BY <1>2, LogsConcatenate DEF w
  <2>4. \A i \in 1 .. Len(log) : w[i] = log[i]
    BY <1>2, LogsConcatenate DEF w
  <2>5. \A i \in 1 .. Len(one) : w[Len(log) + i] = one[i]
    BY <1>2, LogsConcatenate DEF w
  <2> QED
    BY <2>1, <2>2, <2>3, <2>4, <2>5
<1>6. w[Len(log) + 1] = e /\ Len(w) = Len(log) + 1
  BY <1>2, <1>5
<1> QED
  BY <1>3, <1>5, <1>6 DEF NoticesOf

\* Other events change nothing about the notices.
LEMMA TellsKeepsNotices ==
    ASSUME NEW s, IsServer(s), NEW q, Tells(s, q), NEW r, Ordered(r, s.log)
    PROVE  Ordered(r, q.log)
<1>1. PICK events : NoNotices(events) /\ q.log = s.log \o events
  BY DEF Tells
<1> DEFINE log == s.log
           w == q.log
<1>2. /\ Len(log) \in Nat /\ \A i \in 1 .. Len(log) : w[i] = log[i]
      /\ \A i \in 1 .. Len(events) : w[Len(log) + i] = events[i]
      /\ \A i \in 1 .. Len(w) : i \in 1 .. Len(log) \/ i - Len(log) \in 1 .. Len(events)
      /\ Len(events) \in Nat
  BY <1>1, LogsConcatenate DEF IsServer, NoNotices
<1> HIDE DEF log, w
<1>3. ASSUME NEW i \in NoticesOf(w) PROVE i \in NoticesOf(log) /\ w[i] = log[i]
  <2>1. CASE i - Len(log) \in 1 .. Len(events)
    <3> DEFINE k == i - Len(log)
    <3>1. w[Len(log) + k] = events[k] /\ events[k].type # "notice"
      BY <1>1, <1>2, <2>1 DEF NoNotices
    <3>2. i \in Int /\ Len(log) + k = i
      BY <1>2 DEF NoticesOf
    <3> QED
      BY <3>1, <3>2 DEF NoticesOf
  <2> QED
    BY <1>2, <2>1 DEF NoticesOf
<1>4. ToldBefore(r, log) /\ ToldInOrder(log)
  BY DEF Ordered, log
<1>5. ToldBefore(r, w)
  BY <1>3, <1>4 DEF ToldBefore
<1>6. ToldInOrder(w)
  BY <1>3, <1>4 DEF ToldInOrder
<1> QED
  BY <1>5, <1>6 DEF Ordered, w

\* The oldest notice of all is told: nothing that is still to come is older.
LEMMA OldestTold ==
    ASSUME NEW log, IsLog(log), NEW r, Ordered(r, log), NEW n \in Nat, n <= r.published,
           \A i \in NoticesOf(log) : log[i].n < n,
           NEW e, e.type = "notice", e.n = n, NEW w, w = With(log, e),
           NEW p, p.published = r.published, ~p.timer,
           \A j \in 1 .. Len(p.ready) : n < p.ready[j].n,
           \A j \in 1 .. Len(p.ready) : \A i \in NoticesOf(log) : log[i].n < p.ready[j].n
    PROVE  ToldBefore(p, w) /\ ToldInOrder(w)
<1>1. \A i \in NoticesOf(w) : \/ i \in NoticesOf(log) /\ w[i] = log[i]
                              \/ i = Len(log) + 1 /\ w[i] = e
  BY NoticeTold
<1>2. ToldBefore(r, log) /\ ToldInOrder(log)
  BY DEF Ordered
<1>3. ToldBefore(p, w)
  BY <1>1, <1>2 DEF ToldBefore
<1>4. ToldInOrder(w)
  <2> SUFFICES ASSUME NEW i \in NoticesOf(w), NEW j \in NoticesOf(w), i < j
               PROVE  w[i].n < w[j].n
    BY DEF ToldInOrder
  <2>1. Len(log) \in Nat
    BY NoticeTold
  <2>2. i \in NoticesOf(log) /\ w[i] = log[i]
    <3>1. j \in 1 .. Len(log) \/ j = Len(log) + 1
      BY <1>1 DEF NoticesOf
    <3>2. CASE i = Len(log) + 1
      BY <2>1, <3>1, <3>2
    <3> QED
      BY <1>1, <3>2
  <2> QED
    BY <1>1, <1>2, <2>2 DEF ToldInOrder
<1> QED
  BY <1>3, <1>4

LEMMA AnnouncedAdds ==
    ASSUME IsServer(server), NEW n, Announced(n)
    PROVE  /\ IsServer(server') /\ server'.follow = server.follow
           /\ \E e : e.type = "notice" /\ e.n = n /\ server'.log = With(server.log, e)
<1> DEFINE e == Notice(n)
<1>1. e.type = "notice" /\ e.n = n
  BY DEF Notice, Event
<1> HIDE DEF e
<1>2. server' = [server EXCEPT !.log = With(server.log, e)]
  BY DEF Announced, Publish, With, e
<1>3. IsLog(With(server.log, e))
  BY <1>1, NoticeTold DEF IsServer
<1>4. DOMAIN server' = Fields /\ server'.follow = server.follow
      /\ server'.log = With(server.log, e)
  BY <1>2 DEF IsServer, Fields
<1> QED
  BY <1>1, <1>3, <1>4 DEF IsServer

\* What Ordered says of the head of the queue and of the others.
LEMMA HeadFacts ==
    ASSUME NEW r \in RelaySet, NEW log, Ordered(r, log), r.ready # <<>>,
           NEW h, h = Head(r.ready), NEW t, t = Tail(r.ready)
    PROVE  /\ t \in Seq(ItemSet) /\ Line(t) /\ h \in ItemSet /\ h.n <= r.published
           /\ Len(t) \in Nat
           /\ \A j \in 1 .. Len(t) : t[j] \in ItemSet /\ Apart(h, t[j]) /\ t[j].n <= r.published
           /\ \A i \in NoticesOf(log) : /\ log[i].n \in Nat /\ log[i].n <= r.published
                                        /\ log[i].n < h.n
                                        /\ \A j \in 1 .. Len(t) : log[i].n < t[j].n
           /\ r.timer => /\ h.kind # "flushed" /\ r.held < h.n
                         /\ \A j \in 1 .. Len(t) : t[j].kind # "flushed" /\ r.held < t[j].n
<1>1. r.ready \in Seq(ItemSet)
  BY DEF RelaySet
<1>2. /\ t \in Seq(ItemSet) /\ Line(t) /\ h \in ItemSet /\ h = r.ready[1]
      /\ 1 \in 1 .. Len(r.ready) /\ Len(t) \in Nat
      /\ \A j \in 1 .. Len(t) : /\ j + 1 \in 1 .. Len(r.ready) /\ t[j] = r.ready[j + 1]
                                /\ t[j] \in ItemSet /\ Apart(h, t[j])
  BY <1>1, LineTail DEF Ordered
<1>3. /\ \A j \in 1 .. Len(r.ready) : r.ready[j].n <= r.published
      /\ HeldIsNext(r) /\ ToldBefore(r, log)
  BY DEF Ordered
<1>4. h.n <= r.published /\ \A j \in 1 .. Len(t) : t[j].n <= r.published
  BY <1>2, <1>3
<1>5. ASSUME NEW i \in NoticesOf(log)
      PROVE  /\ log[i].n \in Nat /\ log[i].n <= r.published /\ log[i].n < h.n
             /\ \A j \in 1 .. Len(t) : log[i].n < t[j].n
  BY <1>2, <1>3 DEF ToldBefore
<1>6. ASSUME r.timer
      PROVE  /\ h.kind # "flushed" /\ r.held < h.n
             /\ \A j \in 1 .. Len(t) : t[j].kind # "flushed" /\ r.held < t[j].n
  BY <1>2, <1>3, <1>6 DEF HeldIsNext
<1> QED
  BY <1>2, <1>4, <1>5, <1>6

ChannelInv == FollowInv /\ RelayInv

LEMMA StatusType == Status \in Nat /\ Total \in Nat
  BY ChannelAssumption DEF Status

LEMMA DeliversInv ==
    ASSUME ChannelInv, Delivers
    PROVE  ChannelInv'
<1> DEFINE q == relay.ready
           h == Head(q)
           t == Tail(q)
           n == h.n
           next == [relay EXCEPT !.ready = t]
           log == server.log
<1>1. relay \in RelaySet /\ q \in Seq(ItemSet) /\ q # <<>> /\ IsServer(server) /\ IsLog(log)
  BY DEF ChannelInv, RelayInv, FollowInv, IsServer, RelaySet, Delivers
<1>2. h \in ItemSet /\ t \in Seq(ItemSet)
  <2> HIDE DEF q
  <2> QED
    BY <1>1, HeadTailProperties
<1>3. n \in Nat /\ h.kind \in NoticeKinds
  BY <1>2 DEF ItemSet
<1>4. \/ /\ h.kind = "deliver" /\ server' = server
         /\ relay' = [next EXCEPT !.ready = Append(t, Item("announce", n))]
      \/ h.kind = "flushed" /\ relay' = next /\ Announced(n)
      \/ h.kind = "announce" /\ relay' = Drop(next) /\ Announced(n)
      \/ h.kind = "announce" /\ relay' = [Drop(next) EXCEPT !.cooling = TRUE] /\ Announced(n)
      \/ /\ h.kind = "announce" /\ server' = server
         /\ relay' = [next EXCEPT !.held = n, !.timer = TRUE]
  BY <1>3 DEF Delivers, NoticeKinds
<1> HIDE DEF q, h, t, n, log
<1>5. next \in RelaySet /\ next.ready = t /\ next.cooling = relay.cooling
      /\ next.held = relay.held /\ next.timer = relay.timer
      /\ next.published = relay.published /\ next.raced = relay.raced
  BY <1>1, <1>2 DEF RelaySet
<1>6. ASSUME ~relay.raced
      PROVE  /\ Ordered(relay, log)
             /\ Line(t) /\ n <= relay.published /\ relay.published \in Nat /\ Len(t) \in Nat
             /\ \A j \in 1 .. Len(t) : /\ t[j] \in ItemSet /\ Apart(h, t[j])
                                       /\ t[j].n <= relay.published
             /\ \A i \in NoticesOf(log) : /\ log[i].n \in Nat /\ log[i].n <= relay.published
                                          /\ log[i].n < n
                                          /\ \A j \in 1 .. Len(t) : log[i].n < t[j].n
             /\ relay.timer => /\ h.kind # "flushed" /\ relay.held < n
                               /\ \A j \in 1 .. Len(t) : t[j].kind # "flushed"
                                                         /\ relay.held < t[j].n
  <2>1. Ordered(relay, log) /\ h = Head(relay.ready) /\ t = Tail(relay.ready)
        /\ relay.ready # <<>> /\ n = h.n
    BY <1>1, <1>6 DEF ChannelInv, RelayInv, q, h, t, n, log
  <2> QED
    BY <1>1, <2>1, HeadFacts DEF RelaySet
<1> HIDE DEF next
\* Nothing behind an item that has got as far as this one can is older.
<1>7. ASSUME ~relay.raced, h.kind \in {"announce", "flushed"}
      PROVE  \A j \in 1 .. Len(t) : n < t[j].n /\ t[j].kind # "flushed"
  <2> SUFFICES ASSUME NEW j \in 1 .. Len(t) PROVE n < t[j].n /\ t[j].kind # "flushed"
    OBVIOUS
  <2>1. Apart(h, t[j]) /\ t[j].kind \in NoticeKinds
    BY <1>6, <1>7 DEF ItemSet
  <2>2. t[j].kind # "flushed"
    BY <1>7, <2>1 DEF Apart
  <2>3. h.kind = t[j].kind \/ Rank(h.kind) < Rank(t[j].kind)
    BY <1>7, <2>1, <2>2 DEF Rank, NoticeKinds
  <2> QED
    BY <2>1, <2>2, <2>3 DEF Apart, n
<1>8. ASSUME h.kind = "deliver", server' = server,
             relay' = [next EXCEPT !.ready = Append(t, Item("announce", n))]
      PROVE  ChannelInv'
  <2> DEFINE x == Item("announce", n)
             z == Append(t, x)
  <2>1. x \in ItemSet /\ x.kind = "announce" /\ x.n = n
    BY <1>3 DEF Item, ItemSet, NoticeKinds
  <2>2. z \in Seq(ItemSet)
    BY <1>2, <2>1
  <2>3. z = Append(t, x)
    OBVIOUS
  <2> HIDE DEF x, z
  <2>4. /\ relay' \in RelaySet /\ relay'.ready = z /\ relay'.held = relay.held
        /\ relay'.timer = relay.timer /\ relay'.published = relay.published
        /\ relay'.raced = relay.raced
    BY <1>5, <1>8, <2>2 DEF RelaySet, x, z
  <2>5. ASSUME ~relay.raced PROVE Ordered(relay', log)
    <3>1. \A j \in 1 .. Len(t) : Apart(t[j], x)
      <4> SUFFICES ASSUME NEW j \in 1 .. Len(t) PROVE Apart(t[j], x)
        OBVIOUS
      <4>1. Apart(h, t[j]) /\ t[j].kind \in NoticeKinds /\ t[j].n \in Nat
        BY <1>6, <2>5 DEF ItemSet
      <4>2. CASE t[j].kind = "deliver"
        <5>1. n < t[j].n
          BY <1>8, <4>1, <4>2 DEF Apart, n
        <5> QED
          BY <2>1, <4>2, <5>1 DEF Apart, Rank
      <4>3. CASE t[j].kind # "deliver"
        <5>1. Rank(t[j].kind) < Rank(h.kind)
          BY <1>8, <4>1, <4>3 DEF Rank, NoticeKinds
        <5>2. t[j].n < n
          BY <4>1, <5>1 DEF Apart, n
        <5>3. ~(Rank(x.kind) < Rank(t[j].kind))
          BY <2>1, <4>1, <4>3 DEF Rank, NoticeKinds
        <5> QED
          BY <2>1, <5>2, <5>3 DEF Apart
      <4> QED
        BY <4>2, <4>3
    <3>2. Line(z) /\ \A j \in 1 .. Len(z) : (j \in 1 .. Len(t) /\ z[j] = t[j]) \/ z[j] = x
      <4>1. t \in Seq(ItemSet) /\ Line(t) /\ x \in ItemSet /\ z = Append(t, x)
        BY <1>2, <1>6, <2>1, <2>3, <2>5
      <4>2. Line(z)
        BY <4>1, <3>1, LineAppend
      <4>3. \A j \in 1 .. Len(z) : (j \in 1 .. Len(t) /\ z[j] = t[j]) \/ z[j] = x
        BY <4>1, <3>1, LineAppend
      <4> QED
        BY <4>2, <4>3
    <3>3. \A j \in 1 .. Len(z) : z[j].n <= relay.published
      BY <1>6, <2>1, <2>5, <3>2
    <3>4. HeldIsNext(relay')
      <4>1. HeldIsNext(relay)
        BY <1>6, <2>5 DEF Ordered
      <4> QED
        BY <1>6, <2>1, <2>4, <2>5, <3>2, <4>1 DEF HeldIsNext
    <3>5. ToldBefore(relay', log)
      <4>1. ToldBefore(relay, log)
        BY <1>6, <2>5 DEF Ordered
      <4> QED
        BY <1>6, <2>1, <2>4, <2>5, <3>2, <4>1 DEF ToldBefore
    <3> QED
      BY <1>6, <2>4, <2>5, <3>2, <3>3, <3>4, <3>5 DEF Ordered
  <2>6. FollowInv'
    BY <1>8 DEF ChannelInv, FollowInv
  <2> QED
    BY <1>8, <2>4, <2>5, <2>6 DEF ChannelInv, RelayInv, log
\* The item is told; what was held back, if it still is, is not.
<1>9. ASSUME h.kind \in {"announce", "flushed"}, Announced(n), relay' \in RelaySet,
             relay'.ready = t, relay'.published = relay.published, relay'.raced = relay.raced,
             relay.raced \/ ~relay'.timer
      PROVE  ChannelInv'
  <2>1. PICK e : e.type = "notice" /\ e.n = n /\ server'.log = With(log, e)
    BY <1>1, <1>9, AnnouncedAdds DEF log
  <2>2. IsServer(server') /\ server'.follow = server.follow
    BY <1>1, <1>9, AnnouncedAdds
  <2>3. FollowInv'
    BY <2>2 DEF ChannelInv, FollowInv
  <2>4. ASSUME ~relay.raced PROVE Ordered(relay', server'.log)
    <3>1. ToldBefore(relay', server'.log) /\ ToldInOrder(server'.log)
      <4>1. Ordered(relay, log) /\ n <= relay.published /\ \A i \in NoticesOf(log) : log[i].n < n
        BY <1>6, <2>4
      <4>2. \A j \in 1 .. Len(relay'.ready) : n < relay'.ready[j].n
        BY <1>7, <1>9, <2>4
      <4>3. \A j \in 1 .. Len(relay'.ready) : \A i \in NoticesOf(log) :
                log[i].n < relay'.ready[j].n
        BY <1>6, <1>9, <2>4
      <4>4. IsLog(log) /\ n \in Nat /\ ~relay'.timer /\ relay'.published = relay.published
        BY <1>1, <1>3, <1>9, <2>4
      <4> QED
        BY <2>1, <4>1, <4>2, <4>3, <4>4, OldestTold
    <3>2. HeldIsNext(relay')
      BY <1>9, <2>4 DEF HeldIsNext
    <3> QED
      BY <1>6, <1>9, <2>4, <3>1, <3>2 DEF Ordered
  <2> QED
    BY <1>9, <2>3, <2>4 DEF ChannelInv, RelayInv
<1>10. ASSUME h.kind = "flushed", relay' = next, Announced(n) PROVE ChannelInv'
  <2>1. relay.raced \/ ~relay'.timer
    BY <1>5, <1>6, <1>10
  <2> QED
    BY <1>5, <1>9, <1>10, <2>1
<1>11. ASSUME h.kind = "announce", Announced(n),
              relay' = Drop(next) \/ relay' = [Drop(next) EXCEPT !.cooling = TRUE]
       PROVE  ChannelInv'
  <2>1. /\ relay' \in RelaySet /\ relay'.ready = t /\ relay'.published = relay.published
        /\ relay'.raced = relay.raced /\ relay'.timer = FALSE
    <3> DEFINE d == Drop(next)
    <3>1. /\ d \in RelaySet /\ d.ready = t /\ d.published = relay.published
          /\ d.raced = relay.raced /\ d.timer = FALSE
      BY <1>5 DEF Drop, RelaySet
    <3>2. relay' = d \/ relay' = [d EXCEPT !.cooling = TRUE]
      BY <1>11
    <3> HIDE DEF d
    <3> QED
      BY <3>1, <3>2 DEF RelaySet
  <2> QED
    BY <1>9, <1>11, <2>1
<1>12. ASSUME h.kind = "announce", server' = server,
              relay' = [next EXCEPT !.held = n, !.timer = TRUE]
       PROVE  ChannelInv'
  <2>1. /\ relay' \in RelaySet /\ relay'.ready = t /\ relay'.held = n /\ relay'.timer = TRUE
        /\ relay'.published = relay.published /\ relay'.raced = relay.raced
    BY <1>3, <1>5, <1>12 DEF RelaySet
  <2>2. ASSUME ~relay.raced PROVE Ordered(relay', log)
    <3>1. HeldIsNext(relay')
      BY <1>6, <1>7, <1>12, <2>1, <2>2 DEF HeldIsNext
    <3>2. ToldBefore(relay', log)
      BY <1>6, <2>1, <2>2 DEF ToldBefore
    <3> QED
      BY <1>6, <2>1, <2>2, <3>1, <3>2 DEF Ordered
  <2>3. FollowInv'
    BY <1>12 DEF ChannelInv, FollowInv
  <2> QED
    BY <1>12, <2>1, <2>2, <2>3 DEF ChannelInv, RelayInv, log
<1> QED
  BY <1>4, <1>8, <1>10, <1>11, <1>12

LEMMA FlushInv ==
    ASSUME ChannelInv, Flush
    PROVE  ChannelInv'
<1> DEFINE q == relay.ready
           x == Item("flushed", relay.held)
           z == Append(q, x)
           log == server.log
           kinds == {<<relay.ready[i].kind, relay.ready[i].n>> : i \in 1 .. Len(relay.ready)}
           late == \E k \in kinds : k[1] = "announce"
           raced == relay.raced \/ late
           d == Drop(relay)
<1>1. relay \in RelaySet /\ q \in Seq(ItemSet) /\ relay.held \in Nat /\ relay.raced \in BOOLEAN
  BY DEF ChannelInv, RelayInv, RelaySet
<1>2. x \in ItemSet /\ x.kind = "flushed" /\ x.n = relay.held /\ z = Append(q, x)
  BY <1>1 DEF Item, ItemSet, NoticeKinds
<1>3. /\ relay.timer /\ server' = server
      /\ relay' = [d EXCEPT !.cooling = TRUE, !.ready = Append(@, x), !.raced = @ \/ late]
  BY DEF Flush
<1>4. /\ d \in RelaySet /\ d.ready = q /\ d.published = relay.published
      /\ d.raced = relay.raced /\ d.timer = FALSE
  BY <1>1 DEF Drop, RelaySet
<1>5. ~late => \A j \in 1 .. Len(q) : q[j].kind # "announce"
  <2> SUFFICES ASSUME NEW j \in 1 .. Len(q), q[j].kind = "announce" PROVE late
    OBVIOUS
  <2>1. <<q[j].kind, q[j].n>> \in kinds
    OBVIOUS
  <2>2. <<q[j].kind, q[j].n>>[1] = "announce"
    OBVIOUS
  <2> HIDE DEF kinds
  <2> QED
    BY <2>1, <2>2
<1>6. z \in Seq(ItemSet)
  <2> HIDE DEF q, x
  <2> QED
    BY <1>1, <1>2
<1>7. late \in BOOLEAN /\ (relay.raced \/ late) \in BOOLEAN
  BY <1>1
<1> HIDE DEF q, x, z, log, kinds, late, d
<1>8. /\ relay' \in RelaySet /\ relay'.ready = z /\ relay'.published = relay.published
      /\ relay'.timer = FALSE
      /\ ~relay'.raced => ~relay.raced /\ ~late
  <2>1. relay' = [d EXCEPT !.cooling = TRUE, !.ready = z, !.raced = raced]
    BY <1>2, <1>3, <1>4
  <2>2. raced \in BOOLEAN /\ (~raced => ~relay.raced /\ ~late)
    BY <1>1, <1>7
  <2> HIDE DEF raced
  <2>3. relay'.raced = raced /\ relay'.ready = z /\ relay'.timer = d.timer
        /\ relay'.published = d.published /\ relay' \in RelaySet
    BY <1>4, <1>6, <2>1, <2>2 DEF RelaySet
  <2> QED
    BY <1>4, <2>2, <2>3
<1>9. ASSUME ~relay'.raced PROVE Ordered(relay', log)
  <2>1. /\ Ordered(relay, log) /\ Line(q) /\ HeldIsNext(relay) /\ ToldBefore(relay, log)
        /\ \A j \in 1 .. Len(q) : q[j].n <= relay.published
    BY <1>8, <1>9 DEF ChannelInv, RelayInv, Ordered, q, log
  <2>2. /\ relay.held <= relay.published
        /\ \A j \in 1 .. Len(q) : q[j].kind # "flushed" /\ relay.held < q[j].n
    BY <1>3, <2>1 DEF HeldIsNext, q
  <2>3. \A j \in 1 .. Len(q) : q[j] \in ItemSet /\ q[j].kind = "deliver"
    <3> SUFFICES ASSUME NEW j \in 1 .. Len(q) PROVE q[j] \in ItemSet /\ q[j].kind = "deliver"
      OBVIOUS
    <3>1. q[j] \in ItemSet
      BY <1>1
    <3>2. q[j].kind \in NoticeKinds
      BY <3>1 DEF ItemSet
    <3> QED
      BY <1>5, <1>8, <1>9, <2>2, <3>1, <3>2 DEF NoticeKinds
  <2>4. \A j \in 1 .. Len(q) : Apart(q[j], x)
    <3> SUFFICES ASSUME NEW j \in 1 .. Len(q) PROVE Apart(q[j], x)
      OBVIOUS
    <3>1. q[j].kind = "deliver" /\ relay.held < q[j].n
      BY <2>2, <2>3
    <3> QED
      BY <1>2, <3>1 DEF Apart, Rank
  <2>5. Line(z)
    BY <1>1, <1>2, <2>1, <2>4, LineAppend
  <2>6. \A j \in 1 .. Len(z) : (j \in 1 .. Len(q) /\ z[j] = q[j]) \/ z[j] = x
    BY <1>1, <1>2, <2>1, <2>4, LineAppend
  <2>7. \A j \in 1 .. Len(z) : z[j].n <= relay.published
    BY <1>2, <2>1, <2>2, <2>6
  <2>8. ToldBefore(relay', log)
    <3> SUFFICES ASSUME NEW i \in NoticesOf(log), NEW j \in 1 .. Len(z)
                 PROVE  log[i].n < z[j].n
      BY <1>8, <2>1 DEF ToldBefore
    <3>1. log[i].n < relay.held
      BY <1>3, <2>1 DEF ToldBefore
    <3>2. \A k \in 1 .. Len(q) : log[i].n < q[k].n
      BY <2>1 DEF ToldBefore, q
    <3> QED
      BY <1>2, <2>6, <3>1, <3>2
  <2> QED
    BY <1>8, <2>1, <2>5, <2>7, <2>8 DEF Ordered, HeldIsNext
<1>10. FollowInv'
  BY <1>3 DEF ChannelInv, FollowInv
<1> QED
  BY <1>3, <1>8, <1>9, <1>10 DEF ChannelInv, RelayInv, log

LEMMA ElapsesInv ==
    ASSUME ChannelInv, Elapses
    PROVE  ChannelInv'
<1>1. /\ server' = server /\ relay' \in RelaySet /\ relay'.raced = relay.raced
      /\ relay'.ready = relay.ready /\ relay'.held = relay.held /\ relay'.timer = relay.timer
      /\ relay'.published = relay.published
  BY DEF ChannelInv, RelayInv, Elapses, RelaySet
<1>2. FollowInv'
  BY <1>1 DEF ChannelInv, FollowInv
<1>3. ASSUME Ordered(relay, server.log) PROVE Ordered(relay', server.log)
  BY <1>1, <1>3 DEF Ordered, HeldIsNext, ToldBefore
<1> QED
  BY <1>1, <1>2, <1>3 DEF ChannelInv, RelayInv

LEMMA PublishesInv ==
    ASSUME ChannelInv, NEW n \in Nat, Publishes(n)
    PROVE  ChannelInv'
<1> DEFINE q == relay.ready
           x == Item("deliver", n)
           z == Append(q, x)
           log == server.log
<1>1. relay \in RelaySet /\ q \in Seq(ItemSet) /\ relay.published \in Nat
  BY DEF ChannelInv, RelayInv, RelaySet
<1>2. x \in ItemSet /\ x.kind = "deliver" /\ x.n = n /\ z = Append(q, x)
  BY DEF Item, ItemSet, NoticeKinds
<1>3. /\ n > relay.published /\ server' = server
      /\ relay' = [relay EXCEPT !.published = n, !.ready = z]
  BY DEF Publishes
<1>4. z \in Seq(ItemSet)
  <2> HIDE DEF q, x
  <2> QED
    BY <1>1, <1>2
<1> HIDE DEF q, x, z, log
<1>5. /\ relay' \in RelaySet /\ relay'.ready = z /\ relay'.published = n
      /\ relay'.timer = relay.timer /\ relay'.held = relay.held /\ relay'.raced = relay.raced
  BY <1>1, <1>3, <1>4 DEF RelaySet
<1>6. ASSUME ~relay.raced PROVE Ordered(relay', log)
  <2>1. /\ Ordered(relay, log) /\ Line(q) /\ HeldIsNext(relay) /\ ToldBefore(relay, log)
        /\ \A j \in 1 .. Len(q) : q[j].n <= relay.published
    BY <1>6 DEF ChannelInv, RelayInv, Ordered, q, log
  <2>2. \A j \in 1 .. Len(q) : q[j].n \in Nat /\ q[j].n < n /\ q[j].kind \in NoticeKinds
    <3> SUFFICES ASSUME NEW j \in 1 .. Len(q)
                 PROVE  q[j].n \in Nat /\ q[j].n < n /\ q[j].kind \in NoticeKinds
      OBVIOUS
    <3>1. q[j].n \in Nat /\ q[j].kind \in NoticeKinds
      <4>1. q[j] \in ItemSet
        BY <1>1
      <4> QED
        BY <4>1 DEF ItemSet
    <3> QED
      BY <1>1, <1>3, <2>1, <3>1
  <2>3. \A j \in 1 .. Len(q) : Apart(q[j], x)
    <3> SUFFICES ASSUME NEW j \in 1 .. Len(q) PROVE Apart(q[j], x)
      OBVIOUS
    <3>1. q[j].n < n /\ q[j].kind \in NoticeKinds
      BY <2>2
    <3>2. ~(Rank(x.kind) < Rank(q[j].kind))
      BY <1>2, <3>1 DEF Rank, NoticeKinds
    <3> QED
      BY <1>2, <3>1, <3>2 DEF Apart
  <2>4. Line(z)
    BY <1>1, <1>2, <2>1, <2>3, LineAppend
  <2>5. \A j \in 1 .. Len(z) : (j \in 1 .. Len(q) /\ z[j] = q[j]) \/ z[j] = x
    BY <1>1, <1>2, <2>1, <2>3, LineAppend
  <2>6. \A j \in 1 .. Len(z) : z[j].n <= n
    <3> SUFFICES ASSUME NEW j \in 1 .. Len(z) PROVE z[j].n <= n
      OBVIOUS
    <3> QED
      BY <1>2, <2>2, <2>5
  <2>7. HeldIsNext(relay')
    <3> SUFFICES ASSUME relay.timer
                 PROVE  /\ relay.held <= n
                        /\ \A j \in 1 .. Len(z) : z[j].kind # "flushed" /\ relay.held < z[j].n
      BY <1>5 DEF HeldIsNext
    <3>1. /\ relay.held <= relay.published /\ relay.held \in Nat
          /\ \A j \in 1 .. Len(q) : q[j].kind # "flushed" /\ relay.held < q[j].n
      BY <1>1, <2>1 DEF HeldIsNext, q, RelaySet
    <3>2. relay.held < n
      BY <1>1, <1>3, <3>1
    <3> QED
      BY <1>2, <2>5, <3>1, <3>2
  <2>8. ToldBefore(relay', log)
    <3> SUFFICES ASSUME NEW i \in NoticesOf(log)
                 PROVE  /\ log[i].n \in Nat /\ log[i].n <= n
                        /\ relay.timer => log[i].n < relay.held
                        /\ \A j \in 1 .. Len(z) : log[i].n < z[j].n
      BY <1>5 DEF ToldBefore
    <3>1. /\ log[i].n \in Nat /\ log[i].n <= relay.published
          /\ relay.timer => log[i].n < relay.held
          /\ \A j \in 1 .. Len(q) : log[i].n < q[j].n
      BY <2>1 DEF ToldBefore, q
    <3>2. log[i].n < n
      BY <1>1, <1>3, <3>1
    <3> QED
      BY <1>2, <2>5, <3>1, <3>2
  <2> QED
    BY <1>5, <2>1, <2>4, <2>6, <2>7, <2>8 DEF Ordered
<1>7. FollowInv'
  BY <1>3 DEF ChannelInv, FollowInv
<1> QED
  BY <1>3, <1>5, <1>6, <1>7 DEF ChannelInv, RelayInv, log

-----------------------------------------------------------------------------
(* All the steps. *)

LEMMA TellsInv ==
    ASSUME ChannelInv, Tells(server, server'), relay' = relay
    PROVE  ChannelInv'
<1>1. FollowInv' /\ IsServer(server)
  BY TellsKeepsFollowers DEF ChannelInv, FollowInv
<1>2. relay.raced \/ Ordered(relay, server'.log)
  BY <1>1, TellsKeepsNotices DEF ChannelInv, RelayInv
<1> QED
  BY <1>1, <1>2 DEF ChannelInv, RelayInv

\* Steps of the followers publish nothing.
LEMMA ReadingInv ==
    ASSUME ChannelInv, FollowInv', server'.log = server.log, relay' = relay
    PROVE  ChannelInv'
  BY DEF ChannelInv, RelayInv

LEMMA InputsInv ==
    ASSUME ChannelInv, Inputs
    PROVE  ChannelInv'
<1>1. CASE relay' = relay
  <2>1. Tells(server, server')
    BY InputsTell DEF ChannelInv, FollowInv
  <2> QED
    BY <1>1, <2>1, TellsInv
<1>2. CASE \E n \in 1 .. Status : Publishes(n)
  BY <1>2, StatusType, PublishesInv
<1> QED
  BY <1>1, <1>2 DEF Inputs, Edits, PageReads, CallFails, SimulationFails, WatchFails

LEMMA FollowsInv ==
    ASSUME ChannelInv, NEW f \in Followers, Follows(f)
    PROVE  ChannelInv'
<1>1. FollowInv /\ relay' = relay
  BY DEF ChannelInv, Follows, AfterResync, AfterEvent, Wakes
<1>2. FollowInv' /\ server'.log = server.log
  BY <1>1, AfterResyncReads, AfterEventReads, WakesReads DEF Follows
<1> QED
  BY <1>1, <1>2, ReadingInv

LEMMA ConnectionsInv ==
    ASSUME ChannelInv, Connections
    PROVE  ChannelInv'
<1>1. FollowInv /\ relay' = relay
  BY DEF ChannelInv, Connections
<1>a. PICK f \in Followers :
          \E after \in {server.follow[f].last, Len(server.log), Len(server.log) + 1} :
              Joins(f, after)
  BY DEF Connections
<1>2. PICK after \in {server.follow[f].last, Len(server.log), Len(server.log) + 1} :
          Joins(f, after)
  BY <1>a
<1>3. server.follow[f].last \in Nat /\ Len(server.log) \in Nat
  BY <1>1, LogLength DEF FollowInv, FollowSet
<1>4. after \in Nat
  BY <1>2, <1>3
<1>5. FollowInv' /\ server'.log = server.log
  BY <1>1, <1>2, <1>4, JoinsReads
<1> QED
  BY <1>1, <1>5, ReadingInv

LEMMA ChannelInitInv == ChannelInit => ChannelInv
<1> SUFFICES ASSUME ChannelInit PROVE ChannelInv
  OBVIOUS
<1> DEFINE me == [at |-> "off", cursor |-> 0, batch |-> <<>>, last |-> 0, informed |-> 0,
                  slid |-> FALSE]
<1>1. /\ DOMAIN server = Fields /\ server.log = <<>>
      /\ server.follow = [f \in Followers |-> me]
      /\ relay = [ready |-> <<>>, cooling |-> FALSE, held |-> 0, timer |-> FALSE,
                  published |-> 0, raced |-> FALSE]
  BY DEF ChannelInit, Fields
<1>2. <<>> \in Seq({}) /\ <<>> \in Seq(Nat) /\ <<>> \in Seq(ItemSet) /\ Len(<<>>) = 0
  OBVIOUS
<1>3. IsServer(server)
  BY <1>1, <1>2 DEF IsServer, IsLog
<1>4. me \in FollowSet /\ Reading(me)
  BY <1>2 DEF FollowSet, FollowStates, Reading
<1> HIDE DEF me
<1>5. FollowInv
  BY <1>1, <1>3, <1>4 DEF FollowInv
<1>6. relay \in RelaySet /\ relay.ready = <<>> /\ ~relay.timer
  BY <1>1, <1>2 DEF RelaySet
<1>7. Ordered(relay, server.log)
  BY <1>1, <1>2, <1>6 DEF Ordered, Line, HeldIsNext, ToldBefore, ToldInOrder, NoticesOf
<1> QED
  BY <1>5, <1>6, <1>7 DEF ChannelInv, RelayInv

LEMMA ChannelNextInv ==
    ASSUME ChannelInv, [ChannelNext]_channelVars
    PROVE  ChannelInv'
<1>0. IsServer(server)
  BY DEF ChannelInv, FollowInv
<1>1. ASSUME NEW c \in Callers, Call(c) PROVE ChannelInv'
  <2>1. Tells(server, server') /\ relay' = relay
    BY <1>0, <1>1, CallTells DEF Call
  <2> QED
    BY <2>1, TellsInv
<1>2. ASSUME Watches PROVE ChannelInv'
  <2>1. relay' = relay
    BY <1>2 DEF Watches, StartsWatching, Notices, TakesBatch, SettlesMore, Settles
  <2> QED
    BY <1>0, <1>2, <2>1, WatchesTells, TellsInv
<1>3. ASSUME Simulation PROVE ChannelInv'
  <2>1. relay' = relay
    BY <1>3 DEF Simulation, Starts, Reaped, Simulates
  <2> QED
    BY <1>0, <1>3, <2>1, SimulationTells, TellsInv
<1>4. ASSUME Closes PROVE ChannelInv'
  <2>1. relay' = relay
    BY <1>4 DEF Closes
  <2> QED
    BY <1>0, <1>4, <2>1, ClosesTells, TellsInv
<1>5. ASSUME UNCHANGED channelVars PROVE ChannelInv'
  <2>1. server' = server /\ relay' = relay
    BY <1>5 DEF channelVars
  <2>2. FollowInv'
    BY <2>1 DEF ChannelInv, FollowInv
  <2> QED
    BY <2>1, <2>2, ReadingInv
<1> QED
  BY <1>1, <1>2, <1>3, <1>4, <1>5, FollowsInv, DeliversInv, ElapsesInv, FlushInv, InputsInv,
     ConnectionsInv DEF ChannelNext, Relays

-----------------------------------------------------------------------------
(* The answers of the workspace. *)

Trees == [spec : Specs, media : Nat]
CallStates == {"off", "lock", "snapshot", "build"}
CallSet == [at : CallStates, answered : BOOLEAN, tree : Trees, since : Nat]
HoldsLock == {"snapshot", "build"}

Shape(s) == DOMAIN s = Fields

\* Whoever reads the tree is the first in the queue.
Locked(s) ==
    /\ s.queue \in Seq(Callers) /\ s.calls \in [Callers -> CallSet]
    /\ \A c \in Callers : s.calls[c].at \in HoldsLock => s.queue # <<>> /\ Head(s.queue) = c

\* The workspace is as it was, but for calls of D that were given up.
Calm(D, s, q) ==
    /\ Shape(q)
    /\ q.state = s.state /\ q.covered = s.covered /\ (s.torn => q.torn)
    /\ Locked(s) =>
          /\ Locked(q)
          /\ \A c \in Callers : q.calls[c] = s.calls[c] \/ (c \in D /\ q.calls[c] = Idle)

LEMMA CalmOn ==
    ASSUME NEW D, NEW s, NEW p, NEW q, Calm(D, s, p), Calm(D, p, q)
    PROVE  Calm(D, s, q)
  BY DEF Calm

LEMMA CalmForMore ==
    ASSUME NEW D, NEW E, D \subseteq E, NEW s, NEW q, Calm(D, s, q)
    PROVE  Calm(E, s, q)
  BY DEF Calm

LEMMA SameIsCalm ==
    ASSUME NEW D, NEW s, NEW q, Shape(q), q.state = s.state, q.covered = s.covered,
           s.torn => q.torn, q.queue = s.queue, q.calls = s.calls
    PROVE  Calm(D, s, q)
  BY DEF Calm, Locked

LEMMA IdleIsCall == Idle \in CallSet /\ Idle.at = "off" /\ Idle.answered = FALSE /\ Idle.since = 0
  BY ChannelAssumption DEF Idle, CallSet, CallStates, Trees, NoTree

\* Who leaves the queue does not bring a new one to its head, unless he was there.
LEMMA QueueLeft ==
    ASSUME NEW q \in Seq(Callers), NEW c
    PROVE  /\ RemoveFirst(q, c) \in Seq(Callers)
           /\ q # <<>> /\ Head(q) # c =>
                  RemoveFirst(q, c) # <<>> /\ Head(RemoveFirst(q, c)) = Head(q)
<1> DEFINE places == {i \in 1 .. Len(q) : q[i] = c}
           r == RemoveFirst(q, c)
<1>1. CASE places = {}
  <2>1. r = q
    BY <1>1 DEF RemoveFirst
  <2> QED
    BY <2>1
<1>2. CASE places # {}
  <2> DEFINE n == SelectInSeq(q, LAMBDA v : v = c)
  <2>1. r = RemoveAt(q, n)
    BY <1>2 DEF RemoveFirst
  <2>2. n = Min(places)
    BY <1>2 DEF SelectInSeq
  <2>3. PICK k \in places : \A l \in places : k <= l
    <3>1. places \in SUBSET Nat
      OBVIOUS
    <3> HIDE DEF places
    <3> QED
      BY <1>2, <3>1, LeastOfMany
  <2>4. n \in places
    BY <2>2, <2>3 DEF Min
  <2> HIDE DEF n, r
  <2>5. n \in 1 .. Len(q) /\ q[n] = c /\ Len(q) \in Nat
    BY <2>4
  <2> DEFINE a == SubSeq(q, 1, n - 1)
             b == SubSeq(q, n + 1, Len(q))
  <2>6. r = a \o b
    BY <2>1 DEF RemoveAt
  <2>7. /\ a \in Seq(Callers) /\ b \in Seq(Callers) /\ Len(a) = n - 1
        /\ \A i \in 1 .. n - 1 : a[i] = q[i]
    BY <2>5
  <2> HIDE DEF a, b
  <2>8. r \in Seq(Callers)
    BY <2>6, <2>7
  <2>9. ASSUME q # <<>>, Head(q) # c PROVE r # <<>> /\ Head(r) = Head(q)
    <3>1. n # 1
      BY <2>5, <2>9
    <3>2. Len(a) \in Nat /\ Len(a) >= 1 /\ a[1] = q[1]
      BY <2>5, <2>7, <3>1
    <3>3. r[1] = a[1] /\ Len(r) >= 1
      BY <2>6, <2>7, <3>2
    <3> QED
      BY <2>8, <2>9, <3>2, <3>3
  <2> QED
    BY <2>8, <2>9 DEF r
<1> QED
  BY <1>1, <1>2

LEMMA LeftIsCalm ==
    ASSUME NEW s, Shape(s), NEW c \in Callers
    PROVE  Calm({c}, s, Left(s, c))
<1> DEFINE q == Left(s, c)
           r == RemoveFirst(s.queue, c)
<1>1. q = [s EXCEPT !.queue = r, !.calls[c] = Idle]
  BY DEF Left
<1> HIDE DEF r
<1>2. /\ DOMAIN q = DOMAIN s /\ q.queue = r /\ q.calls = [s.calls EXCEPT ![c] = Idle]
      /\ q.state = s.state /\ q.covered = s.covered /\ q.torn = s.torn
  BY <1>1 DEF Shape, Fields
<1> HIDE DEF q
<1>3. ASSUME Locked(s) PROVE Locked(q)
  <2>1. r \in Seq(Callers) /\ (s.queue # <<>> /\ Head(s.queue) # c =>
                                   r # <<>> /\ Head(r) = Head(s.queue))
    BY <1>3, QueueLeft DEF Locked, r
  <2>2. q.calls \in [Callers -> CallSet] /\ q.calls[c].at = "off"
    BY <1>2, <1>3, IdleIsCall DEF Locked
  <2>3. ASSUME NEW d \in Callers, q.calls[d].at \in HoldsLock
        PROVE  q.queue # <<>> /\ Head(q.queue) = d
    <3>1. d # c
      BY <2>2, <2>3 DEF HoldsLock
    <3>2. q.calls[d] = s.calls[d]
      BY <1>2, <1>3, <3>1 DEF Locked
    <3>3. s.queue # <<>> /\ Head(s.queue) = d
      BY <1>3, <2>3, <3>2 DEF Locked
    <3> QED
      BY <1>2, <2>1, <3>1, <3>3
  <2> QED
    BY <1>2, <2>1, <2>2, <2>3 DEF Locked
<1>4. ASSUME Locked(s), NEW d \in Callers
      PROVE  q.calls[d] = s.calls[d] \/ (d \in {c} /\ q.calls[d] = Idle)
  BY <1>2, <1>4 DEF Locked
<1>5. Calm({c}, s, q)
  BY <1>2, <1>3, <1>4 DEF Calm, Shape
<1> QED
  BY <1>5 DEF q

LEMMA CancelIsCalm ==
    ASSUME NEW s, Shape(s)
    PROVE  Calm({"sim"}, s, Cancel(s))
<1> DEFINE i == Current(s)
           sim == s.sims[i]
           gone == [s EXCEPT !.sims[i].at = IF sim.at = "run" THEN "reap" ELSE "over"]
<1>1. Cancel(s) = IF i = 0 THEN s ELSE IF sim.at = "apply" THEN Left(gone, "sim") ELSE gone
  BY DEF Cancel
<1> HIDE DEF i, sim
<1>2. Calm({"sim"}, s, gone)
  <2>1. /\ Shape(gone) /\ gone.state = s.state /\ gone.covered = s.covered
        /\ gone.torn = s.torn /\ gone.queue = s.queue /\ gone.calls = s.calls
    BY DEF Shape, Fields
  <2> HIDE DEF gone
  <2> QED
    BY <2>1, SameIsCalm
<1>3. Shape(gone)
  BY <1>2 DEF Calm
<1> HIDE DEF gone
<1>4. Calm({"sim"}, gone, Left(gone, "sim"))
  BY <1>3, LeftIsCalm DEF Callers
<1>5. Calm({"sim"}, s, s)
  BY SameIsCalm
<1> QED
  BY <1>1, <1>2, <1>4, <1>5, CalmOn

LEMMA ScheduleIsCalm ==
    ASSUME NEW s, Shape(s), NEW key
    PROVE  Calm({"sim"}, s, Schedule(s, key))
<1> DEFINE p == Cancel(s)
           q == [p EXCEPT !.sims = Append(@, [key |-> key, at |-> "sleep"])]
<1>1. Calm({"sim"}, s, p) /\ Calm({"sim"}, s, s)
  BY CancelIsCalm, SameIsCalm
<1>2. Schedule(s, key) = IF s.closed THEN s ELSE q
  BY DEF Schedule
<1>3. Shape(p)
  BY <1>1 DEF Calm
<1> HIDE DEF p
<1>4. /\ Shape(q) /\ q.state = p.state /\ q.covered = p.covered /\ q.torn = p.torn
      /\ q.queue = p.queue /\ q.calls = p.calls
  BY <1>3 DEF Shape, Fields
<1> HIDE DEF q
<1>5. Calm({"sim"}, p, q)
  BY <1>4, SameIsCalm
<1> QED
  BY <1>1, <1>2, <1>5, CalmOn

LEMMA PauseIsCalm ==
    ASSUME NEW s, Shape(s)
    PROVE  Calm({"sim"}, s, Pause(s))
<1> DEFINE p == Cancel(s)
<1>1. Calm({"sim"}, s, p)
  BY CancelIsCalm
<1>2. PICK paused : Pause(s) = [p EXCEPT !.paused = paused]
  BY DEF Pause
<1>3. Shape(p)
  BY <1>1 DEF Calm
<1> DEFINE q == [p EXCEPT !.paused = paused]
<1> HIDE DEF p
<1>4. /\ Shape(q) /\ q.state = p.state /\ q.covered = p.covered /\ q.torn = p.torn
      /\ q.queue = p.queue /\ q.calls = p.calls
  BY <1>3 DEF Shape, Fields
<1>q. Pause(s) = q
  BY <1>2
<1> HIDE DEF q
<1>5. Calm({"sim"}, p, q)
  BY <1>4, SameIsCalm
<1> QED
  BY <1>1, <1>q, <1>5, CalmOn

LEMMA ResetIsCalm ==
    ASSUME NEW s, Shape(s)
    PROVE  Calm({"sim"}, s, Reset(s))
<1> DEFINE p == Cancel(s)
           q == [p EXCEPT !.simulated = 0, !.paused = FALSE]
<1>1. Calm({"sim"}, s, p)
  BY CancelIsCalm
<1>2. Reset(s) = q
  BY DEF Reset
<1>3. Shape(p)
  BY <1>1 DEF Calm
<1> HIDE DEF p
<1>4. /\ Shape(q) /\ q.state = p.state /\ q.covered = p.covered /\ q.torn = p.torn
      /\ q.queue = p.queue /\ q.calls = p.calls
  BY <1>3 DEF Shape, Fields
<1> HIDE DEF q
<1>5. Calm({"sim"}, p, q)
  BY <1>4, SameIsCalm
<1> QED
  BY <1>1, <1>2, <1>5, CalmOn

LEMMA ResumeIsCalm ==
    ASSUME NEW s, Shape(s)
    PROVE  Calm({"sim"}, s, Resume(s))
<1> DEFINE p == [s EXCEPT !.paused = FALSE]
<1>1. /\ Shape(p) /\ p.state = s.state /\ p.covered = s.covered /\ p.torn = s.torn
      /\ p.queue = s.queue /\ p.calls = s.calls
  BY DEF Shape, Fields
<1>2. Resume(s) = IF s.paused THEN Schedule(p, s.key) ELSE p
  BY DEF Resume
<1> HIDE DEF p
<1>3. Calm({"sim"}, s, p) /\ Calm({"sim"}, p, Schedule(p, s.key))
  BY <1>1, SameIsCalm, ScheduleIsCalm
<1> QED
  BY <1>2, <1>3, CalmOn

LEMMA RefreshedIsCalm ==
    ASSUME NEW s, Shape(s), NEW state
    PROVE  Calm({"sim"}, s, Refreshed(s, state))
<1> DEFINE reindexed == state.tree.spec # s.key
           ready == IF reindexed THEN Reset(s) ELSE Resume(s)
           health == IF reindexed THEN [report |-> state.report, simulated |-> 0] ELSE s.health
           events == Builders(s, state.tree, health)
           told == [Publish(ready, events) EXCEPT !.snapshot = state.tree,
                                                  !.key = state.tree.spec, !.health = health]
<1>1. Refreshed(s, state) =
        IF ChangedPaths(s.snapshot, state.tree) = 0
        THEN IF reindexed THEN s ELSE ready
        ELSE IF reindexed THEN Schedule(told, state.tree.spec) ELSE told
  BY DEF Refreshed
<1>2. Calm({"sim"}, s, ready) /\ Calm({"sim"}, s, s)
  BY ResetIsCalm, ResumeIsCalm, SameIsCalm
<1> HIDE DEF reindexed, ready, health, events
<1>3. Shape(ready)
  BY <1>2 DEF Calm
<1>4. told = [ready EXCEPT !.log = @ \o events, !.snapshot = state.tree,
                           !.key = state.tree.spec, !.health = health]
  BY DEF Publish
<1> HIDE DEF told
<1>5. /\ Shape(told) /\ told.state = ready.state /\ told.covered = ready.covered
      /\ told.torn = ready.torn /\ told.queue = ready.queue /\ told.calls = ready.calls
  BY <1>3, <1>4 DEF Shape, Fields
<1>6. Calm({"sim"}, ready, told) /\ Calm({"sim"}, told, Schedule(told, state.tree.spec))
  BY <1>5, SameIsCalm, ScheduleIsCalm
<1> QED
  BY <1>1, <1>2, <1>6, CalmOn

LEMMA AppliedIsCalm ==
    ASSUME NEW s, Shape(s), NEW state
    PROVE  Calm({"sim"}, s, Applied(s, state))
<1> DEFINE health == [report |-> state.report, simulated |-> s.simulated]
           event == Event("diagnostics", s.snapshot, health, 0)
           said == Publish(s, <<event>>)
           told == IF health # s.health THEN said ELSE s
           n == Current(s)
           torn == told.torn \/ state.tree.spec # s.key
           sims == [told.sims EXCEPT ![n] = [told.sims[n] EXCEPT !.at = "over"]]
           q == [told EXCEPT !.health = health, !.sims = sims, !.torn = torn]
<1>1. Applied(s, state) = q
  <2> DEFINE r == [told EXCEPT !.health = health, !.sims[n].at = "over",
                               !.torn = @ \/ state.tree.spec # s.key]
  <2>1. Applied(s, state) = r
    BY DEF Applied
  <2> HIDE DEF health, told, n
  <2> QED
    BY <2>1
<1>2. said = [s EXCEPT !.log = @ \o <<event>>]
  BY DEF Publish
<1> HIDE DEF said, event, health
<1>3. /\ Shape(told) /\ told.state = s.state /\ told.covered = s.covered
      /\ told.torn = s.torn /\ told.queue = s.queue /\ told.calls = s.calls
  BY <1>2 DEF Shape, Fields
<1>4. told.torn => torn
  OBVIOUS
<1> HIDE DEF told, sims, torn
<1>5. /\ Shape(q) /\ q.state = told.state /\ q.covered = told.covered
      /\ q.torn = torn /\ q.queue = told.queue /\ q.calls = told.calls
  BY <1>3 DEF Shape, Fields
<1> HIDE DEF q
<1>6. Calm({"sim"}, s, q)
  BY <1>3, <1>4, <1>5, SameIsCalm
<1> QED
  BY <1>1, <1>6

LEMMA ContinueIsCalm ==
    ASSUME NEW s, Shape(s), NEW c, NEW state
    PROVE  Calm({"sim"}, s, Continue(s, c, state))
<1> DEFINE told == Refreshed(s, state)
<1>1. CASE c = "watch"
  <2>1. PICK failed : Continue(s, c, state) = [told EXCEPT !.failed = failed]
    BY <1>1 DEF Continue
  <2>2. Calm({"sim"}, s, told) /\ Shape(told)
    BY RefreshedIsCalm DEF Calm
  <2> HIDE DEF told
  <2> DEFINE q == [told EXCEPT !.failed = failed]
  <2>3. /\ Shape(q) /\ q.state = told.state /\ q.covered = told.covered
        /\ q.torn = told.torn /\ q.queue = told.queue /\ q.calls = told.calls
    BY <2>2 DEF Shape, Fields
  <2>4. Continue(s, c, state) = q
    BY <2>1
  <2> HIDE DEF q
  <2>5. Calm({"sim"}, told, q)
    BY <2>3, SameIsCalm
  <2> QED
    BY <2>2, <2>4, <2>5, CalmOn
<1>2. CASE c # "watch" /\ c = "sim"
  BY <1>2, AppliedIsCalm DEF Continue
<1>3. CASE c # "watch" /\ c # "sim"
  <2>1. Continue(s, c, state) = s
    BY <1>3 DEF Continue
  <2> QED
    BY <2>1, SameIsCalm
<1> QED
  BY <1>1, <1>2, <1>3

-----------------------------------------------------------------------------
(* Answers and the trees of the disk. *)

Reverts(p) == \E i, j \in 1 .. Len(p) : i + 1 < j /\ p[i].spec = p[j].spec /\
                  \E k \in i .. j : p[k].spec # p[i].spec
Hides(p, s) == Reverts(p) /\ s.torn

\* The report of a tree is of its time or later, unless the edits hide it.
Reports(p, s, k, report) == Hides(p, s) \/ \E j \in k .. Len(p) : p[j].spec = report

\* What the workspace holds was on the disk since n.
Shows(p, s, n) ==
    \E k \in 1 .. Len(p) : n <= k /\ p[k] = s.state.tree /\ Reports(p, s, k, s.state.report)

\* The k-th tree is new to all who will get it or a later one.
Spans(s, c, k) ==
    /\ s.calls[c].since <= k
    /\ \A d \in Callers : d \in s.covered \/ s.calls[d].answered => s.calls[d].since <= k

Fresh(p, s) ==
    /\ Shape(s) /\ Locked(s) /\ s.state \in [tree : Trees, report : Specs]
    /\ s.torn \/ s.state.report = s.state.tree.spec
    /\ Shows(p, s, 1)
    /\ \A c \in Callers :
          LET call == s.calls[c]
          IN  /\ call.since <= Len(p)
              /\ call.at = "lock" /\ call.answered => Shows(p, s, call.since)
              /\ call.at = "build" =>
                     \E k \in 1 .. Len(p) : p[k] = call.tree /\ Spans(s, c, k)

FreshInv == past \in Seq(Trees) /\ past # <<>> /\ Fresh(past, server)

LEMMA ShowsOn ==
    ASSUME NEW p, Len(p) \in Nat, NEW s, NEW m \in Nat, NEW n \in Nat, n <= m, Shows(p, s, m)
    PROVE  Shows(p, s, n)
<1>1. PICK k \in 1 .. Len(p) : m <= k /\ p[k] = s.state.tree /\ Reports(p, s, k, s.state.report)
  BY DEF Shows
<1>2. n <= k
  BY <1>1
<1> QED
  BY <1>1, <1>2 DEF Shows

\* What a calm step leaves of the calls.
LEMMA FreshWhenCalm ==
    ASSUME NEW p, NEW D, NEW s, NEW q, Fresh(p, s), Calm(D, s, q), Len(p) \in Nat
    PROVE  Fresh(p, q)
<1>1. /\ Shape(q) /\ q.state = s.state /\ q.covered = s.covered /\ (s.torn => q.torn)
      /\ Locked(s) /\ Locked(q)
      /\ \A c \in Callers : q.calls[c] = s.calls[c] \/ q.calls[c] = Idle
  BY DEF Calm, Fresh
<1>2. ASSUME NEW n, Shows(p, s, n) PROVE Shows(p, q, n)
  BY <1>1, <1>2 DEF Shows, Reports, Hides
<1>3. ASSUME NEW c \in Callers, NEW k \in Nat, Spans(s, c, k) PROVE Spans(q, c, k)
  <2>1. ASSUME NEW d \in Callers, q.calls[d] = s.calls[d] \/ s.calls[d].since <= k
        PROVE  q.calls[d].since = s.calls[d].since \/ q.calls[d].since <= k
    BY <1>1, <2>1, IdleIsCall
  <2>2. \A d \in Callers : q.calls[d] = s.calls[d] \/ (q.calls[d].since <= k /\ ~q.calls[d].answered)
    BY <1>1, IdleIsCall
  <2> QED
    BY <1>1, <1>3, <2>2 DEF Spans
<1>4. ASSUME NEW c \in Callers
      PROVE  /\ q.calls[c].since <= Len(p)
             /\ q.calls[c].at = "lock" /\ q.calls[c].answered => Shows(p, q, q.calls[c].since)
             /\ q.calls[c].at = "build" =>
                   \E k \in 1 .. Len(p) : p[k] = q.calls[c].tree /\ Spans(q, c, k)
  <2>1. CASE q.calls[c] = s.calls[c]
    <3>1. /\ s.calls[c].since <= Len(p)
          /\ s.calls[c].at = "lock" /\ s.calls[c].answered => Shows(p, s, s.calls[c].since)
          /\ s.calls[c].at = "build" =>
                \E k \in 1 .. Len(p) : p[k] = s.calls[c].tree /\ Spans(s, c, k)
      BY DEF Fresh
    <3> QED
      BY <1>2, <1>3, <2>1, <3>1
  <2>2. CASE q.calls[c] = Idle
    BY <2>2, IdleIsCall
  <2> QED
    BY <1>1, <2>1, <2>2
<1>5. Shows(p, q, 1) /\ q.state \in [tree : Trees, report : Specs]
      /\ (q.torn \/ q.state.report = q.state.tree.spec)
  BY <1>1, <1>2 DEF Fresh
<1> QED
  BY <1>1, <1>4, <1>5 DEF Fresh

\* An edit only adds a tree.
LEMMA FreshWhenEdited ==
    ASSUME NEW p \in Seq(Trees), NEW t \in Trees, NEW s, Fresh(p, s)
    PROVE  Fresh(Append(p, t), s)
<1> DEFINE r == Append(p, t)
<1>1. /\ Len(p) \in Nat /\ Len(r) = Len(p) + 1
      /\ \A i \in 1 .. Len(p) : r[i] = p[i]
  OBVIOUS
<1> HIDE DEF r
<1>2. Reverts(p) => Reverts(r)
  <2> SUFFICES ASSUME Reverts(p) PROVE Reverts(r)
    OBVIOUS
  <2>1. PICK i \in 1 .. Len(p), j \in 1 .. Len(p) :
            i + 1 < j /\ p[i].spec = p[j].spec /\ \E k \in i .. j : p[k].spec # p[i].spec
    BY DEF Reverts
  <2>2. PICK k \in i .. j : p[k].spec # p[i].spec
    BY <2>1
  <2>3. i \in 1 .. Len(r) /\ j \in 1 .. Len(r) /\ k \in 1 .. Len(p)
    BY <1>1
  <2>4. r[i] = p[i] /\ r[j] = p[j] /\ r[k] = p[k]
    BY <1>1, <2>3
  <2>5. r[i].spec = r[j].spec /\ r[k].spec # r[i].spec
    BY <2>1, <2>2, <2>4
  <2> QED
    BY <2>1, <2>2, <2>3, <2>5 DEF Reverts
<1>3. ASSUME NEW k \in Nat \ {0}, NEW report, Reports(p, s, k, report)
      PROVE  Reports(r, s, k, report)
  <2>1. CASE Hides(p, s)
    BY <1>2, <2>1 DEF Hides, Reports
  <2>2. CASE \E j \in k .. Len(p) : p[j].spec = report
    <3>1. PICK j \in k .. Len(p) : p[j].spec = report
      BY <2>2
    <3>2. j \in k .. Len(r) /\ r[j] = p[j]
      BY <1>1
    <3> QED
      BY <3>1, <3>2 DEF Reports
  <2> QED
    BY <1>3, <2>1, <2>2 DEF Reports
<1>4. ASSUME NEW n, Shows(p, s, n) PROVE Shows(r, s, n)
  <2>1. PICK k \in 1 .. Len(p) : n <= k /\ p[k] = s.state.tree /\ Reports(p, s, k, s.state.report)
    BY <1>4 DEF Shows
  <2>2. k \in Nat \ {0} /\ k \in 1 .. Len(r) /\ r[k] = p[k]
    BY <1>1
  <2> QED
    BY <1>3, <2>1, <2>2 DEF Shows
<1>5. \A c \in Callers : s.calls[c].since \in Nat
  BY DEF Fresh, Locked, CallSet
<1>6. ASSUME NEW c \in Callers
      PROVE  /\ s.calls[c].since <= Len(r)
             /\ s.calls[c].at = "lock" /\ s.calls[c].answered => Shows(r, s, s.calls[c].since)
             /\ s.calls[c].at = "build" =>
                   \E k \in 1 .. Len(r) : r[k] = s.calls[c].tree /\ Spans(s, c, k)
  <2>1. /\ s.calls[c].since <= Len(p)
        /\ s.calls[c].at = "lock" /\ s.calls[c].answered => Shows(p, s, s.calls[c].since)
        /\ s.calls[c].at = "build" =>
              \E k \in 1 .. Len(p) : p[k] = s.calls[c].tree /\ Spans(s, c, k)
    BY DEF Fresh
  <2>2. \A k \in 1 .. Len(p) : k \in 1 .. Len(r) /\ r[k] = p[k]
    BY <1>1
  <2> QED
    BY <1>1, <1>4, <1>5, <2>1, <2>2
<1>7. Fresh(r, s)
  BY <1>4, <1>6 DEF Fresh
<1> QED
  BY <1>7 DEF r

\* Who takes the lock covers those in the queue, and nobody checks a tree then.
LEMMA FreshWhenRead ==
    ASSUME NEW p, Len(p) \in Nat, NEW s, NEW c \in Callers, Fresh(p, s),
           s.queue # <<>>, Head(s.queue) = c,
           \A d \in Callers : s.calls[d].at \notin HoldsLock
    PROVE  Fresh(p, Reads(s, c))
<1> DEFINE q == Reads(s, c)
           covered == ToSet(s.queue)
<1>1. /\ Locked(s) /\ DOMAIN s = Fields
      /\ \A d \in Callers : s.calls[d] \in CallSet
  BY DEF Fresh, Locked, Shape
<1>2. q = [s EXCEPT !.calls[c].at = "snapshot", !.covered = covered]
  BY DEF Reads
<1> HIDE DEF covered
<1>3. /\ DOMAIN q = Fields /\ q.queue = s.queue /\ q.state = s.state /\ q.torn = s.torn
      /\ q.calls = [s.calls EXCEPT ![c].at = "snapshot"]
  BY <1>1, <1>2 DEF Fields
<1> HIDE DEF q
<1>4. /\ \A d \in Callers \ {c} : q.calls[d] = s.calls[d]
      /\ q.calls[c] = [s.calls[c] EXCEPT !.at = "snapshot"]
  BY <1>1, <1>3 DEF Locked
<1>5. q.calls[c] \in CallSet /\ q.calls[c].at = "snapshot" /\ q.calls[c].since = s.calls[c].since
  BY <1>1, <1>4 DEF CallSet, CallStates
<1>6. q.calls \in [Callers -> CallSet]
  BY <1>1, <1>3, <1>4, <1>5 DEF Locked
<1>7. Locked(q)
  BY <1>1, <1>3, <1>4, <1>6 DEF Locked
<1>8. ASSUME NEW n, Shows(p, s, n) PROVE Shows(p, q, n)
  BY <1>3, <1>8 DEF Shows, Reports, Hides
<1>9. ASSUME NEW d \in Callers
      PROVE  /\ q.calls[d].since <= Len(p)
             /\ q.calls[d].at = "lock" /\ q.calls[d].answered => Shows(p, q, q.calls[d].since)
             /\ q.calls[d].at # "build"
  <2>1. /\ s.calls[d].since <= Len(p) /\ s.calls[d].at \notin HoldsLock
        /\ s.calls[d].at = "lock" /\ s.calls[d].answered => Shows(p, s, s.calls[d].since)
    BY DEF Fresh
  <2> QED
    BY <1>4, <1>5, <1>8, <2>1 DEF HoldsLock
<1>10. Fresh(p, q)
  BY <1>3, <1>7, <1>8, <1>9 DEF Fresh, Shape
<1> QED
  BY <1>10 DEF q

\* A call that is made waits for a reading that has not begun.
LEMMA FreshWhenAsked ==
    ASSUME Len(past) \in Nat, NEW s, NEW c \in Callers, Fresh(past, s)
    PROVE  Fresh(past, Asked(s, c))
<1> DEFINE call == [Idle EXCEPT !.at = "lock", !.since = Len(past)]
           z == Append(s.queue, c)
           q == [s EXCEPT !.queue = z, !.covered = s.covered \ {c}, !.calls[c] = call]
<1>1. Asked(s, c) = IF s.queue = <<>> THEN Reads(q, c) ELSE q
  BY DEF Asked
<1>2. call \in CallSet /\ call.at = "lock" /\ call.answered = FALSE /\ call.since = Len(past)
  BY IdleIsCall DEF Idle, CallSet, CallStates
<1>3. Locked(s) /\ DOMAIN s = Fields
  BY DEF Fresh, Shape
<1>4. /\ z \in Seq(Callers) /\ z # <<>>
      /\ s.queue # <<>> => Head(z) = Head(s.queue)
      /\ s.queue = <<>> => Head(z) = c
  <2>1. s.queue \in Seq(Callers)
    BY <1>3 DEF Locked
  <2> QED
    BY <2>1
<1> HIDE DEF z, call
<1>5. /\ DOMAIN q = Fields /\ q.queue = z /\ q.state = s.state /\ q.torn = s.torn
      /\ q.calls = [s.calls EXCEPT ![c] = call] /\ q.covered = s.covered \ {c}
  BY <1>3 DEF Fields
<1> HIDE DEF q
<1>6. /\ \A d \in Callers \ {c} : q.calls[d] = s.calls[d]
      /\ q.calls[c] = call /\ q.calls \in [Callers -> CallSet]
  BY <1>2, <1>3, <1>5 DEF Locked
<1>7. Locked(q)
  <2> SUFFICES ASSUME NEW d \in Callers, q.calls[d].at \in HoldsLock
               PROVE  Head(z) = d
    BY <1>4, <1>5, <1>6 DEF Locked
  <2>1. d # c
    BY <1>2, <1>6 DEF HoldsLock
  <2>2. s.queue # <<>> /\ Head(s.queue) = d
    BY <1>3, <1>6, <2>1 DEF Locked
  <2> QED
    BY <1>4, <2>2
<1>8. ASSUME NEW n, Shows(past, s, n) PROVE Shows(past, q, n)
  BY <1>5, <1>8 DEF Shows, Reports, Hides
<1>9. ASSUME NEW d \in Callers, d # c, NEW k, Spans(s, d, k) PROVE Spans(q, d, k)
  BY <1>2, <1>5, <1>6, <1>9 DEF Spans
<1>10. ASSUME NEW d \in Callers
       PROVE  /\ q.calls[d].since <= Len(past)
              /\ q.calls[d].at = "lock" /\ q.calls[d].answered => Shows(past, q, q.calls[d].since)
              /\ q.calls[d].at = "build" =>
                    \E k \in 1 .. Len(past) : past[k] = q.calls[d].tree /\ Spans(q, d, k)
  <2>1. CASE d = c
    BY <1>2, <1>6, <2>1
  <2>2. CASE d # c
    <3>1. /\ s.calls[d].since <= Len(past)
          /\ s.calls[d].at = "lock" /\ s.calls[d].answered => Shows(past, s, s.calls[d].since)
          /\ s.calls[d].at = "build" =>
                \E k \in 1 .. Len(past) : past[k] = s.calls[d].tree /\ Spans(s, d, k)
      BY DEF Fresh
    <3> QED
      BY <1>6, <1>8, <1>9, <2>2, <3>1
  <2> QED
    BY <2>1, <2>2
<1>11. Fresh(past, q)
  BY <1>5, <1>7, <1>8, <1>10 DEF Fresh, Shape
<1>12. ASSUME s.queue = <<>> PROVE Fresh(past, Reads(q, c))
  <2>1. \A d \in Callers : q.calls[d].at \notin HoldsLock
    BY <1>2, <1>3, <1>6, <1>12 DEF Locked, HoldsLock
  <2> QED
    BY <1>4, <1>5, <1>11, <1>12, <2>1, FreshWhenRead
<1> QED
  BY <1>1, <1>11, <1>12

\* A reading that ends gives a new answer to all it covers.
LEMMA FreshWhenAnswered ==
    ASSUME NEW p, Len(p) \in Nat, NEW s, NEW c \in Callers, Fresh(p, s),
           s.calls[c].at \in HoldsLock,
           NEW state \in [tree : Trees, report : Specs], s.torn \/ state.report = state.tree.spec,
           NEW k \in 1 .. Len(p), p[k] = state.tree, Spans(s, c, k), Reports(p, s, k, state.report)
    PROVE  LET q == Answered(s, c, state)
           IN  /\ Fresh(p, q) /\ q.state = state /\ Shows(p, q, s.calls[c].since)
<1> DEFINE q == Answered(s, c, state)
           r == RemoveFirst(s.queue, c)
           calls == [d \in Callers |-> IF d = c THEN Idle
                       ELSE [s.calls[d] EXCEPT !.answered = @ \/ d \in s.covered]]
<1>1. Locked(s) /\ DOMAIN s = Fields /\ \A d \in Callers : s.calls[d] \in CallSet
  BY DEF Fresh, Shape, Locked
<1>2. q = [s EXCEPT !.state = state, !.queue = r, !.calls = calls]
  BY DEF Answered
<1>3. r \in Seq(Callers)
  BY <1>1, QueueLeft DEF Locked
<1>4. \A d \in Callers \ {c} :
          /\ calls[d] \in CallSet /\ calls[d].at = s.calls[d].at
          /\ calls[d].since = s.calls[d].since
          /\ calls[d].answered = (s.calls[d].answered \/ d \in s.covered)
  <2> SUFFICES ASSUME NEW d \in Callers \ {c}
               PROVE  /\ calls[d] \in CallSet /\ calls[d].at = s.calls[d].at
                      /\ calls[d].since = s.calls[d].since
                      /\ calls[d].answered = (s.calls[d].answered \/ d \in s.covered)
    OBVIOUS
  <2> DEFINE answered == s.calls[d].answered \/ d \in s.covered
             call == s.calls[d]
  <2>1. calls[d] = [call EXCEPT !.answered = answered]
    OBVIOUS
  <2>2. call \in CallSet /\ answered \in BOOLEAN
    BY <1>1 DEF CallSet
  <2> HIDE DEF calls, answered, call
  <2>3. /\ calls[d] \in CallSet /\ calls[d].at = call.at /\ calls[d].since = call.since
        /\ calls[d].answered = answered
    BY <2>1, <2>2 DEF CallSet
  <2> QED
    BY <2>3 DEF call, answered
<1>5. calls[c] = Idle /\ calls \in [Callers -> CallSet]
  BY <1>4, IdleIsCall
<1> HIDE DEF r, calls
<1>6. /\ DOMAIN q = Fields /\ q.queue = r /\ q.state = state /\ q.torn = s.torn
      /\ q.calls = calls /\ q.covered = s.covered
  BY <1>1, <1>2 DEF Fields
<1> HIDE DEF q
<1>7. \A d \in Callers : q.calls[d].at \notin HoldsLock
  <2> SUFFICES ASSUME NEW d \in Callers, q.calls[d].at \in HoldsLock PROVE FALSE
    OBVIOUS
  <2>1. d # c
    BY <1>5, <1>6, IdleIsCall DEF HoldsLock
  <2>2. s.calls[d].at \in HoldsLock
    BY <1>4, <1>6, <2>1
  <2> QED
    BY <1>1, <2>1, <2>2 DEF Locked
<1>8. Locked(q)
  BY <1>3, <1>5, <1>6, <1>7 DEF Locked
<1>9. ASSUME NEW n, n <= k PROVE Shows(p, q, n)
  BY <1>6, <1>9 DEF Shows, Reports, Hides
<1>10. \A d \in Callers : s.calls[d].since \in Nat /\ s.calls[d].since <= Len(p)
  BY <1>1 DEF Fresh, CallSet
<1>11. ASSUME NEW d \in Callers
       PROVE  /\ q.calls[d].since <= Len(p)
              /\ q.calls[d].at = "lock" /\ q.calls[d].answered => Shows(p, q, q.calls[d].since)
              /\ q.calls[d].at # "build"
  <2>1. CASE d = c
    BY <1>5, <1>6, <2>1, IdleIsCall
  <2>2. CASE d # c
    <3>1. q.calls[d].answered => s.calls[d].since <= k
      BY <1>4, <1>6, <2>2 DEF Spans
    <3> QED
      BY <1>4, <1>6, <1>7, <1>9, <1>10, <2>2, <3>1 DEF HoldsLock
  <2> QED
    BY <2>1, <2>2
<1>12. Shows(p, q, 1) /\ Shows(p, q, s.calls[c].since)
  BY <1>9 DEF Spans
<1>13. Fresh(p, q)
  BY <1>6, <1>8, <1>11, <1>12 DEF Fresh, Shape
<1> QED
  BY <1>6, <1>12, <1>13 DEF q

-----------------------------------------------------------------------------
(* The steps of the callers. *)

\* What has been shown to c, if its call is over.
Got(c) == Returns(c) => Shows(past, server', server.calls[c].since)

LEMMA ShowsWhenCalm ==
    ASSUME NEW p, NEW D, NEW s, NEW q, Calm(D, s, q), NEW n, Shows(p, s, n)
    PROVE  Shows(p, q, n)
  BY DEF Calm, Shows, Reports, Hides

LEMMA GetsLockFresh ==
    ASSUME FreshInv, NEW c \in Callers, GetsLock(c)
    PROVE  Fresh(past, server') /\ Got(c)
<1> DEFINE left == Left(server, c)
<1>1. /\ Fresh(past, server) /\ Locked(server) /\ Shape(server) /\ Len(past) \in Nat
      /\ server.calls[c] \in CallSet
  BY DEF FreshInv, Fresh, Locked
<1>2. /\ server.calls[c].at = "lock" /\ Head(server.queue) = c
      /\ server' = IF server.calls[c].answered THEN Continue(left, c, server.state)
                   ELSE Reads(server, c)
  BY DEF GetsLock
<1>3. CASE server.calls[c].answered
  <2>1. Calm({c}, server, left) /\ Shape(left)
    BY <1>1, LeftIsCalm DEF Calm
  <2>2. Calm({"sim"}, left, server')
    BY <1>2, <1>3, <2>1, ContinueIsCalm
  <2> HIDE DEF left
  <2>3. Fresh(past, left)
    BY <1>1, <2>1, FreshWhenCalm
  <2>4. Fresh(past, server')
    BY <1>1, <2>2, <2>3, FreshWhenCalm
  <2>5. Shows(past, server, server.calls[c].since)
    BY <1>1, <1>2, <1>3 DEF Fresh
  <2>6. Shows(past, server', server.calls[c].since)
    BY <2>1, <2>2, <2>5, ShowsWhenCalm
  <2> QED
    BY <2>4, <2>6 DEF Got
<1>4. CASE ~server.calls[c].answered
  <2>1. server.queue # <<>>
    BY DEF GetsLock
  <2>2. \A d \in Callers : server.calls[d].at \notin HoldsLock
    BY <1>1, <1>2 DEF Locked, HoldsLock
  <2>3. Fresh(past, server')
    BY <1>1, <1>2, <1>4, <2>1, <2>2, FreshWhenRead
  <2>4. server'.calls[c].at = "snapshot"
    <3>1. server' = [server EXCEPT !.calls[c].at = "snapshot", !.covered = ToSet(server.queue)]
      BY <1>2, <1>4 DEF Reads
    <3>2. server.calls \in [Callers -> CallSet] /\ DOMAIN server = Fields
      BY <1>1 DEF Locked, Shape
    <3> QED
      BY <3>1, <3>2 DEF Fields, CallSet
  <2> QED
    BY <2>3, <2>4 DEF Got, Returns
<1> QED
  BY <1>3, <1>4

LEMMA TakesSnapshotFresh ==
    ASSUME FreshInv, NEW c \in Callers, TakesSnapshot(c)
    PROVE  Fresh(past, server') /\ Got(c)
<1> DEFINE n == Len(past)
           tree == [server.state EXCEPT !.tree = disk]
           answered == Answered(server, c, tree)
           paused == IF c = "watch" THEN Pause(server) ELSE server
<1>1. /\ Fresh(past, server) /\ Locked(server) /\ Shape(server) /\ n \in Nat \ {0}
      /\ server.calls[c] \in CallSet /\ server.state \in [tree : Trees, report : Specs]
      /\ past[n] = disk /\ disk \in Trees
  <2>1. past \in Seq(Trees) /\ past # <<>>
    BY DEF FreshInv
  <2>2. n \in Nat \ {0} /\ past[n] \in Trees
    BY <2>1
  <2> QED
    BY <2>2 DEF FreshInv, Fresh, Locked, disk, Last
<1>2. /\ server.calls[c].at = "snapshot"
      /\ server' = IF disk.spec = server.state.tree.spec THEN Continue(answered, c, tree)
                   ELSE [paused EXCEPT !.calls[c].at = "build", !.calls[c].tree = disk]
  BY DEF TakesSnapshot
<1>3. Spans(server, c, n)
  BY <1>1 DEF Fresh, Spans
<1>4. /\ tree \in [tree : Trees, report : Specs] /\ tree.tree = disk
      /\ tree.report = server.state.report
  BY <1>1
<1>5. CASE disk.spec = server.state.tree.spec
  <2>1. server.torn \/ server.state.report = disk.spec
    BY <1>1, <1>5 DEF Fresh
  <2>2. Reports(past, server, n, server.state.report)
    <3>1. CASE server.state.report = disk.spec
      BY <1>1, <3>1 DEF Reports
    <3>2. CASE server.state.report # disk.spec
      <4>1. PICK k \in 1 .. n : /\ past[k] = server.state.tree
                                /\ Reports(past, server, k, server.state.report)
        BY <1>1 DEF Fresh, Shows
      <4>2. CASE \E j \in k .. n : past[j].spec = server.state.report
        <5>1. PICK j \in k .. n : past[j].spec = server.state.report
          BY <4>2
        <5>2. j # k /\ j # n
          BY <1>1, <1>5, <3>2, <4>1, <5>1
        <5>3. k + 1 < n /\ k \in 1 .. n /\ n \in 1 .. n /\ j \in k .. n
          BY <1>1, <5>1, <5>2
        <5>4. past[k].spec = past[n].spec /\ past[j].spec # past[k].spec
          BY <1>1, <1>5, <3>2, <4>1, <5>1
        <5>5. Reverts(past)
          BY <5>3, <5>4 DEF Reverts
        <5> QED
          BY <2>1, <3>2, <5>5 DEF Reports, Hides
      <4> QED
        BY <4>1, <4>2 DEF Reports
    <3> QED
      BY <3>1, <3>2
  <2> HIDE DEF n, tree
  <2>3. /\ Fresh(past, answered) /\ Shows(past, answered, server.calls[c].since)
    <3>1. server.torn \/ tree.report = tree.tree.spec
      BY <1>4, <2>1
    <3>2. n \in 1 .. Len(past) /\ past[n] = tree.tree
      BY <1>1, <1>4 DEF n
    <3>3. Len(past) \in Nat /\ server.calls[c].at \in HoldsLock
      BY <1>1, <1>2 DEF n, HoldsLock
    <3>4. Reports(past, server, n, tree.report)
      BY <1>4, <2>2
    <3> QED
      BY <1>1, <1>3, <1>4, <3>1, <3>2, <3>3, <3>4, FreshWhenAnswered
  <2>4. Shape(answered) /\ Len(past) \in Nat
    BY <1>1, <2>3 DEF Fresh, n
  <2> HIDE DEF answered
  <2>5. Calm({"sim"}, answered, server')
    BY <1>2, <1>5, <2>4, ContinueIsCalm
  <2> QED
    BY <2>3, <2>4, <2>5, FreshWhenCalm, ShowsWhenCalm DEF Got
<1>6. CASE disk.spec # server.state.tree.spec
  <2> DEFINE q == [paused EXCEPT !.calls[c].at = "build", !.calls[c].tree = disk]
  <2>1. server' = q
    BY <1>2, <1>6
  <2>2. Calm({"sim"} \ {c}, server, paused)
    BY <1>1, PauseIsCalm, SameIsCalm DEF Calm
  <2> HIDE DEF paused, n
  <2>3. /\ Fresh(past, paused) /\ DOMAIN paused = Fields /\ paused.calls \in [Callers -> CallSet]
        /\ Locked(paused)
    BY <1>1, <2>2, FreshWhenCalm DEF Fresh, Shape, Locked, n
  <2>4. paused.calls[c] = server.calls[c]
    BY <1>1, <2>2 DEF Calm
  <2>5. /\ DOMAIN q = Fields /\ q.queue = paused.queue /\ q.state = paused.state
        /\ q.torn = paused.torn /\ q.covered = paused.covered
        /\ q.calls = [paused.calls EXCEPT ![c] = [[@ EXCEPT !.at = "build"] EXCEPT !.tree = disk]]
    BY <2>3 DEF Fields
  <2> HIDE DEF q
  <2>6. /\ \A d \in Callers \ {c} : q.calls[d] = paused.calls[d]
        /\ q.calls[c] = [[paused.calls[c] EXCEPT !.at = "build"] EXCEPT !.tree = disk]
        /\ DOMAIN q.calls = Callers
    BY <2>3, <2>5
  <2>7. /\ q.calls[c] \in CallSet /\ q.calls[c].at = "build" /\ q.calls[c].tree = disk
        /\ q.calls[c].since = paused.calls[c].since
        /\ q.calls[c].answered = paused.calls[c].answered
    <3>1. paused.calls[c] \in CallSet
      BY <2>3
    <3> QED
      BY <1>1, <2>6, <3>1 DEF CallSet, CallStates
  <2>8. Locked(q)
    <3>1. q.calls \in [Callers -> CallSet]
      BY <2>3, <2>5, <2>6, <2>7
    <3>2. paused.calls[c].at \in HoldsLock
      BY <1>2, <2>4 DEF HoldsLock
    <3> QED
      BY <2>3, <2>5, <2>6, <3>1, <3>2 DEF Locked
  <2>9. ASSUME NEW m, Shows(past, paused, m) PROVE Shows(past, q, m)
    BY <2>5, <2>9 DEF Shows, Reports, Hides
  <2>10. ASSUME NEW d \in Callers
         PROVE  /\ q.calls[d].since <= n
                /\ q.calls[d].at = "lock" /\ q.calls[d].answered => Shows(past, q, q.calls[d].since)
    <3>1. /\ paused.calls[d].since <= n
          /\ paused.calls[d].at = "lock" /\ paused.calls[d].answered =>
                Shows(past, paused, paused.calls[d].since)
      BY <2>3 DEF Fresh, n
    <3> QED
      BY <2>6, <2>7, <2>9, <3>1
  <2>11. Spans(q, c, n)
    BY <2>10 DEF Spans
  <2>12. ASSUME NEW d \in Callers, q.calls[d].at = "build"
         PROVE  \E k \in 1 .. Len(past) : past[k] = q.calls[d].tree /\ Spans(q, d, k)
    <3>1. d = c
      BY <2>7, <2>8, <2>12 DEF Locked, HoldsLock
    <3>2. n \in 1 .. Len(past) /\ past[n] = q.calls[c].tree
      BY <1>1, <2>7 DEF n
    <3> QED
      BY <2>11, <3>1, <3>2
  <2>13. Shows(past, q, 1) /\ (q.torn \/ q.state.report = q.state.tree.spec)
         /\ q.state \in [tree : Trees, report : Specs]
    BY <2>3, <2>5, <2>9 DEF Fresh
  <2>14. Fresh(past, q)
    BY <2>5, <2>8, <2>10, <2>12, <2>13 DEF Fresh, Shape, n
  <2> QED
    BY <2>1, <2>7, <2>14 DEF Got, Returns
<1> QED
  BY <1>5, <1>6

LEMMA BuildsFresh ==
    ASSUME FreshInv, NEW c \in Callers, Builds(c)
    PROVE  Fresh(past, server') /\ Got(c)
<1> DEFINE n == Len(past)
           state == [tree |-> server.calls[c].tree, report |-> disk.spec]
           late == server.torn \/ state.report # state.tree.spec
           torn == [server EXCEPT !.torn = late]
           answered == Answered(torn, c, state)
<1>1. /\ Fresh(past, server) /\ Locked(server) /\ Shape(server) /\ n \in Nat \ {0}
      /\ server.calls[c] \in CallSet /\ past[n] = disk /\ disk \in Trees
  <2>1. past \in Seq(Trees) /\ past # <<>>
    BY DEF FreshInv
  <2>2. n \in Nat \ {0} /\ past[n] \in Trees
    BY <2>1
  <2> QED
    BY <2>2 DEF FreshInv, Fresh, Locked, disk, Last
<1>2. server.calls[c].at = "build" /\ server' = Continue(answered, c, state)
  BY DEF Builds
<1>3. PICK k \in 1 .. n : past[k] = server.calls[c].tree /\ Spans(server, c, k)
  BY <1>1, <1>2 DEF Fresh
<1>4. /\ state \in [tree : Trees, report : Specs] /\ state.tree = server.calls[c].tree
      /\ state.report = past[n].spec
  BY <1>1 DEF CallSet, Trees
<1> HIDE DEF state
<1>5. late = (server.torn \/ state.report # state.tree.spec)
  OBVIOUS
<1> HIDE DEF late
<1>6. /\ Shape(torn) /\ torn.state = server.state /\ torn.covered = server.covered
      /\ torn.torn = late /\ torn.queue = server.queue /\ torn.calls = server.calls
  BY <1>1 DEF Shape, Fields
<1> HIDE DEF torn, n
<1>7. Calm({}, server, torn)
  BY <1>5, <1>6, SameIsCalm
<1>8. Fresh(past, torn) /\ Len(past) \in Nat
  BY <1>1, <1>7, FreshWhenCalm DEF n
<1>9. Fresh(past, answered) /\ Shows(past, answered, server.calls[c].since)
  <2>1. Spans(torn, c, k)
    BY <1>3, <1>6 DEF Spans
  <2>2. Reports(past, torn, k, state.report)
    BY <1>1, <1>3, <1>4 DEF Reports, n
  <2>3. torn.calls[c].at \in HoldsLock /\ (torn.torn \/ state.report = state.tree.spec)
    BY <1>2, <1>5, <1>6 DEF HoldsLock
  <2>4. k \in 1 .. Len(past) /\ past[k] = state.tree
    BY <1>3, <1>4 DEF n
  <2> QED
    BY <1>4, <1>6, <1>8, <2>1, <2>2, <2>3, <2>4, FreshWhenAnswered
<1>10. Shape(answered)
  BY <1>9 DEF Fresh
<1> HIDE DEF answered
<1>11. Calm({"sim"}, answered, server')
  BY <1>2, <1>10, ContinueIsCalm
<1> QED
  BY <1>8, <1>9, <1>11, FreshWhenCalm, ShowsWhenCalm DEF Got

-----------------------------------------------------------------------------
(* The other steps. *)

\* Only what the workspace does not look at has changed.
Aside(s, q) ==
    /\ Shape(q) /\ q.state = s.state /\ q.covered = s.covered /\ (s.torn => q.torn)
    /\ q.queue = s.queue /\ q.calls = s.calls

LEMMA AsideOn ==
    ASSUME NEW s, NEW p, NEW q, Aside(s, p), Aside(p, q)
    PROVE  Aside(s, q)
  BY DEF Aside

LEMMA FreshAside ==
    ASSUME NEW p, Len(p) \in Nat, NEW s, NEW q, Fresh(p, s), Aside(s, q)
    PROVE  Fresh(p, q)
<1>1. Calm({}, s, q)
  BY SameIsCalm DEF Aside
<1> QED
  BY <1>1, FreshWhenCalm

LEMMA ToldAside ==
    ASSUME NEW s, Shape(s), NEW f, NEW seq
    PROVE  Aside(s, Told(s, f, seq))
  BY DEF Told, Aside, Shape, Fields

LEMMA SlidAside ==
    ASSUME NEW s, Shape(s), NEW f
    PROVE  Aside(s, Slid(s, f))
  BY DEF Slid, Aside, Shape, Fields

LEMMA ReadAside ==
    ASSUME NEW s, Shape(s), NEW f
    PROVE  Aside(s, Read(s, f))
<1> DEFINE cursor == s.follow[f].cursor
           from == IF cursor + 1 > Oldest(s) THEN cursor + 1 ELSE Oldest(s)
           new == [i \in 1 .. (Len(s.log) + 1 - from) |-> from + i - 1]
           at == IF s.closed THEN "over" ELSE "wait"
           p == [s EXCEPT !.follow[f].at = "batch", !.follow[f].batch = new]
           rest == [s EXCEPT !.follow[f].at = at]
<1>1. Read(s, f) = IF from > Len(s.log) THEN rest ELSE Told(p, f, from)
  BY DEF Read
<1> HIDE DEF from, new, at
<1>2. Aside(s, p) /\ Aside(s, rest)
  BY DEF Aside, Shape, Fields
<1> HIDE DEF p, rest
<1>3. Aside(p, Told(p, f, from))
  BY <1>2, ToldAside DEF Aside
<1> QED
  BY <1>1, <1>2, <1>3, AsideOn

LEMMA FollowsAside ==
    ASSUME Shape(server), NEW f \in Followers, Follows(f)
    PROVE  Aside(server, server')
<1>1. CASE AfterResync(f)
  <2> DEFINE p == [server EXCEPT !.follow[f].cursor = Len(server.log),
                                 !.follow[f].slid = Len(server.log) > server.follow[f].informed]
  <2>1. server' = Read(p, f)
    BY <1>1 DEF AfterResync
  <2>2. Aside(server, p)
    BY DEF Aside, Shape, Fields
  <2> HIDE DEF p
  <2>3. Aside(p, Read(p, f))
    BY <2>2, ReadAside DEF Aside
  <2> QED
    BY <2>1, <2>2, <2>3, AsideOn
<1>2. CASE AfterEvent(f)
  <2> DEFINE batch == server.follow[f].batch
             p == [server EXCEPT !.follow[f].cursor = Head(batch), !.follow[f].batch = Tail(batch)]
             q == Slid(p, f)
  <2>1. server' = IF Len(batch) > 1 THEN Told(p, f, batch[2]) ELSE Read(q, f)
    BY <1>2 DEF AfterEvent
  <2> HIDE DEF batch
  <2>2. Aside(server, p)
    BY DEF Aside, Shape, Fields
  <2> HIDE DEF p
  <2>3. Aside(p, Told(p, f, batch[2])) /\ Aside(p, q)
    BY <2>2, ToldAside, SlidAside DEF Aside
  <2> HIDE DEF q
  <2>4. Aside(q, Read(q, f))
    BY <2>3, ReadAside DEF Aside
  <2> QED
    BY <2>1, <2>2, <2>3, <2>4, AsideOn
<1>3. CASE Wakes(f)
  <2> DEFINE p == Slid(server, f)
  <2>1. server' = Read(p, f)
    BY <1>3 DEF Wakes
  <2>2. Aside(server, p)
    BY SlidAside
  <2> HIDE DEF p
  <2>3. Aside(p, Read(p, f))
    BY <2>2, ReadAside DEF Aside
  <2> QED
    BY <2>1, <2>2, <2>3, AsideOn
<1> QED
  BY <1>1, <1>2, <1>3 DEF Follows

LEMMA ConnectionsAside ==
    ASSUME Shape(server), Connections
    PROVE  Aside(server, server')
<1>1. PICK f \in Followers :
          \E after \in {server.follow[f].last, Len(server.log), Len(server.log) + 1} :
              Joins(f, after)
  BY DEF Connections
<1>2. PICK after \in {server.follow[f].last, Len(server.log), Len(server.log) + 1} :
          Joins(f, after)
  BY <1>1
<1> DEFINE a == [server.follow[f] EXCEPT
                    !.at = "resync", !.slid = FALSE, !.batch = <<>>,
                    !.last = IF Len(server.log) > 0 THEN Len(server.log) ELSE 1,
                    !.informed = Len(server.log)]
           b == AtCursor(server.follow[f], after, Len(server.log))
           p == [server EXCEPT !.follow[f] = a]
           q == [server EXCEPT !.follow[f] = b]
<1>3. server' = IF StaleCursor(server, after) THEN p ELSE Read(q, f)
  BY <1>2 DEF Joins
<1> HIDE DEF a, b
<1>4. Aside(server, p) /\ Aside(server, q)
  BY DEF Aside, Shape, Fields
<1> HIDE DEF p, q
<1>5. Aside(q, Read(q, f))
  BY <1>4, ReadAside DEF Aside
<1> QED
  BY <1>3, <1>4, <1>5, AsideOn

LEMMA RelaysAside ==
    ASSUME Shape(server), Relays
    PROVE  Aside(server, server')
<1>1. server' = server \/ \E n : server' = Publish(server, <<Notice(n)>>)
  BY DEF Relays, Delivers, Elapses, Flush, Announced
<1>2. ASSUME NEW n PROVE Aside(server, Publish(server, <<Notice(n)>>))
  <2> DEFINE event == Notice(n)
  <2> HIDE DEF event
  <2>1. Aside(server, Publish(server, <<event>>))
    BY DEF Publish, Aside, Shape, Fields
  <2> QED
    BY <2>1 DEF event
<1>3. Aside(server, server)
  BY DEF Aside
<1> QED
  BY <1>1, <1>2, <1>3

LEMMA WatchesFresh ==
    ASSUME FreshInv, Watches
    PROVE  Fresh(past, server')
<1>1. server' = server \/ server' = Asked(server, "watch")
  BY DEF Watches, StartsWatching, Notices, TakesBatch, SettlesMore, Settles
<1>2. Fresh(past, server) /\ Len(past) \in Nat
  BY DEF FreshInv
<1>3. Fresh(past, Asked(server, "watch"))
  BY <1>2, FreshWhenAsked DEF Callers
<1> QED
  BY <1>1, <1>2, <1>3

LEMMA AppliesFresh ==
    ASSUME NEW s, Len(past) \in Nat, Fresh(past, s), NEW i, NEW found
    PROVE  Fresh(past, Applies(s, i, found))
<1> DEFINE p == [s EXCEPT !.sims[i].at = "over"]
           q == [s EXCEPT !.sims[i].at = "apply", !.simulated = found]
<1>1. Applies(s, i, found) = IF s.sims[i].key # s.key THEN p ELSE Asked(q, "sim")
  BY DEF Applies
<1>2. Shape(s)
  BY DEF Fresh
<1>3. Aside(s, p) /\ Aside(s, q)
  BY <1>2 DEF Aside, Shape, Fields
<1> HIDE DEF p, q
<1>4. Fresh(past, p) /\ Fresh(past, q)
  BY <1>3, FreshAside
<1>5. Fresh(past, Asked(q, "sim"))
  BY <1>4, FreshWhenAsked DEF Callers
<1> QED
  BY <1>1, <1>4, <1>5

LEMMA SimulationFresh ==
    ASSUME FreshInv, Simulation
    PROVE  Fresh(past, server')
<1>1. PICK i : Starts(i) \/ Reaped(i) \/ Simulates(i)
  BY DEF Simulation
<1>2. Fresh(past, server) /\ Len(past) \in Nat /\ Shape(server)
  BY DEF FreshInv, Fresh
<1>3. CASE Starts(i) \/ Reaped(i)
  <2>1. PICK at : server' = [server EXCEPT !.sims[i].at = at]
    BY <1>3 DEF Starts, Reaped
  <2>2. Aside(server, server')
    BY <1>2, <2>1 DEF Aside, Shape, Fields
  <2> QED
    BY <1>2, <2>2, FreshAside
<1>4. CASE Simulates(i)
  <2> DEFINE p == Applies(server, i, Found(disk.spec))
             torn == p.torn \/ disk.spec # server.sims[i].key
  <2>1. server' = [p EXCEPT !.torn = torn]
    BY <1>4 DEF Simulates
  <2>2. Fresh(past, p)
    BY <1>2, AppliesFresh
  <2>3. p.torn => torn
    OBVIOUS
  <2>4. Shape(p)
    BY <2>2 DEF Fresh
  <2> HIDE DEF p, torn
  <2>5. Aside(p, server')
    BY <2>1, <2>3, <2>4 DEF Aside, Shape, Fields
  <2> QED
    BY <1>2, <2>2, <2>5, FreshAside
<1> QED
  BY <1>1, <1>3, <1>4

LEMMA ClosesFresh ==
    ASSUME FreshInv, Closes
    PROVE  Fresh(past, server')
<1> DEFINE p == Cancel(server)
<1>1. server' = [p EXCEPT !.closed = TRUE]
  BY DEF Closes
<1>2. Fresh(past, server) /\ Len(past) \in Nat /\ Shape(server)
  BY DEF FreshInv, Fresh
<1>3. Calm({"sim"}, server, p)
  BY <1>2, CancelIsCalm
<1> HIDE DEF p
<1>4. Fresh(past, p)
  BY <1>2, <1>3, FreshWhenCalm
<1>5. Aside(p, server')
  BY <1>1, <1>4 DEF Aside, Shape, Fields, Fresh
<1> QED
  BY <1>2, <1>4, <1>5, FreshAside

LEMMA InputsFresh ==
    ASSUME FreshInv, Inputs
    PROVE  FreshInv'
<1>1. /\ Fresh(past, server) /\ Len(past) \in Nat /\ Shape(server)
      /\ past \in Seq(Trees) /\ past # <<>> /\ disk \in Trees
  <2>1. past \in Seq(Trees) /\ past # <<>>
    BY DEF FreshInv
  <2>2. past[Len(past)] \in Trees
    BY <2>1
  <2> QED
    BY <2>1, <2>2 DEF FreshInv, Fresh, disk, Last
<1>2. ASSUME NEW t \in Trees, past' = Append(past, t), server' = server PROVE FreshInv'
  <2>1. past' \in Seq(Trees) /\ past' # <<>>
    BY <1>1, <1>2
  <2>2. Fresh(past', server')
    BY <1>1, <1>2, FreshWhenEdited
  <2> QED
    BY <2>1, <2>2 DEF FreshInv
<1>3. ASSUME past' = past, Fresh(past, server') PROVE FreshInv'
  BY <1>1, <1>3 DEF FreshInv
<1>4. ASSUME NEW spec \in Specs, Edits([disk EXCEPT !.spec = spec]) PROVE FreshInv'
  <2>1. [disk EXCEPT !.spec = spec] \in Trees
    BY <1>1 DEF Trees
  <2> QED
    BY <1>2, <1>4, <2>1 DEF Edits
<1>5. ASSUME NEW files \in 1 .. 2, Edits([disk EXCEPT !.media = @ + files]) PROVE FreshInv'
  <2>1. [disk EXCEPT !.media = @ + files] \in Trees
    BY <1>1 DEF Trees
  <2> QED
    BY <1>2, <1>5, <2>1 DEF Edits
<1>6. ASSUME PageReads PROVE FreshInv'
  BY <1>1, <1>3, <1>6, FreshWhenAsked DEF PageReads, Callers
<1>7. ASSUME NEW n, Publishes(n) PROVE FreshInv'
  BY <1>1, <1>3, <1>7 DEF Publishes
<1>8. ASSUME NEW c \in Callers, CallFails(c) PROVE FreshInv'
  <2> DEFINE p == Left(server, c)
             q == [p EXCEPT !.failed = @ \cup {c}]
             r == [q EXCEPT !.sims[Current(q)].at = "over"]
  <2>1. server' = (IF c = "sim" THEN r ELSE q) /\ past' = past
    BY <1>8 DEF CallFails
  <2>2. Calm({c}, server, p)
    BY <1>1, LeftIsCalm
  <2>3. Fresh(past, p)
    BY <1>1, <2>2, FreshWhenCalm
  <2> HIDE DEF p
  <2>4. Shape(p) /\ Aside(p, q)
    BY <2>3 DEF Aside, Fresh, Shape, Fields
  <2> HIDE DEF q
  <2>5. Aside(q, r)
    BY <2>4 DEF Aside, Shape, Fields
  <2> HIDE DEF r
  <2>6. Fresh(past, server')
    BY <1>1, <2>1, <2>3, <2>4, <2>5, AsideOn, FreshAside
  <2> QED
    BY <1>3, <2>1, <2>6
<1>9. ASSUME NEW i, SimulationFails(i) PROVE FreshInv'
  <2> DEFINE p == Applies(server, i, 0)
  <2>1. server' = [p EXCEPT !.failed = @ \cup {"sim"}] /\ past' = past
    BY <1>9 DEF SimulationFails
  <2>2. Fresh(past, p)
    BY <1>1, AppliesFresh
  <2> HIDE DEF p
  <2>3. Aside(p, server')
    BY <2>1, <2>2 DEF Aside, Fresh, Shape, Fields
  <2> QED
    BY <1>1, <1>3, <2>1, <2>2, <2>3, FreshAside
<1>10. ASSUME WatchFails PROVE FreshInv'
  <2>1. server' = (IF watcher.at = "refresh" THEN Left(server, "watch") ELSE server) /\ past' = past
    BY <1>10 DEF WatchFails
  <2>2. Calm({"watch"}, server, Left(server, "watch"))
    BY <1>1, LeftIsCalm DEF Callers
  <2> QED
    BY <1>1, <1>3, <2>1, <2>2, FreshWhenCalm
<1> QED
  BY <1>4, <1>5, <1>6, <1>7, <1>8, <1>9, <1>10 DEF Inputs

LEMMA ChannelInitFresh == ChannelInit => FreshInv
<1> SUFFICES ASSUME ChannelInit PROVE FreshInv
  OBVIOUS
<1>1. /\ past = <<NoTree>> /\ DOMAIN server = Fields /\ ~server.torn
      /\ server.state = [tree |-> NoTree, report |-> 0] /\ server.queue = <<>>
      /\ server.calls = [c \in Callers |-> Idle]
  BY DEF ChannelInit, Fields
<1>2. NoTree \in Trees /\ NoTree.spec = 0 /\ 0 \in Specs
  BY ChannelAssumption DEF NoTree, Trees
<1>3. past \in Seq(Trees) /\ Len(past) = 1 /\ past[1] = NoTree /\ past # <<>>
  BY <1>1, <1>2
<1>4. Locked(server)
  BY <1>1, IdleIsCall DEF Locked, HoldsLock
<1>5. Shows(past, server, 1)
  BY <1>1, <1>2, <1>3 DEF Shows, Reports
<1>6. \A c \in Callers : server.calls[c] = Idle
  BY <1>1
<1>7. Fresh(past, server)
  BY <1>1, <1>2, <1>3, <1>4, <1>5, <1>6, IdleIsCall DEF Fresh, Shape
<1> QED
  BY <1>3, <1>7 DEF FreshInv

LEMMA CallFresh ==
    ASSUME FreshInv, NEW c \in Callers, Call(c)
    PROVE  FreshInv' /\ Got(c)
<1>1. Fresh(past, server') /\ Got(c)
  BY GetsLockFresh, TakesSnapshotFresh, BuildsFresh DEF Call
<1>2. past' = past
  BY DEF Call
<1> QED
  BY <1>1, <1>2 DEF FreshInv

LEMMA ChannelNextFresh ==
    ASSUME FreshInv, [ChannelNext]_channelVars
    PROVE  FreshInv'
<1>1. /\ Fresh(past, server) /\ Len(past) \in Nat /\ Shape(server)
  BY DEF FreshInv, Fresh
<1>2. ASSUME past' = past, Fresh(past, server') \/ Aside(server, server') PROVE FreshInv'
  BY <1>1, <1>2, FreshAside DEF FreshInv
<1>3. ASSUME Watches PROVE FreshInv'
  <2>1. past' = past
    BY <1>3 DEF Watches, StartsWatching, Notices, TakesBatch, SettlesMore, Settles
  <2> QED
    BY <1>2, <1>3, <2>1, WatchesFresh
<1>4. ASSUME Simulation PROVE FreshInv'
  <2>1. past' = past
    BY <1>4 DEF Simulation, Starts, Reaped, Simulates
  <2> QED
    BY <1>2, <1>4, <2>1, SimulationFresh
<1>5. ASSUME NEW f \in Followers, Follows(f) PROVE FreshInv'
  <2>1. past' = past
    BY <1>5 DEF Follows, AfterResync, AfterEvent, Wakes
  <2> QED
    BY <1>1, <1>2, <1>5, <2>1, FollowsAside
<1>6. ASSUME Relays PROVE FreshInv'
  <2>1. past' = past
    BY <1>6 DEF Relays, Delivers, Elapses, Flush
  <2> QED
    BY <1>1, <1>2, <1>6, <2>1, RelaysAside
<1>7. ASSUME Connections PROVE FreshInv'
  <2>1. past' = past
    BY <1>7 DEF Connections
  <2> QED
    BY <1>1, <1>2, <1>7, <2>1, ConnectionsAside
<1>8. ASSUME Closes PROVE FreshInv'
  <2>1. past' = past
    BY <1>8 DEF Closes
  <2> QED
    BY <1>2, <1>8, <2>1, ClosesFresh
<1>9. ASSUME UNCHANGED channelVars PROVE FreshInv'
  BY <1>9 DEF channelVars, FreshInv
<1> QED
  BY <1>3, <1>4, <1>5, <1>6, <1>7, <1>8, <1>9, CallFresh, InputsFresh DEF ChannelNext

LEMMA ShownIsFresh ==
    ASSUME FreshInv, NEW c \in Callers, Call(c), Returns(c)
    PROVE  \E i \in server.calls[c].since .. Len(past) :
               /\ past[i] = server'.state.tree
               /\ Hidden' \/ \E j \in server.calls[c].since .. Len(past) :
                                 past[j].spec = server'.state.report
<1> DEFINE n == server.calls[c].since
<1>1. n \in Nat /\ Len(past) \in Nat
  BY DEF FreshInv, Fresh, Locked, CallSet
<1>2. PICK k \in 1 .. Len(past) : /\ n <= k /\ past[k] = server'.state.tree
                                  /\ Reports(past, server', k, server'.state.report)
  BY CallFresh DEF Got, Shows
<1>3. Hidden' = (Reverts(past) /\ server'.torn)
  BY DEF Hidden, Reverted, Reverts, Call
<1> HIDE DEF n
<1>4. Hidden' \/ \E j \in n .. Len(past) : past[j].spec = server'.state.report
  <2>1. CASE Hides(past, server')
    BY <1>3, <2>1 DEF Hides
  <2>2. CASE \E j \in k .. Len(past) : past[j].spec = server'.state.report
    <3>1. PICK j \in k .. Len(past) : past[j].spec = server'.state.report
      BY <2>2
    <3>2. j \in n .. Len(past)
      BY <1>1, <1>2
    <3> QED
      BY <3>1, <3>2
  <2> QED
    BY <1>2, <2>1, <2>2 DEF Reports
<1>5. k \in n .. Len(past)
  BY <1>1, <1>2
<1> QED
  BY <1>2, <1>4, <1>5 DEF n

-----------------------------------------------------------------------------
(* The theorems. *)

\* The invariant of the channel: the cursors and the batches of the followers are
\* as told, and the notices on their way are in the order they were published in.
THEOREM ChannelInvHolds == ChannelSpec => []ChannelInv
  BY ChannelInitInv, ChannelNextInv, PTL DEF ChannelSpec

\* A follower whose cursor has passed an event was given it or was told to reload
\* after it, whatever the window forgets and however clients come back
\* (SpecEventHub.follow).
THEOREM NothingIsMissed == ChannelSpec => []NoSilentGap
<1>1. ChannelInv => NoSilentGap
  BY DEF ChannelInv, FollowInv, Reading, NoSilentGap
<1> QED
  BY <1>1, ChannelInvHolds, PTL

\* Progress of a series comes in order and never after its last status
\* (ProgressThrottle), for any series and any number of notices.
THEOREM ProgressStaysInOrder == ChannelSpec => []NoLateProgress
<1>1. ChannelInv => NoLateProgress
  BY DEF ChannelInv, RelayInv, Ordered, ToldInOrder, NoticesOf, NoLateProgress
<1> QED
  BY <1>1, ChannelInvHolds, PTL

\* Requests that share one reading of the tree do not get an answer from before
\* their own edit (ProjectWorkspace.state), for any number of edits, whoever
\* gives up, fails or asks again meanwhile.
THEOREM AnswersComeFresh == ChannelSpec => AnswersAreFresh
<1>1. ChannelInit => FreshInv
  BY ChannelInitFresh
<1>2. FreshInv /\ [ChannelNext]_channelVars => FreshInv'
  BY ChannelNextFresh
<1>3. FreshInv =>
        [\A c \in Callers :
            Call(c) /\ Returns(c) =>
                \E i \in server.calls[c].since .. Len(past) :
                    /\ past[i] = server'.state.tree
                    /\ Hidden' \/ \E j \in server.calls[c].since .. Len(past) :
                                      past[j].spec = server'.state.report]_channelVars
  BY ShownIsFresh
<1> QED
  BY <1>1, <1>2, <1>3, PTL DEF ChannelSpec, AnswersAreFresh

=============================================================================
