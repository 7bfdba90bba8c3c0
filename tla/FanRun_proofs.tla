--------------------------- MODULE FanRun_proofs ---------------------------
(****************************************************************************)
(* Proofs about FanRun, for nodes of any width, any number of crashes and any  *)
(* length of the run.                                                         *)
(*                                                                          *)
(* A run is what its journal makes of a fresh memory. RunInv says so: there is *)
(* a history h with the memory after each entry of the journal, each the one   *)
(* before it moved by the step and the answer of the entry (Lives); the        *)
(* executor is somewhere along h or gone. Everything else is said of the last  *)
(* memory of h, the tip, since that is where the branches and the stream are:  *)
(* the stream is the tip's log (Written), what the tip has said or is about to *)
(* say is true and told once (Tale), what it knows of the branches and the     *)
(* journal of their results is true (Branching, Results), and it has decided   *)
(* only what its policy lets it (Judged), unless a branch raised.              *)
(* A step of a run that replays moves the executor along h and changes nothing *)
(* else; a step at the tip makes h longer.                                     *)
(*                                                                          *)
(* The row of the run rests on this: it holds a prefix of a stream nobody      *)
(* writes to once it has finished or the run is over (RowInv).                 *)
(****************************************************************************)
EXTENDS FanRun, FiniteSetTheorems, SequenceTheorems, WellFoundedInduction, TLAPS

Fields == {"at", "outbox", "then", "pos", "started", "pending", "ticket", "good", "bad",
           "deferred", "done", "outcome", "bill", "log"}

\* What an emit, a next await and the end of the node leave alone.
Same(r, q) ==
    /\ DOMAIN q = Fields
    /\ q.pos = r.pos /\ q.started = r.started /\ q.pending = r.pending /\ q.bill = r.bill
    /\ q.good = r.good /\ q.bad = r.bad /\ q.log = r.log

LEMMA EmitsFields ==
    ASSUME NEW r, DOMAIN r = Fields, NEW event, NEW then, NEW q, q = Emits(r, event, then)
    PROVE  /\ Same(r, q) /\ q.at = "write" /\ q.outbox = Told(r) \o <<event>>
           /\ q.deferred = {} /\ q.then = then /\ q.done = r.done /\ q.outcome = r.outcome
  BY DEF Emits, Fields, Same

LEMMA TookFields ==
    ASSUME NEW r, DOMAIN r = Fields, NEW q, q = Took(r)
    PROVE  DOMAIN q = Fields /\ q.pos = r.pos + 1 /\ \A f \in Fields \ {"pos"} : q[f] = r[f]
  BY DEF Took, Fields

LEMMA LeavesFields ==
    ASSUME NEW r, DOMAIN r = Fields, NEW outcome, NEW q, q = Leaves(r, outcome)
    PROVE  /\ Same(r, q) /\ q.outcome = outcome /\ q.done = r.done
           /\ r.pending = {} =>
                /\ q.at = "write" /\ q.outbox = Told(r) \o <<NodeFinished(Fan, outcome)>>
                /\ q.deferred = {} /\ q.then = "closed"
           /\ r.pending # {} =>
                q.at = "cancel" /\ q.outbox = r.outbox /\ q.deferred = r.deferred /\ q.then = r.then
<1> DEFINE left == [r EXCEPT !.outcome = outcome]
<1>1. /\ Same(r, left) /\ left.outcome = outcome /\ left.done = r.done
      /\ left.outbox = r.outbox /\ left.deferred = r.deferred /\ left.then = r.then
  BY DEF Same, Fields
<1>2. q = IF r.pending = {} THEN Closes(left) ELSE [left EXCEPT !.at = "cancel"]
  BY DEF Leaves
<1>3. Told(left) = Told(r)
  BY <1>1 DEF Told, Buffered, Same
<1> HIDE DEF left
<1>4. CASE r.pending = {}
  <2>1. q = Emits(left, NodeFinished(Fan, left.outcome), "closed")
    BY <1>2, <1>4 DEF Closes
  <2>2. /\ Same(left, q)
        /\ q.at = "write" /\ q.outbox = Told(left) \o <<NodeFinished(Fan, left.outcome)>>
        /\ q.deferred = {} /\ q.then = "closed" /\ q.done = left.done /\ q.outcome = left.outcome
    BY <2>1, <1>1, EmitsFields DEF Same
  <2> QED
    BY <2>2, <1>1, <1>3, <1>4 DEF Same
<1>5. CASE r.pending # {}
  BY <1>1, <1>2, <1>5 DEF Same, Fields
<1> QED
  BY <1>4, <1>5

LEMMA GoesOnFields ==
    ASSUME NEW r, DOMAIN r = Fields, NEW q, q = GoesOn(r)
    PROVE  \/ r.pending = {} /\ q = Leaves(r, IF IsMap THEN "ok" ELSE "failed")
           \/ /\ Same(r, q) /\ q.outbox = r.outbox /\ q.deferred = r.deferred /\ q.then = r.then
              /\ q.outcome = r.outcome /\ q.done = r.done
              /\ \/ r.started < node.width /\ q.at = "start"
                 \/ /\ r.pending # {} /\ node.ordered /\ q.at = "result"
                    /\ q.ticket = CHOOSE k \in r.pending : \A l \in r.pending : k <= l
                 \/ r.pending # {} /\ ~node.ordered /\ q.at = "first"
<1>1. CASE r.started < node.width /\ Cardinality(r.pending) < Limit
  BY <1>1 DEF GoesOn, Same, Fields
<1>2. CASE ~(r.started < node.width /\ Cardinality(r.pending) < Limit) /\ r.pending = {}
  BY <1>2 DEF GoesOn
<1>3. CASE /\ ~(r.started < node.width /\ Cardinality(r.pending) < Limit)
           /\ r.pending # {} /\ node.ordered
  BY <1>3 DEF GoesOn, Same, Fields
<1>4. CASE /\ ~(r.started < node.width /\ Cardinality(r.pending) < Limit)
           /\ r.pending # {} /\ ~node.ordered
  BY <1>4 DEF GoesOn, Same, Fields
<1> QED
  BY <1>1, <1>2, <1>3, <1>4

LEMMA ItemDoneFields ==
    ASSUME NEW r, DOMAIN r = Fields, NEW q, q = ItemDone(r)
    PROVE  /\ Same(r, q) /\ q.at = "write" /\ q.outbox = Told(r) \o <<Progress(r.done + 1)>>
           /\ q.deferred = {} /\ q.then = "on" /\ q.done = r.done + 1 /\ q.outcome = r.outcome
<1> DEFINE more == [r EXCEPT !.done = r.done + 1]
<1>1. /\ Same(r, more) /\ more.done = r.done + 1 /\ more.deferred = r.deferred
      /\ more.outcome = r.outcome
  BY DEF Same, Fields
<1>2. Told(more) = Told(r)
  BY <1>1 DEF Told, Buffered, Same
<1>3. q = Emits(more, Progress(r.done + 1), "on")
  BY DEF ItemDone
<1> HIDE DEF more
<1>4. /\ Same(more, q) /\ q.at = "write" /\ q.outbox = Told(more) \o <<Progress(r.done + 1)>>
      /\ q.deferred = {} /\ q.then = "on" /\ q.done = more.done /\ q.outcome = more.outcome
  BY <1>1, <1>3, EmitsFields DEF Same
<1> QED
  BY <1>1, <1>2, <1>4 DEF Same

-----------------------------------------------------------------------------
(* Sets of branches and their order. A smallest counterexample stands for     *)
(* induction, which the provers cannot instantiate.                            *)

LEMMA SmallestSubset ==
    ASSUME NEW S, NEW T \in SUBSET FiniteSubsetsOf(S), T # {}
    PROVE  \E x \in T : \A y \in T : ~(y \subseteq x /\ y # x)
<1>1. PICK x \in T : \A y \in T : <<y, x>> \notin StrictSubsetOrdering(S)
  BY FS_StrictSubsetOrderingWellFounded, WFMin
<1>2. ASSUME NEW y \in T PROVE ~(y \subseteq x /\ y # x)
  <2>1. y \in SUBSET S /\ x \in SUBSET S
    BY DEF FiniteSubsetsOf
  <2> QED
    BY <1>1, <2>1 DEF StrictSubsetOrdering
<1> QED
  BY <1>2

LEMMA LeastOfMany ==
    ASSUME NEW ks \in SUBSET Nat, ks # {}
    PROVE  \E k \in ks : \A l \in ks : k <= l
<1> DEFINE T == {1 .. k : k \in ks}
<1>1. T \in SUBSET FiniteSubsetsOf(Nat) /\ T # {}
  <2>1. ASSUME NEW k \in ks PROVE 1 .. k \in FiniteSubsetsOf(Nat)
    BY FS_Interval DEF FiniteSubsetsOf
  <2> QED
    BY <2>1
<1> HIDE DEF T
<1>2. PICK x \in T : \A y \in T : ~(y \subseteq x /\ y # x)
  BY <1>1, SmallestSubset
<1> USE DEF T
<1>3. PICK k \in ks : x = 1 .. k
  BY <1>2
<1>4. ASSUME NEW l \in ks PROVE k <= l
  <2>1. 1 .. l \in T /\ l \in Nat /\ k \in Nat
    OBVIOUS
  <2> HIDE DEF T
  <2>2. SUFFICES ASSUME l < k PROVE FALSE
    BY <2>1
  <2>3. 1 .. l \subseteq 1 .. k /\ k \in 1 .. k /\ k \notin 1 .. l
    BY <2>1, <2>2
  <2> QED
    BY <1>2, <1>3, <2>1, <2>3
<1> QED
  BY <1>4

Sorts(s, ks) ==
    /\ s \in [1 .. Cardinality(ks) -> ks]
    /\ \A i, j \in DOMAIN s : i < j => s[i] < s[j]

LEMMA SortsExist ==
    ASSUME NEW ks \in SUBSET Nat, IsFiniteSet(ks)
    PROVE  \E s : Sorts(s, ks)
<1> DEFINE T == {x \in FiniteSubsetsOf(Nat) : \A s : ~Sorts(s, x)}
<1>1. SUFFICES ASSUME T # {} PROVE FALSE
  BY DEF FiniteSubsetsOf
<1>0. T \in SUBSET FiniteSubsetsOf(Nat)
  OBVIOUS
<1> HIDE DEF T
<1>2. PICK x \in T : \A y \in T : ~(y \subseteq x /\ y # x)
  BY <1>0, <1>1, SmallestSubset
<1> USE DEF T
<1>3. x \in SUBSET Nat /\ IsFiniteSet(x) /\ \A s : ~Sorts(s, x)
  BY <1>2 DEF FiniteSubsetsOf
<1>4. x # {}
  <2>1. SUFFICES ASSUME x = {} PROVE FALSE
    OBVIOUS
  <2> DEFINE s == [i \in 1 .. 0 |-> 0]
  <2>2. Cardinality(x) = 0
    BY <2>1, FS_EmptySet
  <2>3. Sorts(s, x)
    BY <2>2 DEF Sorts
  <2> QED
    BY <1>3, <2>3
<1>5. PICK m \in x : \A l \in x : m <= l
  BY <1>3, <1>4, LeastOfMany
<1>6. /\ IsFiniteSet(x \ {m}) /\ Cardinality(x \ {m}) = Cardinality(x) - 1
      /\ Cardinality(x) \in Nat /\ x \ {m} \in SUBSET Nat
  BY <1>3, FS_RemoveElement, FS_CardinalityType
<1>7. x \ {m} \notin T
  BY <1>2
<1>8. PICK s : Sorts(s, x \ {m})
  BY <1>6, <1>7 DEF FiniteSubsetsOf
<1> DEFINE n == Cardinality(x)
           t == [i \in 1 .. n |-> IF i = 1 THEN m ELSE s[i - 1]]
<1>9. s \in [1 .. n - 1 -> x \ {m}] /\ \A i, j \in 1 .. n - 1 : i < j => s[i] < s[j]
  BY <1>6, <1>8 DEF Sorts
<1>10. \A i \in 1 .. n : t[i] \in x
  BY <1>6, <1>9
<1>11. ASSUME NEW i \in 1 .. n, NEW j \in 1 .. n, i < j PROVE t[i] < t[j]
  <2>1. j - 1 \in 1 .. n - 1 /\ t[j] = s[j - 1] /\ s[j - 1] \in x \ {m}
    BY <1>6, <1>9, <1>11
  <2>2. CASE i = 1
    <3>1. t[i] = m
      BY <2>2
    <3>2. s[j - 1] # m /\ m <= s[j - 1] /\ m \in Nat /\ s[j - 1] \in Nat
      BY <1>3, <1>5, <2>1
    <3> HIDE DEF t
    <3> QED
      BY <2>1, <3>1, <3>2
  <2>3. CASE i # 1
    <3>1. i - 1 \in 1 .. n - 1 /\ t[i] = s[i - 1] /\ i - 1 < j - 1
      BY <1>6, <1>11, <2>3
    <3> QED
      BY <1>9, <2>1, <3>1
  <2> QED
    BY <2>2, <2>3
<1>12. Sorts(t, x)
  BY <1>10, <1>11 DEF Sorts
<1> QED
  BY <1>3, <1>12

\* `sorted(self.deferred)`: each of them once, in their order.
LEMMA InOrderSorts ==
    ASSUME NEW ks \in SUBSET Nat, IsFiniteSet(ks), NEW s, s = InOrder(ks)
    PROVE  /\ Cardinality(ks) \in Nat /\ s \in [1 .. Cardinality(ks) -> ks]
           /\ \A i, j \in 1 .. Cardinality(ks) : i # j => s[i] # s[j]
           /\ \A k \in ks : \E i \in 1 .. Cardinality(ks) : s[i] = k
<1> DEFINE n == Cardinality(ks)
<1>1. Sorts(s, ks)
  <2>1. \E z : z \in [1 .. Cardinality(ks) -> ks] /\ \A i, j \in DOMAIN z : i < j => z[i] < z[j]
    BY SortsExist DEF Sorts
  <2> QED
    BY <2>1 DEF Sorts, InOrder
<1>2. n \in Nat /\ s \in [1 .. n -> ks]
  BY <1>1, FS_CardinalityType DEF Sorts
<1>3. ASSUME NEW i \in 1 .. n, NEW j \in 1 .. n, i # j PROVE s[i] # s[j]
  <2>1. s[i] \in ks /\ s[j] \in ks /\ i \in Int /\ j \in Int
    BY <1>2
  <2>2. s[i] \in Nat /\ s[j] \in Nat
    BY <2>1
  <2>3. i < j \/ j < i
    BY <1>3, <2>1
  <2> QED
    BY <1>1, <1>2, <2>2, <2>3 DEF Sorts
<1>4. s \in Injection(1 .. n, ks)
  BY <1>2, <1>3 DEF Injection, IsInjective
<1>5. Cardinality(1 .. n) = n /\ IsFiniteSet(1 .. n)
  BY <1>2, FS_Interval
<1>6. s \in Surjection(1 .. n, ks)
  BY <1>4, <1>5, FS_Injection
<1> QED
  BY <1>2, <1>3, <1>6 DEF Surjection

-----------------------------------------------------------------------------
(* What the run holds in memory. *)

Thens == {"boundary", "enter", "on", "settled", "closed", "return"}
Final == {"closed", "return"}
Loops == {"start", "first", "result", "cancel"}
Labels == {"run_started", "node_started", "node_finished", "progress", "recovered",
           "run_finished"}
Words == {"", "open", "ok", "failed", "skip", "default", "fail"}
Events == Labels \X Int \X Words
Taken(r) == r.good \cup r.bad

LEMMA EventTypes ==
    /\ \A k \in Int : NodeStarted(k) \in Events /\ Progress(k) \in Events
    /\ \A k \in Int, word \in Words : NodeFinished(k, word) \in Events /\ RunFinished(k, word) \in Events
    /\ \A k \in Int : node \in Nodes /\ IsMap => ItemRecovered(k) \in Events
    /\ RunStarted \in Events
<1>1. \A label \in Labels, k \in Int, word \in Words : <<label, k, word>> \in Events
  BY DEF Events
<1>2. "" \in Words /\ \A label \in {"run_started", "node_started", "node_finished", "progress",
                                    "recovered", "run_finished"} : label \in Labels
  BY DEF Words, Labels
<1>3. node \in Nodes /\ IsMap => node.policy \in Words
  <2>1. SUFFICES ASSUME node \in Nodes, IsMap PROVE node.policy \in Words
    OBVIOUS
  <2>2. node \in MapNodes
    BY <2>1, NodesAssumption DEF FanNodes, ParallelNodes, MapNodes, IsMap
  <2> QED
    BY <2>2 DEF MapNodes, ItemPolicies, Words
<1>4. \A k \in Int : NodeStarted(k) \in Events
  BY <1>1, <1>2 DEF NodeStarted
<1>5. \A k \in Int : Progress(k) \in Events
  BY <1>1, <1>2 DEF Progress
<1>6. \A k \in Int, word \in Words : NodeFinished(k, word) \in Events
  BY <1>1, <1>2 DEF NodeFinished
<1>7. \A k \in Int, word \in Words : RunFinished(k, word) \in Events
  BY <1>1, <1>2 DEF RunFinished
<1>8. \A k \in Int : node \in Nodes /\ IsMap => ItemRecovered(k) \in Events
  BY <1>1, <1>2, <1>3 DEF ItemRecovered
<1>9. RunStarted \in Events
  <2>1. "run_started" \in Labels /\ Fan \in Int
    BY DEF Labels, Fan
  <2> QED
    BY <1>1, <1>2, <2>1 DEF RunStarted
<1> QED
  BY <1>4, <1>5, <1>6, <1>7, <1>8, <1>9

\* Between two awaits.
Inner(r) ==
    /\ DOMAIN r = Fields
    /\ r.then \in Thens /\ r.outcome \in {"open", "ok", "failed"}
    /\ r.started \in 0 .. node.width /\ r.done \in Nat /\ r.bill \in Nat /\ r.pos \in Nat
    /\ r.pending \subseteq 1 .. r.started /\ Taken(r) \subseteq 1 .. r.started
    /\ r.pending \cap Taken(r) = {} /\ r.good \cap r.bad = {}
    /\ r.deferred \subseteq Taken(r)
    /\ r.log \in Seq(Events)
    /\ (r.then \in Final => r.pending = {} /\ r.deferred = {})
    /\ (r.then = "boundary" => Taken(r) = {})

Silent(r) == Inner(r) /\ r.outbox = <<>>

\* The node's loop over its branches.
Looping(r) == r.then \in {"enter", "on"} /\ (IsMap => r.then = "on")

Memory(r) ==
    /\ Inner(r)
    /\ r.outbox \in Seq(Events)
    /\ r.at \in Steps \cup {"project", "return"}
    /\ (r.at = "write" <=> r.outbox # <<>>)
    /\ (r.at \in Loops => Looping(r))
    /\ (r.at = "boundary" => r.then = "boundary")
    /\ (r.at = "return" => r.then = "return")
    /\ (r.at = "start" => r.started < node.width)
    /\ (r.at = "result" => r.ticket \in r.pending)
    /\ (r.at = "cancel" => r.outcome # "open")

LEMMA ToldEvents ==
    ASSUME NEW r, Inner(r)
    PROVE  /\ Cardinality(r.deferred) \in Nat /\ Told(r) \in Seq(Events)
           /\ Len(Told(r)) = 2 * Cardinality(r.deferred)
           /\ \A i \in 1 .. 2 * Cardinality(r.deferred) :
                 /\ InOrder(r.deferred)[(i + 1) \div 2] \in r.deferred
                 /\ Told(r)[i] = IF i % 2 = 1 THEN NodeStarted(InOrder(r.deferred)[(i + 1) \div 2])
                                 ELSE NodeFinished(InOrder(r.deferred)[(i + 1) \div 2],
                                        IF InOrder(r.deferred)[(i + 1) \div 2] \in r.good
                                        THEN "ok" ELSE "failed")
<1> DEFINE n == Cardinality(r.deferred)
           s == InOrder(r.deferred)
<1>1. r.deferred \in SUBSET Nat /\ IsFiniteSet(r.deferred)
  <2>1. r.started \in Nat /\ r.deferred \subseteq 1 .. r.started
    BY NodesAssumption DEF Inner
  <2>2. IsFiniteSet(1 .. r.started)
    BY <2>1, FS_Interval
  <2> QED
    BY <2>1, <2>2, FS_Subset
<1>2. n \in Nat /\ s \in [1 .. n -> r.deferred]
  BY <1>1, InOrderSorts
<1> HIDE DEF n, s
<1>3. ASSUME NEW i \in 1 .. 2 * n
      PROVE  /\ s[(i + 1) \div 2] \in r.deferred
             /\ Told(r)[i] = IF i % 2 = 1 THEN NodeStarted(s[(i + 1) \div 2])
                                 ELSE NodeFinished(s[(i + 1) \div 2],
                                        IF s[(i + 1) \div 2] \in r.good THEN "ok" ELSE "failed")
             /\ Told(r)[i] \in Events
  <2>1. (i + 1) \div 2 \in 1 .. n
    BY <1>2
  <2>2. s[(i + 1) \div 2] \in r.deferred /\ s[(i + 1) \div 2] \in Int
    BY <1>1, <1>2, <2>1
  <2>3. Told(r)[i] = IF i % 2 = 1 THEN NodeStarted(s[(i + 1) \div 2])
                                 ELSE NodeFinished(s[(i + 1) \div 2],
                                        IF s[(i + 1) \div 2] \in r.good THEN "ok" ELSE "failed")
    BY DEF Told, Buffered, n, s
  <2>4. Told(r)[i] \in {NodeStarted(s[(i + 1) \div 2]), NodeFinished(s[(i + 1) \div 2], "ok"),
                        NodeFinished(s[(i + 1) \div 2], "failed")}
    BY <2>3
  <2>5. \A k \in Int : /\ NodeStarted(k) \in Events /\ NodeFinished(k, "ok") \in Events
                       /\ NodeFinished(k, "failed") \in Events
    BY EventTypes DEF Words
  <2> QED
    BY <2>2, <2>3, <2>4, <2>5
<1>4. DOMAIN Told(r) = 1 .. 2 * n
  BY DEF Told, n
<1>5. Told(r) \in Seq(Events) /\ Len(Told(r)) = 2 * n
  <2>1. Told(r) \in [1 .. 2 * n -> Events]
    <3>1. Told(r) = [i \in 1 .. 2 * n |-> Told(r)[i]]
      BY DEF Told, n
    <3> QED
      BY <1>3, <3>1
  <2> QED
    BY <1>2, <2>1
<1> QED
  BY <1>2, <1>3, <1>5 DEF n, s

\* An emit: what it writes is not empty, and is of events.
LEMMA SaysEvents ==
    ASSUME NEW r, Inner(r), NEW event \in Events
    PROVE  Told(r) \o <<event>> \in Seq(Events) /\ Told(r) \o <<event>> # <<>>
<1>1. Told(r) \in Seq(Events) /\ <<event>> \in Seq(Events) /\ Len(<<event>>) = 1
  BY ToldEvents
<1> DEFINE t == Told(r)
           e == <<event>>
<1> HIDE DEF t, e
<1>2. t \o e \in Seq(Events) /\ Len(t \o e) = Len(t) + 1 /\ Len(t) \in Nat
  BY <1>1, ConcatProperties DEF t, e
<1>3. t \o e # <<>>
  BY <1>2
<1> QED
  BY <1>2, <1>3 DEF t, e

LEMMA MemoryEmits ==
    ASSUME NEW r, Silent(r), r.then \notin Final, NEW event \in Events,
           NEW then \in Thens \ {"boundary"}, then \in Final => r.pending = {},
           NEW q, q = Emits(r, event, then)
    PROVE  Memory(q)
<1>1. /\ Same(r, q) /\ q.at = "write" /\ q.outbox = Told(r) \o <<event>>
      /\ q.deferred = {} /\ q.then = then /\ q.done = r.done /\ q.outcome = r.outcome
  BY EmitsFields DEF Silent, Inner
<1>2. Inner(q)
  BY <1>1 DEF Silent, Inner, Same, Taken
<1>3. q.outbox \in Seq(Events) /\ q.outbox # <<>>
  BY <1>1, SaysEvents DEF Silent
<1> QED
  BY <1>1, <1>2, <1>3 DEF Memory, Steps, Loops

LEMMA MemoryLeaves ==
    ASSUME NEW r, Silent(r), Looping(r), NEW outcome \in {"ok", "failed"},
           NEW q, q = Leaves(r, outcome)
    PROVE  Memory(q)
<1>1. /\ Same(r, q) /\ q.outcome = outcome /\ q.done = r.done
      /\ r.pending = {} =>
           /\ q.at = "write" /\ q.outbox = Told(r) \o <<NodeFinished(Fan, outcome)>>
           /\ q.deferred = {} /\ q.then = "closed"
      /\ r.pending # {} =>
           q.at = "cancel" /\ q.outbox = r.outbox /\ q.deferred = r.deferred /\ q.then = r.then
  BY LeavesFields DEF Silent, Inner
<1>2. CASE r.pending = {}
  <2>1. Inner(q)
    BY <1>1, <1>2 DEF Silent, Inner, Same, Taken, Thens
  <2>2. NodeFinished(Fan, outcome) \in Events
    <3>1. outcome \in Words
      BY DEF Words
    <3>2. Fan \in Int
      BY DEF Fan
    <3> QED
      BY <3>1, <3>2, EventTypes
  <2>3. q.outbox \in Seq(Events) /\ q.outbox # <<>>
    BY <1>1, <1>2, <2>2, SaysEvents DEF Silent
  <2> QED
    BY <1>1, <1>2, <2>1, <2>3 DEF Memory, Steps, Loops
<1>3. CASE r.pending # {}
  <2>1. Inner(q) /\ Looping(q) /\ q.outbox = <<>>
    BY <1>1, <1>3 DEF Silent, Inner, Same, Taken, Looping
  <2> QED
    BY <1>1, <1>3, <2>1 DEF Memory, Steps, Loops
<1> QED
  BY <1>2, <1>3

LEMMA MemoryGoesOn ==
    ASSUME NEW r, Silent(r), Looping(r), NEW q, q = GoesOn(r)
    PROVE  Memory(q)
<1>1. CASE r.pending = {} /\ q = Leaves(r, IF IsMap THEN "ok" ELSE "failed")
  <2>1. (IF IsMap THEN "ok" ELSE "failed") \in {"ok", "failed"}
    OBVIOUS
  <2> QED
    BY <1>1, <2>1, MemoryLeaves
<1>2. CASE /\ Same(r, q) /\ q.outbox = r.outbox /\ q.deferred = r.deferred /\ q.then = r.then
           /\ q.outcome = r.outcome /\ q.done = r.done
           /\ \/ r.started < node.width /\ q.at = "start"
              \/ /\ r.pending # {} /\ node.ordered /\ q.at = "result"
                 /\ q.ticket = CHOOSE k \in r.pending : \A l \in r.pending : k <= l
              \/ r.pending # {} /\ ~node.ordered /\ q.at = "first"
  <2>1. Inner(q) /\ Looping(q) /\ q.outbox = <<>>
    BY <1>2 DEF Silent, Inner, Same, Taken, Looping
  <2>2. q.at = "result" => q.ticket \in q.pending
    <3>1. r.pending \in SUBSET Nat
      BY NodesAssumption DEF Silent, Inner
    <3> QED
      BY <1>2, <3>1, LeastOfMany DEF Same
  <2>3. q.at = "start" => q.started < node.width
    BY <1>2 DEF Same
  <2> QED
    BY <1>2, <2>1, <2>2, <2>3 DEF Memory, Steps, Loops
<1> QED
  BY <1>1, <1>2, GoesOnFields DEF Silent, Inner

LEMMA MemoryItemDone ==
    ASSUME NEW r, Silent(r), r.then \notin Final, NEW q, q = ItemDone(r)
    PROVE  Memory(q)
<1>1. /\ Same(r, q) /\ q.at = "write" /\ q.outbox = Told(r) \o <<Progress(r.done + 1)>>
      /\ q.deferred = {} /\ q.then = "on" /\ q.done = r.done + 1 /\ q.outcome = r.outcome
  BY ItemDoneFields DEF Silent, Inner
<1>2. r.done + 1 \in Nat /\ r.done + 1 \in Int
  BY DEF Silent, Inner
<1>3. Inner(q)
  BY <1>1, <1>2 DEF Silent, Inner, Same, Taken, Thens, Final
<1>4. q.outbox \in Seq(Events) /\ q.outbox # <<>>
  BY <1>1, <1>2, EventTypes, SaysEvents DEF Silent
<1> QED
  BY <1>1, <1>3, <1>4 DEF Memory, Steps, Loops

\* What follows an emit.
Settled(r) == IF r.at = "project" THEN Proceeds(r) ELSE r

LEMMA MemoryProceeds ==
    ASSUME node \in Nodes, NEW r, Memory(r), r.at = "project", NEW q, q = Proceeds(r)
    PROVE  /\ Memory(q) /\ q.at # "project"
           /\ q.pos = r.pos /\ q.log = r.log /\ q.pending = r.pending
           /\ q.good = r.good /\ q.bad = r.bad /\ q.started = r.started
<1>1. Silent(r) /\ DOMAIN r = Fields /\ r.then \in Thens
  BY DEF Memory, Silent, Inner
<1>2. CASE r.then = "boundary"
  <2>1. q = [r EXCEPT !.at = "boundary"]
    BY <1>2 DEF Proceeds
  <2>2. /\ Same(r, q) /\ q.at = "boundary" /\ q.outbox = r.outbox /\ q.deferred = r.deferred
        /\ q.then = r.then /\ q.outcome = r.outcome /\ q.done = r.done
    BY <1>1, <2>1 DEF Same, Fields
  <2>3. Inner(q) /\ q.outbox = <<>>
    BY <1>1, <2>2 DEF Silent, Inner, Same, Taken
  <2>4. Memory(q)
    BY <1>2, <2>2, <2>3 DEF Memory, Steps, Loops
  <2> QED
    BY <2>2, <2>4 DEF Same
<1>3. CASE r.then = "enter" /\ IsMap
  <2>1. q = Emits(r, Progress(0), "on")
    BY <1>3 DEF Proceeds
  <2>2. Memory(q)
    BY <1>1, <1>3, <2>1, MemoryEmits, EventTypes DEF Thens, Final
  <2> DEFINE event == Progress(0)
  <2>3. q = Emits(r, event, "on")
    BY <2>1
  <2> HIDE DEF event
  <2>4. /\ Same(r, q) /\ q.at = "write" /\ q.outbox = Told(r) \o <<event>>
        /\ q.deferred = {} /\ q.then = "on" /\ q.done = r.done /\ q.outcome = r.outcome
    BY <1>1, <2>3, EmitsFields
  <2> QED
    BY <2>2, <2>4 DEF Same
<1>4. CASE r.then \in {"enter", "on"} /\ ~(r.then = "enter" /\ IsMap)
  <2>1. q = GoesOn(r) /\ Looping(r)
    BY <1>1, <1>4 DEF Proceeds, Looping, Thens
  <2>2. Memory(q)
    BY <1>1, <2>1, MemoryGoesOn
  <2>3. Same(r, q) /\ q.at # "project"
    <3>1. CASE r.pending = {} /\ q = Leaves(r, IF IsMap THEN "ok" ELSE "failed")
      <4> DEFINE word == IF IsMap THEN "ok" ELSE "failed"
      <4>2. q = Leaves(r, word)
        BY <3>1
      <4> HIDE DEF word
      <4>1. /\ Same(r, q) /\ q.outcome = word /\ q.done = r.done
            /\ r.pending = {} =>
                 /\ q.at = "write" /\ q.outbox = Told(r) \o <<NodeFinished(Fan, word)>>
                 /\ q.deferred = {} /\ q.then = "closed"
            /\ r.pending # {} =>
                 q.at = "cancel" /\ q.outbox = r.outbox /\ q.deferred = r.deferred /\ q.then = r.then
        BY <1>1, <4>2, LeavesFields
      <4> QED
        BY <3>1, <4>1
    <3> QED
      BY <1>1, <2>1, <3>1, GoesOnFields
  <2> QED
    BY <2>2, <2>3 DEF Same
<1>5. CASE r.then = "settled"
  <2>1. q = ItemDone(r)
    BY <1>5 DEF Proceeds
  <2>2. Memory(q)
    BY <1>1, <1>5, <2>1, MemoryItemDone DEF Final
  <2> QED
    BY <1>1, <2>1, <2>2, ItemDoneFields DEF Same
<1>6. CASE r.then = "closed"
  <2> DEFINE event == RunFinished(r.bill, r.outcome)
  <2>1. q = Emits(r, event, "return")
    BY <1>6 DEF Proceeds
  <2>2. event \in Events
    <3>1. r.bill \in Nat /\ r.outcome \in {"open", "ok", "failed"}
      BY <1>1 DEF Silent, Inner
    <3>2. r.outcome \in Words
      BY <3>1 DEF Words
    <3> QED
      BY <3>1, <3>2, EventTypes
  <2>3. r.pending = {} /\ r.deferred = {}
    BY <1>1, <1>6 DEF Silent, Inner, Final
  <2> HIDE DEF event
  <2>4. /\ Same(r, q) /\ q.at = "write" /\ q.outbox = Told(r) \o <<event>>
        /\ q.deferred = {} /\ q.then = "return" /\ q.done = r.done /\ q.outcome = r.outcome
    BY <1>1, <2>1, EmitsFields
  <2>5. Inner(q)
    BY <1>1, <2>3, <2>4 DEF Silent, Inner, Same, Taken, Thens, Final
  <2>6. q.outbox \in Seq(Events) /\ q.outbox # <<>>
    BY <1>1, <2>2, <2>4, SaysEvents DEF Silent
  <2>7. Memory(q)
    BY <2>4, <2>5, <2>6 DEF Memory, Steps, Loops
  <2> QED
    BY <2>4, <2>7 DEF Same
<1>7. CASE r.then = "return"
  <2>1. q = [r EXCEPT !.at = "return"]
    BY <1>7 DEF Proceeds
  <2>2. /\ Same(r, q) /\ q.at = "return" /\ q.outbox = r.outbox /\ q.deferred = r.deferred
        /\ q.then = r.then /\ q.outcome = r.outcome /\ q.done = r.done
    BY <1>1, <2>1 DEF Same, Fields
  <2>3. Inner(q) /\ q.outbox = <<>>
    BY <1>1, <2>2 DEF Silent, Inner, Same, Taken
  <2>4. Memory(q)
    BY <1>7, <2>2, <2>3 DEF Memory, Steps, Loops
  <2> QED
    BY <2>2, <2>4 DEF Same
<1> QED
  BY <1>1, <1>2, <1>3, <1>4, <1>5, <1>6, <1>7 DEF Thens

-----------------------------------------------------------------------------
(* What a step and its answer make of the memory. *)

Answers(r) == IF r.at = "first" THEN r.pending ELSE IF r.at = "result" THEN Ends ELSE {0}

Wrote(r) ==
    [Took(r) EXCEPT !.outbox = Tail(@), !.log = Append(@, Head(r.outbox)),
                    !.at = IF Len(r.outbox) = 1 THEN "project" ELSE "write"]
Began(r) == [Took(r) EXCEPT !.started = @ + 1, !.pending = @ \cup {r.started + 1}]
Chose(r, k) == [Took(r) EXCEPT !.at = "result", !.ticket = k]
Cancelled(r) == [Took(r) EXCEPT !.pending = {}]

After(r, answer) ==
    IF r.at = "boundary" THEN Emits(Took(r), NodeStarted(Fan), "enter")
    ELSE IF r.at = "write" THEN Wrote(r)
    ELSE IF r.at = "start" THEN GoesOn(Began(r))
    ELSE IF r.at = "first" THEN Chose(r, answer)
    ELSE IF r.at = "result" THEN Collected(Took(r), r.ticket, answer)
    ELSE Closes(Cancelled(r))

\* Only `changed` and the position tell q from r.
Moved(r, q, changed) ==
    /\ DOMAIN q = Fields /\ q.pos = r.pos + 1
    /\ \A f \in Fields \ (changed \cup {"pos"}) : q[f] = r[f]

LEMMA WroteFields ==
    ASSUME NEW r, DOMAIN r = Fields, NEW q, q = Wrote(r)
    PROVE  /\ Moved(r, q, {"outbox", "log", "at"})
           /\ q.outbox = Tail(r.outbox) /\ q.log = Append(r.log, Head(r.outbox))
           /\ q.at = IF Len(r.outbox) = 1 THEN "project" ELSE "write"
  BY DEF Wrote, Took, Moved, Fields

LEMMA BeganFields ==
    ASSUME NEW r, DOMAIN r = Fields, NEW q, q = Began(r)
    PROVE  /\ Moved(r, q, {"started", "pending"})
           /\ q.started = r.started + 1 /\ q.pending = r.pending \cup {r.started + 1}
  BY DEF Began, Took, Moved, Fields

LEMMA ChoseFields ==
    ASSUME NEW r, DOMAIN r = Fields, NEW k, NEW q, q = Chose(r, k)
    PROVE  Moved(r, q, {"at", "ticket"}) /\ q.at = "result" /\ q.ticket = k
  BY DEF Chose, Took, Moved, Fields

LEMMA CancelledFields ==
    ASSUME NEW r, DOMAIN r = Fields, NEW q, q = Cancelled(r)
    PROVE  Moved(r, q, {"pending"}) /\ q.pending = {}
  BY DEF Cancelled, Took, Moved, Fields

\* A branch that raised is left out; any other is billed, deferred and sorted.
Dropped(r, k, q) ==
    /\ Moved(r, q, {"pending", "ticket"})
    /\ q.pending = r.pending \ {k} /\ q.ticket = 0
Received(r, k, end, q) ==
    /\ Moved(r, q, {"pending", "ticket", "bill", "deferred", "good", "bad"})
    /\ q.pending = r.pending \ {k} /\ q.ticket = 0
    /\ q.bill = r.bill + 1 /\ q.deferred = r.deferred \cup {k}
    /\ q.good = (IF end = "ok" THEN r.good \cup {k} ELSE r.good)
    /\ q.bad = (IF end = "failed" THEN r.bad \cup {k} ELSE r.bad)

LEMMA CollectedFields ==
    ASSUME NEW r, DOMAIN r = Fields, NEW k, NEW end, NEW q, q = Collected(Took(r), k, end)
    PROVE  \/ end = "error" /\ \E left : Dropped(r, k, left) /\ q = Leaves(left, "failed")
           \/ /\ end # "error"
              /\ \E got : /\ Received(r, k, end, got)
                          /\ q = IF IsMap THEN ItemSettled(got, k) ELSE BranchJoined(got)
<1> DEFINE t == Took(r)
           left == [t EXCEPT !.pending = t.pending \ {k}, !.ticket = 0]
           got == [left EXCEPT !.bill = left.bill + 1, !.deferred = left.deferred \cup {k},
                     !.good = IF end = "ok" THEN left.good \cup {k} ELSE left.good,
                     !.bad = IF end = "failed" THEN left.bad \cup {k} ELSE left.bad]
<1>1. Moved(r, t, {})
  BY DEF Took, Moved, Fields
<1>2. q = IF end = "error" THEN Leaves(left, "failed")
          ELSE IF IsMap THEN ItemSettled(got, k) ELSE BranchJoined(got)
  BY DEF Collected
<1>3. Dropped(r, k, left)
  <2> HIDE DEF t
  <2> QED
    BY <1>1 DEF Dropped, Moved, Fields
<1>4. Received(r, k, end, got)
  <2> HIDE DEF t, left
  <2> QED
    BY <1>3 DEF Dropped, Received, Moved, Fields
<1> HIDE DEF t, left, got
<1> QED
  BY <1>2, <1>3, <1>4


\* What a step changes of what is known of the branches.
Shifted(r, answer, q) ==
    /\ q.pos = r.pos + 1
    /\ q.log = (IF r.at = "write" THEN Append(r.log, Head(r.outbox)) ELSE r.log)
    /\ q.started = (IF r.at = "start" THEN r.started + 1 ELSE r.started)
    /\ q.pending = (IF r.at = "start" THEN r.pending \cup {r.started + 1}
                    ELSE IF r.at = "result" THEN r.pending \ {r.ticket}
                    ELSE IF r.at = "cancel" THEN {} ELSE r.pending)
    /\ q.good = (IF r.at = "result" /\ answer = "ok" THEN r.good \cup {r.ticket} ELSE r.good)
    /\ q.bad = (IF r.at = "result" /\ answer = "failed" THEN r.bad \cup {r.ticket} ELSE r.bad)

LEMMA LeavesSame ==
    ASSUME NEW r, DOMAIN r = Fields, NEW outcome, NEW q, q = Leaves(r, outcome)
    PROVE  Same(r, q)
<1>1. /\ Same(r, q) /\ q.outcome = outcome /\ q.done = r.done
      /\ r.pending = {} =>
           /\ q.at = "write" /\ q.outbox = Told(r) \o <<NodeFinished(Fan, outcome)>>
           /\ q.deferred = {} /\ q.then = "closed"
      /\ r.pending # {} =>
           q.at = "cancel" /\ q.outbox = r.outbox /\ q.deferred = r.deferred /\ q.then = r.then
  BY LeavesFields
<1> QED
  BY <1>1

LEMMA GoesOnSame ==
    ASSUME NEW r, DOMAIN r = Fields, NEW q, q = GoesOn(r)
    PROVE  Same(r, q)
<1> DEFINE word == IF IsMap THEN "ok" ELSE "failed"
<1>1. CASE q = Leaves(r, word)
  <2> HIDE DEF word
  <2> QED
    BY <1>1, LeavesSame
<1> QED
  BY <1>1, GoesOnFields

LEMMA AfterBoundary ==
    ASSUME node \in Nodes, NEW r, Memory(r), r.at = "boundary", NEW answer,
           NEW q, q = After(r, answer)
    PROVE  Memory(q) /\ Shifted(r, answer, q)
<1> DEFINE t == Took(r)
           event == NodeStarted(Fan)
<1>1. q = Emits(t, event, "enter")
  BY DEF After
<1>2. event \in Events
  BY EventTypes DEF Fan
<1>3. DOMAIN r = Fields
  BY DEF Memory, Inner
<1>4. DOMAIN t = Fields /\ t.pos = r.pos + 1 /\ \A f \in Fields \ {"pos"} : t[f] = r[f]
  BY <1>3, TookFields
<1> HIDE DEF t, event
<1>5. Silent(t) /\ t.then \notin Final
  BY <1>4 DEF Memory, Silent, Inner, Fields, Taken, Final
<1>6. Memory(q)
  BY <1>1, <1>2, <1>5, MemoryEmits DEF Thens, Final
<1>7. /\ Same(t, q) /\ q.at = "write" /\ q.outbox = Told(t) \o <<event>>
      /\ q.deferred = {} /\ q.then = "enter" /\ q.done = t.done /\ q.outcome = t.outcome
  BY <1>1, <1>4, EmitsFields
<1>8. Same(t, q) /\ \A f \in {"started", "pending", "good", "bad", "log"} : t[f] = r[f]
  BY <1>4, <1>7 DEF Fields
<1> QED
  BY <1>4, <1>6, <1>8 DEF Shifted, Same

LEMMA AfterWrite ==
    ASSUME node \in Nodes, NEW r, Memory(r), r.at = "write", NEW answer,
           NEW q, q = After(r, answer)
    PROVE  Memory(q) /\ Shifted(r, answer, q)
<1>1. q = Wrote(r) /\ DOMAIN r = Fields
  BY DEF After, Memory, Inner
<1>2. /\ Moved(r, q, {"outbox", "log", "at"})
      /\ q.outbox = Tail(r.outbox) /\ q.log = Append(r.log, Head(r.outbox))
      /\ q.at = IF Len(r.outbox) = 1 THEN "project" ELSE "write"
  BY <1>1, WroteFields
<1>3. /\ DOMAIN q = Fields /\ q.pos = r.pos + 1
      /\ \A f \in Fields \ {"outbox", "log", "at", "pos"} : q[f] = r[f]
  BY <1>2 DEF Moved
<1>4. r.outbox \in Seq(Events) /\ r.outbox # <<>> /\ r.log \in Seq(Events)
  BY DEF Memory, Inner
<1> DEFINE o == r.outbox
<1>5. /\ Head(o) \in Events /\ Tail(o) \in Seq(Events) /\ Len(o) \in Nat
      /\ Len(Tail(o)) = Len(o) - 1 /\ Len(o) > 0
  <2> HIDE DEF o
  <2>1. o \in Seq(Events) /\ o # <<>>
    BY <1>4 DEF o
  <2> QED
    BY <2>1, HeadTailProperties
<1>6. Append(r.log, Head(r.outbox)) \in Seq(Events)
  BY <1>4, <1>5, AppendProperties
<1>7. Inner(q)
  BY <1>2, <1>3, <1>6 DEF Memory, Inner, Fields, Taken
<1>8. q.outbox \in Seq(Events) /\ (q.outbox # <<>> <=> Len(r.outbox) # 1)
  <2>1. q.outbox = Tail(o) /\ Len(q.outbox) = Len(o) - 1 /\ q.outbox \in Seq(Events)
    BY <1>2, <1>5
  <2>2. q.outbox = <<>> <=> Len(q.outbox) = 0
    BY <2>1, EmptySeq
  <2> QED
    BY <1>5, <2>1, <2>2
<1>9. Memory(q)
  BY <1>2, <1>7, <1>8 DEF Memory, Steps, Loops
<1> QED
  BY <1>2, <1>3, <1>9 DEF Shifted, Fields

LEMMA AfterStart ==
    ASSUME node \in Nodes, NEW r, Memory(r), r.at = "start", NEW answer,
           NEW q, q = After(r, answer)
    PROVE  Memory(q) /\ Shifted(r, answer, q)
<1> DEFINE b == Began(r)
<1>1. q = GoesOn(b) /\ DOMAIN r = Fields
  BY DEF After, Memory, Inner
<1>2. /\ Moved(r, b, {"started", "pending"})
      /\ b.started = r.started + 1 /\ b.pending = r.pending \cup {r.started + 1}
  BY <1>1, BeganFields
<1>3. /\ DOMAIN b = Fields /\ b.pos = r.pos + 1
      /\ \A f \in Fields \ {"started", "pending", "pos"} : b[f] = r[f]
  BY <1>2 DEF Moved
<1> HIDE DEF b
<1>4. node.width \in Nat /\ r.started < node.width /\ r.started \in Nat
  BY NodesAssumption DEF FanNodes, ParallelNodes, MapNodes, Memory, Inner
<1>5. /\ r.pending \subseteq 1 .. r.started /\ Taken(r) \subseteq 1 .. r.started
      /\ r.pending \cap Taken(r) = {}
  BY DEF Memory, Inner
<1>6. /\ b.pending \subseteq 1 .. b.started /\ Taken(r) \subseteq 1 .. b.started
      /\ b.pending \cap Taken(r) = {} /\ b.started \in 0 .. node.width
  BY <1>2, <1>4, <1>5
<1>7. Silent(b) /\ Looping(b)
  BY <1>3, <1>6 DEF Memory, Silent, Inner, Fields, Taken, Looping, Final, Loops
<1>8. Memory(q) /\ Same(b, q)
  BY <1>1, <1>3, <1>7, MemoryGoesOn, GoesOnSame
<1> QED
  BY <1>2, <1>3, <1>8 DEF Shifted, Same, Fields

LEMMA AfterFirst ==
    ASSUME node \in Nodes, NEW r, Memory(r), r.at = "first", NEW answer \in Answers(r),
           NEW q, q = After(r, answer)
    PROVE  Memory(q) /\ Shifted(r, answer, q)
<1>1. q = Chose(r, answer) /\ DOMAIN r = Fields /\ answer \in r.pending
  BY DEF After, Memory, Inner, Answers
<1>2. Moved(r, q, {"at", "ticket"}) /\ q.at = "result" /\ q.ticket = answer
  BY <1>1, ChoseFields
<1>3. /\ DOMAIN q = Fields /\ q.pos = r.pos + 1
      /\ \A f \in Fields \ {"at", "ticket", "pos"} : q[f] = r[f]
  BY <1>2 DEF Moved
<1>4. Inner(q) /\ Looping(q) /\ q.outbox = <<>>
  BY <1>3 DEF Memory, Inner, Fields, Taken, Looping, Loops
<1>5. Memory(q)
  BY <1>1, <1>2, <1>3, <1>4 DEF Memory, Steps, Loops, Fields
<1> QED
  BY <1>2, <1>3, <1>5 DEF Shifted, Fields

LEMMA AfterCancel ==
    ASSUME node \in Nodes, NEW r, Memory(r), r.at = "cancel", NEW answer,
           NEW q, q = After(r, answer)
    PROVE  Memory(q) /\ Shifted(r, answer, q)
<1> DEFINE c == Cancelled(r)
           event == NodeFinished(Fan, c.outcome)
<1>1. q = Emits(c, event, "closed") /\ DOMAIN r = Fields
  BY DEF After, Closes, Memory, Inner
<1>2. Moved(r, c, {"pending"}) /\ c.pending = {}
  BY <1>1, CancelledFields
<1>3. DOMAIN c = Fields /\ c.pos = r.pos + 1 /\ \A f \in Fields \ {"pending", "pos"} : c[f] = r[f]
  BY <1>2 DEF Moved
<1>4. event \in Events
  <2>1. c.outcome \in {"ok", "failed"}
    BY <1>3 DEF Fields, Memory, Inner
  <2>2. Fan \in Int /\ \A word \in {"ok", "failed"} : word \in Words
    BY DEF Words, Fan
  <2>3. c.outcome \in Words
    BY <2>1, <2>2
  <2> HIDE DEF c
  <2> QED
    BY <2>2, <2>3, EventTypes
<1> HIDE DEF c, event
<1>5. Silent(c) /\ c.then \notin Final
  BY <1>2, <1>3 DEF Memory, Silent, Inner, Fields, Taken, Final, Looping, Loops
<1>6. Memory(q)
  BY <1>1, <1>2, <1>4, <1>5, MemoryEmits DEF Thens, Final
<1>7. /\ Same(c, q) /\ q.at = "write" /\ q.outbox = Told(c) \o <<event>>
      /\ q.deferred = {} /\ q.then = "closed" /\ q.done = c.done /\ q.outcome = c.outcome
  BY <1>1, <1>3, EmitsFields
<1> QED
  BY <1>2, <1>3, <1>6, <1>7 DEF Shifted, Same, Fields


LEMMA ItemSettledMoves ==
    ASSUME node \in Nodes, IsMap, NEW r, Silent(r), Looping(r), NEW k \in Int,
           NEW q, q = ItemSettled(r, k)
    PROVE  Memory(q) /\ Same(r, q)
<1>0. DOMAIN r = Fields /\ r.then \notin Final
  BY DEF Silent, Inner, Looping, Final
<1>1. CASE q = ItemDone(r)
  <2>1. /\ Same(r, q) /\ q.at = "write" /\ q.outbox = Told(r) \o <<Progress(r.done + 1)>>
        /\ q.deferred = {} /\ q.then = "on" /\ q.done = r.done + 1 /\ q.outcome = r.outcome
    BY <1>0, <1>1, ItemDoneFields
  <2> QED
    BY <1>0, <1>1, <2>1, MemoryItemDone
<1>2. CASE q = Leaves(r, "failed")
  <2>1. Memory(q)
    BY <1>2, MemoryLeaves
  <2> QED
    BY <1>0, <1>2, <2>1, LeavesSame
<1> DEFINE event == ItemRecovered(k)
<1>3. CASE q = Emits(r, event, "settled")
  <2>1. event \in Events
    BY EventTypes
  <2> HIDE DEF event
  <2>2. Memory(q)
    BY <1>0, <1>3, <2>1, MemoryEmits DEF Thens, Final
  <2>3. /\ Same(r, q) /\ q.at = "write" /\ q.outbox = Told(r) \o <<event>>
        /\ q.deferred = {} /\ q.then = "settled" /\ q.done = r.done /\ q.outcome = r.outcome
    BY <1>0, <1>3, EmitsFields
  <2> QED
    BY <2>2, <2>3
<1> QED
  BY <1>1, <1>2, <1>3 DEF ItemSettled

LEMMA BranchJoinedMoves ==
    ASSUME node \in Nodes, NEW r, Silent(r), Looping(r), NEW q, q = BranchJoined(r)
    PROVE  Memory(q) /\ Same(r, q)
<1>0. DOMAIN r = Fields
  BY DEF Silent, Inner
<1>1. CASE q = GoesOn(r)
  BY <1>0, <1>1, MemoryGoesOn, GoesOnSame
<1> DEFINE word == IF Join(r) = "done" THEN "ok" ELSE "failed"
<1>2. CASE q = Leaves(r, word)
  <2>1. word \in {"ok", "failed"}
    OBVIOUS
  <2> HIDE DEF word
  <2>2. Memory(q)
    BY <1>2, <2>1, MemoryLeaves
  <2> QED
    BY <1>0, <1>2, <2>2, LeavesSame
<1> QED
  BY <1>1, <1>2 DEF BranchJoined

LEMMA AfterResult ==
    ASSUME node \in Nodes, NEW r, Memory(r), r.at = "result", NEW answer \in Answers(r),
           NEW q, q = After(r, answer)
    PROVE  Memory(q) /\ Shifted(r, answer, q)
<1> DEFINE k == r.ticket
<1>1. q = Collected(Took(r), k, answer) /\ DOMAIN r = Fields
  BY DEF After, Memory, Inner
<1>2. answer \in {"ok", "failed", "error"} /\ k \in r.pending
  BY EndsAssumption DEF Answers, Memory
<1>3. /\ r.pending \subseteq 1 .. r.started /\ Taken(r) \subseteq 1 .. r.started
      /\ r.pending \cap Taken(r) = {} /\ r.good \cap r.bad = {} /\ r.deferred \subseteq Taken(r)
      /\ Looping(r) /\ r.outbox = <<>> /\ r.bill \in Nat
  BY DEF Memory, Inner, Loops
<1>4. k \in Int
  BY <1>2, <1>3, NodesAssumption DEF Memory, Inner
<1> HIDE DEF k
<1>5. CASE answer = "error" /\ \E left : Dropped(r, k, left) /\ q = Leaves(left, "failed")
  <2>1. PICK left : Dropped(r, k, left) /\ q = Leaves(left, "failed")
    BY <1>5
  <2>2. /\ DOMAIN left = Fields /\ left.pos = r.pos + 1
        /\ \A f \in Fields \ {"pending", "ticket", "pos"} : left[f] = r[f]
        /\ left.pending = r.pending \ {k}
    BY <2>1 DEF Dropped, Moved
  <2>3. Silent(left) /\ Looping(left)
    BY <1>3, <2>2 DEF Memory, Silent, Inner, Fields, Taken, Looping, Final
  <2>4. Memory(q) /\ Same(left, q)
    BY <2>1, <2>2, <2>3, MemoryLeaves, LeavesSame
  <2> QED
    BY <1>5, <2>2, <2>4 DEF Shifted, Same, Fields, k
<1>6. CASE /\ answer # "error"
           /\ \E got : /\ Received(r, k, answer, got)
                       /\ q = IF IsMap THEN ItemSettled(got, k) ELSE BranchJoined(got)
  <2>1. PICK got : /\ Received(r, k, answer, got)
                   /\ q = IF IsMap THEN ItemSettled(got, k) ELSE BranchJoined(got)
    BY <1>6
  <2>2. /\ DOMAIN got = Fields /\ got.pos = r.pos + 1
        /\ \A f \in Fields \ {"pending", "ticket", "bill", "deferred", "good", "bad", "pos"} :
              got[f] = r[f]
        /\ got.pending = r.pending \ {k}
        /\ got.bill = r.bill + 1 /\ got.deferred = r.deferred \cup {k}
        /\ got.good = (IF answer = "ok" THEN r.good \cup {k} ELSE r.good)
        /\ got.bad = (IF answer = "failed" THEN r.bad \cup {k} ELSE r.bad)
    BY <2>1 DEF Received, Moved
  <2>3. /\ Taken(got) = Taken(r) \cup {k} /\ got.good \cap got.bad = {}
        /\ got.pending \cap Taken(got) = {} /\ Taken(got) \subseteq 1 .. r.started
        /\ got.deferred \subseteq Taken(got)
    BY <1>2, <1>3, <1>6, <2>2 DEF Taken
  <2>4. Silent(got) /\ Looping(got)
    <3>1. Looping(got) /\ got.then \notin Final /\ got.outbox = <<>> /\ got.then # "boundary"
      BY <1>3, <2>2 DEF Looping, Fields, Final
    <3>2. /\ got.then \in Thens /\ got.outcome \in {"open", "ok", "failed"}
          /\ got.started \in 0 .. node.width /\ got.done \in Nat /\ got.bill \in Nat
          /\ got.pos \in Nat /\ got.log \in Seq(Events) /\ got.started = r.started
          /\ got.pending \subseteq 1 .. r.started
      BY <1>3, <2>2 DEF Memory, Inner, Fields
    <3> QED
      BY <2>2, <2>3, <3>1, <3>2 DEF Silent, Inner
  <2>5. Memory(q) /\ Same(got, q)
    BY <1>4, <2>1, <2>4, ItemSettledMoves, BranchJoinedMoves
  <2> QED
    BY <1>6, <2>2, <2>5 DEF Shifted, Same, Fields, k
<1> QED
  BY <1>1, <1>5, <1>6, CollectedFields

LEMMA MemoryAfter ==
    ASSUME node \in Nodes, NEW r, Memory(r), r.at \in Steps, NEW answer \in Answers(r),
           NEW q, q = After(r, answer)
    PROVE  Memory(q) /\ Shifted(r, answer, q)
  BY AfterBoundary, AfterWrite, AfterStart, AfterFirst, AfterResult, AfterCancel DEF Steps


-----------------------------------------------------------------------------
(* The journal and the memories it leads through.                              *)

\* The node is read at the start of the run and never changes.
LEMMA NodeStays ==
    ASSUME node' = node, NEW CONSTANT r, NEW CONSTANT a
    PROVE  /\ (Memory(r))' <=> Memory(r)
           /\ (Settled(r))' = Settled(r)
           /\ (After(r, a))' = After(r, a)
<1>1. IsMap' = IsMap /\ Limit' = Limit
  BY DEF IsMap, Limit
<1>2. \A q, event, then : (Emits(q, event, then))' = Emits(q, event, then)
  OBVIOUS
<1>3. \A q, word : (Leaves(q, word))' = Leaves(q, word)
  OBVIOUS
<1>4. \A q : (GoesOn(q))' = GoesOn(q)
  BY <1>1 DEF GoesOn
<1>5. \A q : (ItemDone(q))' = ItemDone(q)
  OBVIOUS
<1>6. \A q : (Proceeds(q))' = Proceeds(q)
  BY <1>1, <1>4 DEF Proceeds
<1>7. \A q : (Join(q))' = Join(q)
  BY DEF Join, Enough
<1>8. \A q : (BranchJoined(q))' = BranchJoined(q)
  BY <1>4, <1>7 DEF BranchJoined
<1>9. \A q, k : (ItemSettled(q, k))' = ItemSettled(q, k)
  BY DEF ItemSettled, ItemRecovered
<1>10. \A q, k, end : (Collected(q, k, end))' = Collected(q, k, end)
  BY <1>1, <1>8, <1>9 DEF Collected
<1>11. (After(r, a))' = After(r, a)
  BY <1>4, <1>10 DEF After
<1>12. (Settled(r))' = Settled(r)
  BY <1>6 DEF Settled
<1>13. (Memory(r))' <=> Memory(r)
  BY <1>1 DEF Memory, Inner, Looping
<1> QED
  BY <1>11, <1>12, <1>13

\* An entry of the journal: the step the memory r was at, and where it led.
Turn(r, entry, q) ==
    /\ r.at \in Steps
    /\ entry.step = r.at /\ entry.about = About(r) /\ entry.answer \in Answers(r)
    /\ q = After(r, entry.answer)

\* h has the memory after each entry.
History(h) ==
    /\ DOMAIN h = 0 .. Len(journal)
    /\ h[0] = Fresh
    /\ \A p \in 0 .. Len(journal) : Memory(h[p]) /\ h[p].pos = p
    /\ \A p \in 1 .. Len(journal) : Turn(Settled(h[p - 1]), journal[p], h[p])

\* The executor, if there is one, is somewhere along it.
Along(h) ==
    run = Gone \/ (run.pos \in 0 .. Len(journal) /\ run \in {h[run.pos], Settled(h[run.pos])})

Lives(h) ==
    /\ node \in Nodes
    /\ \E S : journal \in Seq(S)
    /\ History(h) /\ Along(h)

LEMMA GoneFields == Gone.at = "gone" /\ Gone.log = <<>>
  BY DEF Gone, Fresh

LEMMA FreshMemory ==
    ASSUME node \in Nodes
    PROVE  Memory(Fresh) /\ Fresh.pos = 0 /\ Fresh.log = <<>> /\ Fresh.pending = {}
           /\ Fresh.started = 0 /\ Fresh.good = {} /\ Fresh.bad = {}
<1> DEFINE o == <<RunStarted>>
<1>1. o \in Seq(Events) /\ o # <<>>
  BY EventTypes
<1> HIDE DEF o
<1> DEFINE f == Fresh
<1>2. /\ DOMAIN f = Fields /\ f.at = "write" /\ f.outbox = o /\ f.then = "boundary" /\ f.pos = 0
      /\ f.started = 0 /\ f.pending = {} /\ f.good = {} /\ f.bad = {} /\ f.deferred = {}
      /\ f.done = 0 /\ f.outcome = "open" /\ f.bill = 0 /\ f.log = <<>>
  BY DEF Fresh, Fields, o
<1> HIDE DEF f
<1>3. node.width \in Nat
  BY NodesAssumption DEF FanNodes, ParallelNodes, MapNodes
<1>4. Inner(f)
  BY <1>2, <1>3 DEF Inner, Taken, Thens, Final
<1>5. Memory(f)
  BY <1>1, <1>2, <1>4 DEF Memory, Steps, Loops
<1> QED
  BY <1>2, <1>5 DEF f

LEMMA SettledMemory ==
    ASSUME node \in Nodes, NEW r, Memory(r), NEW q, q = Settled(r)
    PROVE  /\ Memory(q) /\ q.at # "project"
           /\ q.pos = r.pos /\ q.log = r.log /\ q.pending = r.pending
           /\ q.good = r.good /\ q.bad = r.bad /\ q.started = r.started
  BY MemoryProceeds DEF Settled

\* At a step, the run is where the journal so far leads.
LEMMA RunIsSettled ==
    ASSUME NEW h, Lives(h), run # Gone, run.at # "project"
    PROVE  /\ run.pos \in 0 .. Len(journal) /\ run = Settled(h[run.pos])
           /\ Memory(run) /\ Memory(h[run.pos])
<1>1. run.pos \in 0 .. Len(journal) /\ Memory(h[run.pos])
  BY DEF Lives, Along, History
<1>2. run = Settled(h[run.pos])
  BY DEF Lives, Along, Settled
<1> QED
  BY <1>1, <1>2, SettledMemory DEF Lives

LEMMA StepsRepeatHere ==
    ASSUME NEW h, Lives(h)
    PROVE  StepsRepeat
<1> SUFFICES ASSUME Replaying, run.at \in Steps
             PROVE  Recorded.step = run.at /\ Recorded.about = About(run)
  BY DEF StepsRepeat
<1>1. run # Gone /\ run.at # "project"
  BY GoneFields DEF Steps
<1>2. run.pos \in 0 .. Len(journal) /\ run = Settled(h[run.pos])
  BY <1>1, RunIsSettled
<1>3. Len(journal) \in Nat
  BY DEF Lives
<1>4. run.pos + 1 \in 1 .. Len(journal) /\ run.pos = (run.pos + 1) - 1
  BY <1>2, <1>3 DEF Replaying
<1> DEFINE p == run.pos + 1
<1> HIDE DEF p
<1>5. p \in 1 .. Len(journal) /\ run.pos = p - 1 /\ Recorded = journal[p]
  BY <1>4 DEF p, Recorded
<1>6. Turn(Settled(h[p - 1]), journal[p], h[p])
  BY <1>5 DEF Lives, History
<1> QED
  BY <1>2, <1>5, <1>6 DEF Turn


LEMMA ReplaysAlong ==
    ASSUME NEW h, Lives(h), run.at \in Steps, Replaying, UNCHANGED <<node, journal>>,
           NEW answer, answer = Recorded.answer, run' = After(run, answer)
    PROVE  (Lives(h))' /\ run' = h[run.pos + 1] /\ answer \in Answers(run)
<1>1. run # Gone /\ run.at # "project"
  BY GoneFields DEF Steps
<1>2. run.pos \in 0 .. Len(journal) /\ run = Settled(h[run.pos])
  BY <1>1, RunIsSettled
<1>3. Len(journal) \in Nat
  BY DEF Lives
<1> DEFINE p == run.pos + 1
<1>4. p \in 1 .. Len(journal) /\ run.pos = p - 1 /\ Recorded = journal[p]
  BY <1>2, <1>3 DEF Replaying, Recorded
<1> HIDE DEF p
<1>5. Turn(Settled(h[p - 1]), journal[p], h[p])
  BY <1>4 DEF Lives, History
<1>6. run' = h[p] /\ answer \in Answers(run)
  BY <1>2, <1>4, <1>5 DEF Turn
<1>7. \A r, a : /\ (Memory(r))' <=> Memory(r)
                /\ (Settled(r))' = Settled(r)
                /\ (After(r, a))' = After(r, a)
  BY NodeStays
<1>8. (History(h))'
  <2>1. History(h)
    BY DEF Lives
  <2>2. \A r, q, entry : (Turn(r, entry, q))' <=> Turn(r, entry, q)
    BY <1>7 DEF Turn
  <2> QED
    BY <1>7, <2>1, <2>2 DEF History
<1>9. h[p].pos = p /\ p \in 0 .. Len(journal)
  BY <1>3, <1>4 DEF Lives, History
<1>10. (Along(h))'
  BY <1>6, <1>9 DEF Along
<1> QED
  BY <1>4, <1>6, <1>8, <1>10 DEF Lives, p

LEMMA RecordsAlong ==
    ASSUME NEW h, Lives(h), run.at \in Steps, ~Replaying, node' = node,
           NEW answer \in Answers(run),
           journal' = Append(journal, [step |-> run.at, about |-> About(run), answer |-> answer]),
           run' = After(run, answer)
    PROVE  /\ run = Settled(h[Len(journal)]) /\ Len(journal') = Len(journal) + 1
           /\ \E g : /\ (Lives(g))' /\ run' = g[Len(journal')]
                    /\ \A p \in 0 .. Len(journal) : g[p] = h[p]
<1>1. run # Gone /\ run.at # "project"
  BY GoneFields DEF Steps
<1> DEFINE n == Len(journal)
<1>2. n \in Nat
  BY DEF Lives
<1>3. run.pos = n /\ run = Settled(h[n]) /\ Memory(run)
  <2>1. run.pos \in 0 .. n /\ run = Settled(h[run.pos]) /\ Memory(run)
    BY <1>1, RunIsSettled
  <2> QED
    BY <1>2, <2>1 DEF Replaying
<1> DEFINE entry == [step |-> run.at, about |-> About(run), answer |-> answer]
<1>4. /\ entry.step = run.at /\ entry.about = About(run) /\ entry.answer = answer
  OBVIOUS
<1> HIDE DEF entry, n
<1>5. /\ Len(journal') = n + 1 /\ journal'[n + 1] = entry
      /\ \A p \in 1 .. n : journal'[p] = journal[p]
      /\ \E S : journal' \in Seq(S)
  <2>1. journal' = Append(journal, entry)
    BY DEF entry
  <2>2. PICK S : journal \in Seq(S)
    BY DEF Lives
  <2>3. journal \in Seq(S \cup {entry}) /\ entry \in S \cup {entry}
    BY <2>2
  <2> QED
    BY <2>1, <2>3, AppendProperties DEF n
<1>6. PICK q : q = After(run, answer)
  OBVIOUS
<1>7. PICK g : g = [p \in 0 .. n + 1 |-> IF p = n + 1 THEN q ELSE h[p]]
  OBVIOUS
<1>8. Memory(q) /\ q.pos = n + 1
  BY <1>3, <1>6, MemoryAfter DEF Lives, Shifted
<1>9. \A r, a : /\ (Memory(r))' <=> Memory(r)
                /\ (Settled(r))' = Settled(r)
                /\ (After(r, a))' = After(r, a)
  BY NodeStays
<1>10. \A r, x, e : (Turn(r, e, x))' <=> Turn(r, e, x)
  BY <1>9 DEF Turn
<1>11. DOMAIN g = 0 .. n + 1 /\ g[0] = Fresh /\ g[n + 1] = q /\ g[n] = h[n]
       /\ \A p \in 0 .. n : g[p] = h[p]
  BY <1>2, <1>7 DEF Lives, History
<1>12. \A p \in 0 .. n + 1 : Memory(g[p]) /\ g[p].pos = p
  <2>1. \A p \in 0 .. n : Memory(h[p]) /\ h[p].pos = p
    BY DEF Lives, History, n
  <2> QED
    BY <1>2, <1>8, <1>11, <2>1
<1>13. ASSUME NEW p \in 1 .. n + 1 PROVE Turn(Settled(g[p - 1]), journal'[p], g[p])
  <2>1. CASE p = n + 1
    <3>1. Turn(Settled(h[n]), entry, q)
      BY <1>3, <1>4, <1>6 DEF Turn
    <3>2. p - 1 = n
      BY <1>2, <2>1
    <3> QED
      BY <1>5, <1>11, <2>1, <3>1, <3>2
  <2>2. CASE p \in 1 .. n
    <3>1. p - 1 \in 0 .. n /\ p \in 0 .. n
      BY <1>2, <2>2
    <3>2. Turn(Settled(h[p - 1]), journal[p], h[p])
      BY <2>2 DEF Lives, History, n
    <3> QED
      BY <1>5, <1>11, <2>2, <3>1, <3>2
  <2>3. p = n + 1 \/ p \in 1 .. n
    BY <1>2
  <2> QED
    BY <2>1, <2>2, <2>3
<1>14. (History(g))'
  BY <1>5, <1>9, <1>10, <1>11, <1>12, <1>13 DEF History
<1>15. (Along(g))'
  BY <1>2, <1>5, <1>6, <1>8, <1>11 DEF Along
<1>16. (Lives(g))'
  BY <1>5, <1>14, <1>15 DEF Lives
<1> QED
  BY <1>3, <1>5, <1>6, <1>11, <1>16 DEF n


\* A step of the run: along the recorded history, or adding to it.
LEMMA StepAlong ==
    ASSUME NEW h, Lives(h), run.at \in Steps, NEW answers, NEW answer, Step(answers, answer),
           answers \subseteq Answers(run), node' = node, run' = After(run, answer)
    PROVE  /\ answer \in Answers(run) /\ status = "PENDING"
           /\ \E g : /\ (Lives(g))'
                     /\ \/ Replaying /\ journal' = journal /\ g = h /\ run' = h[run.pos + 1]
                        \/ /\ ~Replaying /\ answer \in answers
                           /\ run = Settled(h[Len(journal)]) /\ Len(journal') = Len(journal) + 1
                           /\ g[Len(journal')] = run'
                           /\ \A p \in 0 .. Len(journal) : g[p] = h[p]
                           /\ journal' = Append(journal, [step |-> run.at, about |-> About(run),
                                                          answer |-> answer])
<1>0. status = "PENDING"
  BY DEF Step
<1>1. CASE Replaying
  <2>1. answer = Recorded.answer /\ journal' = journal
    BY <1>1 DEF Step
  <2>2. UNCHANGED <<node, journal>>
    BY <2>1
  <2>3. (Lives(h))' /\ run' = h[run.pos + 1] /\ answer \in Answers(run)
    BY <1>1, <2>1, <2>2, ReplaysAlong
  <2> QED
    BY <1>0, <1>1, <2>1, <2>3
<1>2. CASE ~Replaying
  <2>1. /\ answer \in answers
        /\ journal' = Append(journal, [step |-> run.at, about |-> About(run), answer |-> answer])
    BY <1>2 DEF Step
  <2>2. answer \in Answers(run)
    BY <2>1
  <2>3. /\ run = Settled(h[Len(journal)]) /\ Len(journal') = Len(journal) + 1
        /\ \E g : /\ (Lives(g))' /\ run' = g[Len(journal')]
                  /\ \A p \in 0 .. Len(journal) : g[p] = h[p]
    BY <1>2, <2>1, <2>2, RecordsAlong
  <2> QED
    BY <1>0, <1>2, <2>1, <2>2, <2>3
<1> QED
  BY <1>1, <1>2


-----------------------------------------------------------------------------
(* What a run has said: the events it wrote and those it is about to write.    *)

Said(r) ==
    [i \in 1 .. Len(r.log) + Len(r.outbox) |->
        IF i <= Len(r.log) THEN r.log[i] ELSE r.outbox[i - Len(r.log)]]

\* The branches whose events went out, and what was said of them.
Shown(r) == Taken(r) \ r.deferred
Word(r, k) == IF k \in r.good THEN "ok" ELSE "failed"
IsFanEnd(e) == e[1] = "node_finished" /\ e[2] = Fan

\* Whatever is said is known.
Known(r, e) ==
    \/ e = RunStarted
    \/ e = NodeStarted(Fan) /\ r.then # "boundary"
    \/ \E k \in Shown(r) : e = NodeStarted(k) \/ e = NodeFinished(k, Word(r, k))
    \/ \E n \in 0 .. r.done : e = Progress(n) /\ r.then \notin {"boundary", "enter"}
    \/ \E k \in r.bad : e = ItemRecovered(k)
    \/ e = NodeFinished(Fan, r.outcome) /\ r.then \in Final
    \/ e = RunFinished(r.bill, r.outcome) /\ r.then = "return"

Once(s) == \A i, j \in DOMAIN s : i < j => s[i] # s[j]
Closing(s) ==
    \A i, j \in DOMAIN s : i < j =>
        s[i][1] # "run_finished" /\ (IsFanEnd(s[i]) => s[j][1] = "run_finished")
Paired(s, k, word) ==
    \E i \in DOMAIN s : i + 1 \in DOMAIN s /\ s[i] = NodeStarted(k) /\ s[i + 1] = NodeFinished(k, word)
Counted(r) ==
    /\ r.bill = Cardinality(Taken(r))
    /\ r.done <= r.bill /\ (r.then = "settled" => r.done < r.bill)

Tale(r) ==
    /\ Once(Said(r)) /\ Closing(Said(r))
    /\ \A i \in DOMAIN Said(r) : Known(r, Said(r)[i])
    /\ \A k \in Shown(r) : Paired(Said(r), k, Word(r, k))
    /\ Counted(r)

\* A change of memory that says nothing.
TaleKept(r, q) ==
    /\ Said(q) = Said(r) /\ Shown(q) = Shown(r) /\ \A k \in Shown(r) : Word(q, k) = Word(r, k)
    /\ r.bad \subseteq q.bad /\ q.done = r.done /\ q.then = r.then
    /\ (r.then \in Final => q.outcome = r.outcome /\ q.bill = r.bill)
    /\ Counted(q)

LEMMA KeptTale ==
    ASSUME NEW r, NEW q, Tale(r), TaleKept(r, q)
    PROVE  Tale(q)
<1>1. \A e : Known(r, e) => Known(q, e)
  BY DEF Known, TaleKept, Final
<1> QED
  BY <1>1 DEF Tale, TaleKept

LEMMA EventParts ==
    /\ \A k : NodeStarted(k)[1] = "node_started" /\ NodeStarted(k)[2] = k
    /\ \A k, w : /\ NodeFinished(k, w)[1] = "node_finished" /\ NodeFinished(k, w)[2] = k
               /\ NodeFinished(k, w)[3] = w
    /\ \A k : Progress(k)[1] = "progress" /\ Progress(k)[2] = k
    /\ \A k : ItemRecovered(k)[1] = "recovered" /\ ItemRecovered(k)[2] = k
    /\ \A k, w : RunFinished(k, w)[1] = "run_finished" /\ RunFinished(k, w)[2] = k
    /\ RunStarted[1] = "run_started"
  BY DEF NodeStarted, NodeFinished, Progress, ItemRecovered, RunFinished, RunStarted

\* The events of the deferred branches.
LEMMA ToldOnce ==
    ASSUME NEW r, Inner(r), NEW t, t = Told(r)
    PROVE  /\ t \in Seq(Events) /\ Len(t) \in Nat /\ Once(t)
           /\ \A i \in 1 .. Len(t) : \E k \in r.deferred :
                  t[i] = NodeStarted(k) \/ t[i] = NodeFinished(k, Word(r, k))
           /\ \A k \in r.deferred : Paired(t, k, Word(r, k))
<1> DEFINE n == Cardinality(r.deferred)
           s == InOrder(r.deferred)
<1>1. r.deferred \in SUBSET Nat /\ IsFiniteSet(r.deferred)
  <2>1. r.started \in Nat /\ r.deferred \subseteq 1 .. r.started
    BY NodesAssumption DEF Inner
  <2>2. IsFiniteSet(1 .. r.started)
    BY <2>1, FS_Interval
  <2> QED
    BY <2>1, <2>2, FS_Subset
<1>2. /\ n \in Nat /\ s \in [1 .. n -> r.deferred]
      /\ \A i, j \in 1 .. n : i # j => s[i] # s[j]
      /\ \A k \in r.deferred : \E i \in 1 .. n : s[i] = k
  BY <1>1, InOrderSorts
<1>3. /\ t \in Seq(Events) /\ Len(t) = 2 * n
      /\ \A i \in 1 .. 2 * n :
            /\ s[(i + 1) \div 2] \in r.deferred
            /\ t[i] = IF i % 2 = 1 THEN NodeStarted(s[(i + 1) \div 2])
                      ELSE NodeFinished(s[(i + 1) \div 2], Word(r, s[(i + 1) \div 2]))
  BY ToldEvents DEF Word
<1> HIDE DEF n, s
<1>4. DOMAIN t = 1 .. 2 * n
  BY <1>2, <1>3
<1>5. \A i \in 1 .. Len(t) : \E k \in r.deferred :
          t[i] = NodeStarted(k) \/ t[i] = NodeFinished(k, Word(r, k))
  BY <1>3
<1>e. ASSUME NEW i \in 1 .. 2 * n
      PROVE  /\ t[i][2] = s[(i + 1) \div 2]
             /\ i % 2 = 1 => t[i][1] = "node_started"
             /\ i % 2 # 1 => t[i][1] = "node_finished"
  <2> DEFINE a == (i + 1) \div 2
  <2>1. t[i] = IF i % 2 = 1 THEN NodeStarted(s[a]) ELSE NodeFinished(s[a], Word(r, s[a]))
    BY <1>3
  <2> HIDE DEF a
  <2>2. CASE i % 2 = 1
    <3>1. t[i] = NodeStarted(s[a])
      BY <2>1, <2>2
    <3> QED
      BY <2>2, <3>1, EventParts DEF a
  <2>3. CASE i % 2 # 1
    <3>1. t[i] = NodeFinished(s[a], Word(r, s[a]))
      BY <2>1, <2>3
    <3> QED
      BY <2>3, <3>1, EventParts DEF a
  <2> QED
    BY <2>2, <2>3
<1>6. ASSUME NEW i \in 1 .. 2 * n, NEW j \in 1 .. 2 * n, i < j PROVE t[i] # t[j]
  <2> DEFINE a == (i + 1) \div 2
             b == (j + 1) \div 2
  <2>1. a \in 1 .. n /\ b \in 1 .. n
    BY <1>2
  <2>2. CASE a # b
    <3>1. s[a] # s[b]
      BY <1>2, <2>1, <2>2
    <3>2. t[i][2] = s[a] /\ t[j][2] = s[b]
      BY <1>e
    <3> QED
      BY <3>1, <3>2
  <2>3. CASE a = b
    <3>1. i % 2 = 1 /\ j % 2 # 1
      BY <1>2, <1>6, <2>3
    <3>2. t[i][1] = "node_started" /\ t[j][1] = "node_finished"
      BY <1>e, <3>1
    <3> QED
      BY <3>2
  <2> QED
    BY <2>2, <2>3
<1>7. ASSUME NEW k \in r.deferred PROVE Paired(t, k, Word(r, k))
  <2>1. PICK m \in 1 .. n : s[m] = k
    BY <1>2
  <2> DEFINE i == 2 * m - 1
  <2>2. /\ i \in 1 .. 2 * n /\ i + 1 \in 1 .. 2 * n /\ i % 2 = 1 /\ (i + 1) % 2 # 1
        /\ (i + 1) \div 2 = m /\ ((i + 1) + 1) \div 2 = m
    BY <1>2
  <2> HIDE DEF i
  <2>3. t[i] = NodeStarted(k) /\ t[i + 1] = NodeFinished(k, Word(r, k))
    BY <1>3, <2>1, <2>2
  <2> QED
    BY <1>4, <2>2, <2>3 DEF Paired
<1>8. Once(t)
  BY <1>4, <1>6 DEF Once
<1> QED
  BY <1>2, <1>3, <1>5, <1>7, <1>8

LEMMA SaidEmits ==
    ASSUME NEW r, Inner(r), r.outbox = <<>>, NEW event \in Events, NEW t, t = Told(r),
           NEW q, q.log = r.log, q.outbox = t \o <<event>>
    PROVE  /\ Len(r.log) \in Nat /\ DOMAIN Said(r) = 1 .. Len(r.log)
           /\ \A i \in 1 .. Len(r.log) : Said(r)[i] = r.log[i] /\ Said(q)[i] = r.log[i]
           /\ DOMAIN Said(q) = 1 .. Len(r.log) + Len(t) + 1
           /\ \A i \in 1 .. Len(t) : Said(q)[Len(r.log) + i] = t[i]
           /\ Said(q)[Len(r.log) + Len(t) + 1] = event
<1>1. t \in Seq(Events) /\ Len(t) \in Nat
  BY ToldOnce
<1>2. r.log \in Seq(Events) /\ Len(r.log) \in Nat
  BY DEF Inner
<1> DEFINE e == <<event>>
<1>3. e \in Seq(Events) /\ Len(e) = 1 /\ e[1] = event
  OBVIOUS
<1> HIDE DEF e
<1>4. /\ Len(q.outbox) = Len(t) + 1 /\ \A i \in 1 .. Len(t) : q.outbox[i] = t[i]
      /\ q.outbox[Len(t) + 1] = event
  <2>1. q.outbox = t \o e
    BY DEF e
  <2>2. /\ Len(t \o e) = Len(t) + Len(e)
        /\ \A i \in 1 .. Len(t) + Len(e) :
              (t \o e)[i] = IF i <= Len(t) THEN t[i] ELSE e[i - Len(t)]
    BY <1>1, <1>3, ConcatProperties
  <2> QED
    BY <1>1, <1>3, <2>1, <2>2
<1> DEFINE L == Len(r.log)
           m == Len(t)
<1>5. Len(r.outbox) = 0 /\ L \in Nat /\ m \in Nat /\ Len(q.outbox) = m + 1 /\ Len(q.log) = L
  BY <1>1, <1>2, <1>4
<1> HIDE DEF L, m
<1>6. /\ Said(r) = [i \in 1 .. L + 0 |-> IF i <= L THEN r.log[i] ELSE r.outbox[i - L]]
      /\ Said(q) = [i \in 1 .. L + (m + 1) |-> IF i <= L THEN r.log[i] ELSE q.outbox[i - L]]
  <2>1. Len(q.log) = L /\ Len(r.log) = L /\ q.log = r.log
    BY <1>5 DEF L
  <2>2. Said(r) = [i \in 1 .. Len(r.log) + Len(r.outbox) |->
                     IF i <= Len(r.log) THEN r.log[i] ELSE r.outbox[i - Len(r.log)]]
    BY DEF Said
  <2>3. Said(q) = [i \in 1 .. Len(q.log) + Len(q.outbox) |->
                     IF i <= Len(q.log) THEN q.log[i] ELSE q.outbox[i - Len(q.log)]]
    BY DEF Said
  <2>4. Said(r) = [i \in 1 .. L + 0 |-> IF i <= L THEN r.log[i] ELSE r.outbox[i - L]]
    BY <1>5, <2>1, <2>2, Zenon
  <2>5. Said(q) = [i \in 1 .. L + (m + 1) |-> IF i <= L THEN r.log[i] ELSE q.outbox[i - L]]
    BY <1>5, <2>1, <2>3, Zenon
  <2> QED
    BY <2>4, <2>5
<1>7. DOMAIN Said(r) = 1 .. L /\ DOMAIN Said(q) = 1 .. L + m + 1
  <2>1. L + 0 = L /\ L + (m + 1) = L + m + 1
    BY <1>5
  <2> QED
    BY <1>6, <2>1
<1>8. \A i \in 1 .. L : Said(r)[i] = r.log[i] /\ Said(q)[i] = r.log[i]
  <2>1. \A i \in 1 .. L : i \in 1 .. L + 0 /\ i \in 1 .. L + (m + 1) /\ i <= L
    BY <1>5
  <2> QED
    BY <1>6, <2>1
<1>9. ASSUME NEW i \in 1 .. m + 1 PROVE Said(q)[L + i] = q.outbox[i]
  <2>1. L + i \in 1 .. L + (m + 1) /\ ~(L + i <= L) /\ (L + i) - L = i
    BY <1>5
  <2> QED
    BY <1>6, <2>1
<1>10. \A i \in 1 .. m : i \in 1 .. m + 1 /\ Said(q)[L + i] = t[i]
  BY <1>4, <1>5, <1>9 DEF m
<1>11. Said(q)[L + m + 1] = event
  <2>1. m + 1 \in 1 .. m + 1 /\ L + m + 1 = L + (m + 1)
    BY <1>5
  <2> QED
    BY <1>4, <1>9, <2>1 DEF m
<1> QED
  BY <1>5, <1>7, <1>8, <1>10, <1>11 DEF L, m


\* Who is known to have ended, by what is known.
LEMMA KnownParts ==
    ASSUME NEW r, Inner(r), NEW e, Known(r, e)
    PROVE  /\ (e[1] = "run_finished" => r.then = "return" /\ e[2] = r.bill)
           /\ (IsFanEnd(e) => r.then \in Final /\ e = NodeFinished(Fan, r.outcome))
           /\ \A k \in r.deferred : e # NodeStarted(k) /\ e # NodeFinished(k, Word(r, k))
           /\ (e[1] = "node_started" => e[2] \in Shown(r) \cup {Fan})
           /\ \A k : e = ItemRecovered(k) => k \in r.bad
           /\ (e[1] = "progress" => e[2] \in 0 .. r.done /\ r.then \notin {"boundary", "enter"})
           /\ (e = NodeStarted(Fan) => r.then # "boundary")
           /\ \A k, w : k # Fan /\ e = NodeFinished(k, w) => k \in Shown(r) /\ w = Word(r, k)
<1>1. \A k \in Taken(r) : k # Fan
  BY NodesAssumption DEF Inner, Fan
<1>2. r.deferred \subseteq Taken(r) /\ r.deferred \cap Shown(r) = {} /\ Shown(r) \subseteq Taken(r)
  BY DEF Inner, Shown
<1>3. Fan \in Int
  BY DEF Fan
<1> QED
  BY <1>1, <1>2, <1>3, EventParts DEF Known, IsFanEnd

LEMMA EmitsTale ==
    ASSUME NEW r, Silent(r), Tale(r), r.then # "return", NEW event \in Events, NEW q,
           q.log = r.log, q.outbox = Told(r) \o <<event>>, q.deferred = {},
           q.good = r.good, q.bad = r.bad, q.bill = r.bill,
           \A i \in DOMAIN Said(r) : Known(q, Said(r)[i]) /\ Said(r)[i] # event,
           Known(q, event),
           \A k \in r.deferred : event # NodeStarted(k) /\ event # NodeFinished(k, Word(r, k)),
           r.then = "closed" => event[1] = "run_finished",
           q.done <= q.bill, q.then = "settled" => q.done < q.bill
    PROVE  Tale(q)
<1>0. Inner(r) /\ r.outbox = <<>>
  BY DEF Silent
<1> DEFINE t == Told(r)
           L == Len(r.log)
           m == Len(t)
           s == Said(q)
<1>1. /\ t \in Seq(Events) /\ m \in Nat /\ Once(t)
      /\ \A i \in 1 .. m : \E k \in r.deferred :
             t[i] = NodeStarted(k) \/ t[i] = NodeFinished(k, Word(r, k))
      /\ \A k \in r.deferred : Paired(t, k, Word(r, k))
  BY <1>0, ToldOnce
<1>2. /\ L \in Nat /\ DOMAIN Said(r) = 1 .. L
      /\ \A i \in 1 .. L : Said(r)[i] = r.log[i] /\ s[i] = r.log[i]
      /\ DOMAIN s = 1 .. L + m + 1
      /\ \A i \in 1 .. m : s[L + i] = t[i]
      /\ s[L + m + 1] = event
  BY <1>0, SaidEmits
<1>3. DOMAIN t = 1 .. m
  BY <1>1
<1> HIDE DEF t, L, m, s
<1>4. \A i \in 1 .. L : Known(r, s[i])
  BY <1>2 DEF Tale
<1>5. \A i \in DOMAIN s : i \in 1 .. L \/ (\E a \in 1 .. m : i = L + a) \/ i = L + m + 1
  <2>1. ASSUME NEW i \in 1 .. L + m + 1
        PROVE  i \in 1 .. L \/ i - L \in 1 .. m \/ i = L + m + 1
    BY <1>1, <1>2
  <2>2. ASSUME NEW i \in 1 .. L + m + 1 PROVE i = L + (i - L)
    BY <1>2
  <2> QED
    BY <1>2, <2>1, <2>2
<1>6. \A i \in 1 .. m : \E k \in r.deferred :
             s[L + i] = NodeStarted(k) \/ s[L + i] = NodeFinished(k, Word(r, k))
  BY <1>1, <1>2
<1>7. Once(s)
  <2> SUFFICES ASSUME NEW i \in DOMAIN s, NEW j \in DOMAIN s, i < j PROVE s[i] # s[j]
    BY DEF Once
  <2>1. CASE i \in 1 .. L /\ j \in 1 .. L
    BY <1>2, <2>1 DEF Tale, Once
  <2>2. CASE i \in 1 .. L /\ \E a \in 1 .. m : j = L + a
    BY <1>0, <1>4, <1>6, <2>2, KnownParts
  <2>3. CASE i \in 1 .. L /\ j = L + m + 1
    BY <1>2, <1>4, <2>3
  <2>4. CASE (\E a \in 1 .. m : i = L + a) /\ \E b \in 1 .. m : j = L + b
    <3>1. PICK a \in 1 .. m, b \in 1 .. m : i = L + a /\ j = L + b
      BY <2>4
    <3>2. a < b
      BY <1>1, <1>2, <3>1
    <3>3. t[a] # t[b]
      BY <1>1, <1>3, <3>1, <3>2 DEF Once
    <3> QED
      BY <1>2, <3>1, <3>3
  <2>5. CASE (\E a \in 1 .. m : i = L + a) /\ j = L + m + 1
    BY <1>2, <1>6, <2>5
  <2>6. CASE (i = L + m + 1) \/ ((\E a \in 1 .. m : i = L + a) /\ j \in 1 .. L)
    BY <1>1, <1>2, <2>6
  <2> QED
    BY <1>5, <2>1, <2>2, <2>3, <2>4, <2>5, <2>6
<1>8. Closing(s)
  <2> SUFFICES ASSUME NEW i \in DOMAIN s, NEW j \in DOMAIN s, i < j
               PROVE  s[i][1] # "run_finished" /\ (IsFanEnd(s[i]) => s[j][1] = "run_finished")
    BY DEF Closing
  <2>1. CASE i \in 1 .. L
    <3>1. /\ (s[i][1] = "run_finished" => r.then = "return")
          /\ (IsFanEnd(s[i]) => r.then \in Final)
      BY <1>0, <1>4, <2>1, KnownParts
    <3>2. s[i][1] # "run_finished"
      BY <3>1
    <3>3. ASSUME IsFanEnd(s[i]) PROVE s[j][1] = "run_finished"
      <4>1. r.then = "closed" /\ r.deferred = {}
        BY <1>0, <3>1, <3>3 DEF Inner, Final
      <4>2. j \in 1 .. L \/ j = L + m + 1
        BY <1>5, <1>6, <4>1
      <4> QED
        BY <1>2, <2>1, <3>3, <4>1, <4>2 DEF Tale, Closing
    <3> QED
      BY <3>2, <3>3
  <2>2. CASE \E a \in 1 .. m : i = L + a
    <3>1. PICK k \in r.deferred : s[i] = NodeStarted(k) \/ s[i] = NodeFinished(k, Word(r, k))
      BY <1>6, <2>2
    <3>2. k # Fan
      BY <1>0, NodesAssumption DEF Inner, Fan
    <3> QED
      BY <3>1, <3>2, EventParts DEF IsFanEnd
  <2>3. CASE i = L + m + 1
    BY <1>1, <1>2, <2>3
  <2> QED
    BY <1>5, <2>1, <2>2, <2>3
<1>9. Shown(q) = Taken(r) /\ \A k : Word(q, k) = Word(r, k)
  BY DEF Shown, Taken, Word
<1>10. \A i \in DOMAIN s : Known(q, s[i])
  <2>1. \A k \in r.deferred : Known(q, NodeStarted(k)) /\ Known(q, NodeFinished(k, Word(r, k)))
    BY <1>0, <1>9 DEF Known, Inner
  <2>2. \A i \in 1 .. L : Known(q, s[i])
    BY <1>2
  <2>3. \A i \in 1 .. m : Known(q, s[L + i])
    BY <1>6, <2>1
  <2> QED
    BY <1>2, <1>5, <2>2, <2>3
<1>11. ASSUME NEW k \in Shown(q) PROVE Paired(s, k, Word(q, k))
  <2>1. CASE k \in Shown(r)
    <3>1. PICK i \in 1 .. L : /\ i + 1 \in 1 .. L /\ Said(r)[i] = NodeStarted(k)
                              /\ Said(r)[i + 1] = NodeFinished(k, Word(r, k))
      BY <1>2, <2>1 DEF Tale, Paired
    <3>2. i \in DOMAIN s /\ i + 1 \in DOMAIN s
      BY <1>1, <1>2, <3>1
    <3>3. s[i] = NodeStarted(k) /\ s[i + 1] = NodeFinished(k, Word(r, k))
      BY <1>2, <3>1
    <3> QED
      BY <1>9, <3>2, <3>3 DEF Paired
  <2>2. CASE k \in r.deferred
    <3>1. PICK i \in 1 .. m : /\ i + 1 \in 1 .. m /\ t[i] = NodeStarted(k)
                              /\ t[i + 1] = NodeFinished(k, Word(r, k))
      BY <1>1, <1>3, <2>2 DEF Paired
    <3>2. L + i \in DOMAIN s /\ (L + i) + 1 \in DOMAIN s /\ (L + i) + 1 = L + (i + 1)
      BY <1>1, <1>2, <3>1
    <3>3. s[L + i] = NodeStarted(k) /\ s[(L + i) + 1] = NodeFinished(k, Word(r, k))
      BY <1>2, <3>1, <3>2
    <3> QED
      BY <1>9, <3>2, <3>3 DEF Paired
  <2> QED
    BY <1>9, <2>1, <2>2 DEF Shown
<1>12. Counted(q)
  BY DEF Tale, Counted, Taken
<1> QED
  BY <1>7, <1>8, <1>10, <1>11, <1>12 DEF Tale, s


\* Writing an event does not change what was said.
LEMMA WroteSays ==
    ASSUME NEW r, r.log \in Seq(Events), r.outbox \in Seq(Events), r.outbox # <<>>,
           NEW q, q.log = Append(r.log, Head(r.outbox)), q.outbox = Tail(r.outbox)
    PROVE  Said(q) = Said(r)
<1> DEFINE l == r.log
           o == r.outbox
           L == Len(l)
           m == Len(o)
<1>1. /\ L \in Nat /\ m \in Nat /\ m > 0 /\ Head(o) = o[1] /\ Head(o) \in Events
      /\ Tail(o) \in Seq(Events) /\ Len(Tail(o)) = m - 1
      /\ \A i \in 1 .. m - 1 : Tail(o)[i] = o[i + 1]
  <2> HIDE DEF o
  <2>1. o \in Seq(Events) /\ o # <<>>
    BY DEF o
  <2> QED
    BY <2>1, HeadTailProperties
<1>2. /\ Len(Append(l, Head(o))) = L + 1 /\ Append(l, Head(o))[L + 1] = o[1]
      /\ \A i \in 1 .. L : Append(l, Head(o))[i] = l[i]
  BY <1>1, AppendProperties
<1>3. Len(q.log) = L + 1 /\ Len(q.outbox) = m - 1
  BY <1>1, <1>2
<1> HIDE DEF L, m
<1>4. /\ Said(r) = [i \in 1 .. L + m |-> IF i <= L THEN l[i] ELSE o[i - L]]
      /\ Said(q) = [i \in 1 .. (L + 1) + (m - 1) |->
                      IF i <= L + 1 THEN q.log[i] ELSE q.outbox[i - (L + 1)]]
  <2>1. Said(r) = [i \in 1 .. Len(r.log) + Len(r.outbox) |->
                     IF i <= Len(r.log) THEN r.log[i] ELSE r.outbox[i - Len(r.log)]]
    BY DEF Said
  <2>2. Said(q) = [i \in 1 .. Len(q.log) + Len(q.outbox) |->
                     IF i <= Len(q.log) THEN q.log[i] ELSE q.outbox[i - Len(q.log)]]
    BY DEF Said
  <2>3. Said(r) = [i \in 1 .. L + m |-> IF i <= L THEN l[i] ELSE o[i - L]]
    BY <2>1 DEF L, m
  <2>4. Said(q) = [i \in 1 .. (L + 1) + (m - 1) |->
                      IF i <= L + 1 THEN q.log[i] ELSE q.outbox[i - (L + 1)]]
    BY <1>3, <2>2, Zenon
  <2> QED
    BY <2>3, <2>4
<1>5. 1 .. (L + 1) + (m - 1) = 1 .. L + m
  BY <1>1
<1>6. ASSUME NEW i \in 1 .. L + m
      PROVE  (IF i <= L + 1 THEN q.log[i] ELSE q.outbox[i - (L + 1)])
             = (IF i <= L THEN l[i] ELSE o[i - L])
  <2>1. CASE i <= L
    <3>1. i \in 1 .. L /\ i <= L + 1
      BY <1>1, <2>1
    <3> QED
      BY <1>2, <2>1, <3>1
  <2>2. CASE i = L + 1
    <3>1. ~(i <= L) /\ i <= L + 1 /\ i - L = 1
      BY <1>1, <2>2
    <3> QED
      BY <1>2, <2>2, <3>1
  <2>3. CASE i > L + 1
    <3>1. /\ ~(i <= L) /\ ~(i <= L + 1) /\ i - (L + 1) \in 1 .. m - 1
          /\ (i - (L + 1)) + 1 = i - L
      BY <1>1, <2>3
    <3> QED
      BY <1>1, <3>1
  <2>4. i <= L \/ i = L + 1 \/ i > L + 1
    BY <1>1
  <2> QED
    BY <2>1, <2>2, <2>3, <2>4
<1> QED
  BY <1>4, <1>5, <1>6

LEMMA TakenBounds ==
    ASSUME node \in Nodes, NEW r, Inner(r), Counted(r)
    PROVE  /\ IsFiniteSet(Taken(r)) /\ IsFiniteSet(r.pending) /\ r.bill \in Nat
           /\ r.bill <= r.started /\ r.done <= node.width
           /\ \A k \in r.pending : Cardinality(Taken(r) \cup {k}) = r.bill + 1
<1>1. r.started \in Nat /\ Taken(r) \subseteq 1 .. r.started /\ r.pending \subseteq 1 .. r.started
  BY NodesAssumption DEF Inner
<1>2. IsFiniteSet(1 .. r.started) /\ Cardinality(1 .. r.started) = r.started
  BY <1>1, FS_Interval
<1>3. /\ IsFiniteSet(Taken(r)) /\ IsFiniteSet(r.pending)
      /\ Cardinality(Taken(r)) \in Nat /\ Cardinality(Taken(r)) <= r.started
  BY <1>1, <1>2, FS_Subset, FS_CardinalityType
<1>4. \A k \in r.pending : Cardinality(Taken(r) \cup {k}) = r.bill + 1
  <2>1. \A k \in r.pending : k \notin Taken(r)
    BY DEF Inner
  <2> QED
    BY <1>3, <2>1, FS_AddElement DEF Counted
<1>5. node.width \in Nat /\ r.started <= node.width /\ r.done \in Nat
  BY <1>1, NodesAssumption DEF FanNodes, ParallelNodes, MapNodes, Inner
<1>6. r.bill \in Nat /\ r.bill <= r.started /\ r.done <= r.bill
  BY <1>3 DEF Counted
<1>7. r.done <= node.width
  BY <1>1, <1>5, <1>6
<1> QED
  BY <1>3, <1>4, <1>6, <1>7


\* What was known stays known after an emit.
LEMMA KnownGrows ==
    ASSUME NEW r, Inner(r), r.then # "return", NEW q, DOMAIN q = Fields,
           q.good = r.good, r.bad = q.bad, q.deferred = {}, q.done \in Nat, r.done <= q.done,
           q.then # "boundary",
           r.then \notin {"boundary", "enter"} => q.then # "enter",
           r.then \in Final => q.then \in Final /\ q.outcome = r.outcome,
           NEW e, Known(r, e)
    PROVE  Known(q, e)
<1>1. Shown(r) \subseteq Shown(q) /\ \A k : Word(q, k) = Word(r, k)
  BY DEF Shown, Taken, Word
<1>2. 0 .. r.done \subseteq 0 .. q.done
  BY DEF Inner
<1> QED
  BY <1>1, <1>2 DEF Known

LEMMA SaidSame ==
    ASSUME NEW r, NEW q, q.log = r.log, q.outbox = r.outbox
    PROVE  Said(q) = Said(r)
  BY DEF Said

\* No deferred branch is the node itself, and theirs are the only such events.
LEMMA NotTold ==
    ASSUME node \in Nodes, NEW r, Inner(r), NEW event,
           \/ event[1] \notin {"node_started", "node_finished"}
           \/ event[2] = Fan
    PROVE  \A k \in r.deferred : event # NodeStarted(k) /\ event # NodeFinished(k, Word(r, k))
<1>1. \A k \in r.deferred : k # Fan
  BY NodesAssumption DEF Inner, Fan
<1> QED
  BY <1>1, EventParts

LEMMA LeavesTale ==
    ASSUME node \in Nodes, NEW r, Silent(r), Looping(r), Tale(r), NEW outcome \in {"ok", "failed"},
           NEW q, q = Leaves(r, outcome)
    PROVE  Tale(q)
<1>0. Inner(r) /\ DOMAIN r = Fields /\ r.then \in {"enter", "on"} /\ r.done \in Nat
      /\ Counted(r)
  BY DEF Silent, Inner, Looping, Tale
<1>1. /\ Same(r, q) /\ q.outcome = outcome /\ q.done = r.done
      /\ r.pending = {} =>
           /\ q.at = "write" /\ q.outbox = Told(r) \o <<NodeFinished(Fan, outcome)>>
           /\ q.deferred = {} /\ q.then = "closed"
      /\ r.pending # {} =>
           q.at = "cancel" /\ q.outbox = r.outbox /\ q.deferred = r.deferred /\ q.then = r.then
  BY <1>0, LeavesFields
<1>2. CASE r.pending = {}
  <2> DEFINE event == NodeFinished(Fan, outcome)
  <2>1. event \in Events
    <3>1. outcome \in Words /\ Fan \in Int
      <4>1. \A w \in {"ok", "failed"} : w \in Words
        BY DEF Words
      <4> QED
        BY <4>1 DEF Fan
    <3> QED
      BY <3>1, EventTypes
  <2>2. event[1] = "node_finished" /\ event[2] = Fan /\ IsFanEnd(event)
    BY EventParts DEF IsFanEnd
  <2>3. Known(q, event)
    BY <1>1, <1>2 DEF Known, Final
  <2> HIDE DEF event
  <2>4. \A i \in DOMAIN Said(r) : Known(q, Said(r)[i]) /\ Said(r)[i] # event
    <3>1. /\ DOMAIN q = Fields /\ q.good = r.good /\ r.bad = q.bad /\ q.deferred = {}
          /\ q.done \in Nat /\ r.done <= q.done /\ q.then = "closed"
      BY <1>0, <1>1, <1>2 DEF Same
    <3>2. r.then \notin {"return", "boundary"} \cup Final
      BY <1>0 DEF Final
    <3>3. ASSUME NEW e, Known(r, e) PROVE Known(q, e)
      BY <1>0, <3>1, <3>2, <3>3, KnownGrows
    <3>4. ASSUME NEW e, Known(r, e) PROVE e # event
      BY <1>0, <2>2, <3>4, KnownParts DEF Final
    <3> QED
      BY <3>3, <3>4 DEF Tale
  <2>5. q.outbox = Told(r) \o <<event>>
    BY <1>1, <1>2 DEF event
  <2>6. \A k \in r.deferred : event # NodeStarted(k) /\ event # NodeFinished(k, Word(r, k))
    BY <1>0, <2>2, NotTold
  <2>7. /\ q.log = r.log /\ q.good = r.good /\ q.bad = r.bad /\ q.bill = r.bill
        /\ q.deferred = {} /\ q.done <= q.bill /\ q.then = "closed"
    BY <1>0, <1>1, <1>2 DEF Same, Counted
  <2>8. r.then \notin {"return", "closed"}
    BY <1>0
  <2> QED
    BY <2>1, <2>3, <2>4, <2>5, <2>6, <2>7, <2>8, EmitsTale
<1>3. CASE r.pending # {}
  <2>1. TaleKept(r, q)
    BY <1>0, <1>1, <1>3, SaidSame DEF Same, TaleKept, Shown, Taken, Word, Final, Counted
  <2> QED
    BY <2>1, KeptTale
<1> QED
  BY <1>2, <1>3

LEMMA GoesOnTale ==
    ASSUME node \in Nodes, NEW r, Silent(r), Looping(r), Tale(r), NEW q, q = GoesOn(r)
    PROVE  Tale(q)
<1>0. DOMAIN r = Fields /\ Counted(r)
  BY DEF Silent, Inner, Tale
<1> DEFINE word == IF IsMap THEN "ok" ELSE "failed"
<1>1. CASE q = Leaves(r, word)
  <2>1. word \in {"ok", "failed"}
    OBVIOUS
  <2> HIDE DEF word
  <2> QED
    BY <1>1, <2>1, LeavesTale
<1>2. CASE /\ Same(r, q) /\ q.outbox = r.outbox /\ q.deferred = r.deferred /\ q.then = r.then
           /\ q.outcome = r.outcome /\ q.done = r.done
  <2>1. TaleKept(r, q)
    BY <1>0, <1>2, SaidSame DEF Same, TaleKept, Shown, Taken, Word, Counted
  <2> QED
    BY <2>1, KeptTale
<1> QED
  BY <1>0, <1>1, <1>2, GoesOnFields

LEMMA ItemDoneTale ==
    ASSUME node \in Nodes, NEW r, Silent(r), Tale(r), r.then \in {"on", "settled"},
           r.done < r.bill, NEW q, q = ItemDone(r)
    PROVE  Tale(q)
<1>0. Inner(r) /\ DOMAIN r = Fields /\ r.done \in Nat /\ r.bill \in Nat /\ Counted(r)
  BY DEF Silent, Inner, Tale
<1>1. /\ Same(r, q) /\ q.at = "write" /\ q.outbox = Told(r) \o <<Progress(r.done + 1)>>
      /\ q.deferred = {} /\ q.then = "on" /\ q.done = r.done + 1 /\ q.outcome = r.outcome
  BY <1>0, ItemDoneFields
<1> DEFINE event == Progress(r.done + 1)
<1>2. event \in Events
  BY <1>0, EventTypes
<1>3. event[1] = "progress" /\ event[2] = r.done + 1
  BY EventParts
<1>4. Known(q, event)
  BY <1>0, <1>1 DEF Known
<1>5. q.outbox = Told(r) \o <<event>>
  BY <1>1
<1> HIDE DEF event
<1>6. \A i \in DOMAIN Said(r) : Known(q, Said(r)[i]) /\ Said(r)[i] # event
  <2>1. ASSUME NEW e, Known(r, e) PROVE Known(q, e)
    <3>1. r.then # "return" /\ r.then \notin Final /\ q.then \notin {"boundary", "enter"}
      BY <1>1 DEF Final
    <3>2. q.good = r.good /\ r.bad = q.bad /\ q.done \in Nat /\ r.done <= q.done /\ DOMAIN q = Fields
      BY <1>0, <1>1 DEF Same
    <3> QED
      BY <1>0, <1>1, <2>1, <3>1, <3>2, KnownGrows
  <2>2. ASSUME NEW e, Known(r, e) PROVE e # event
    <3>1. e[1] = "progress" => e[2] \in 0 .. r.done
      BY <1>0, <2>2, KnownParts
    <3> QED
      BY <1>0, <1>3, <3>1
  <2> QED
    BY <2>1, <2>2 DEF Tale
<1>7. \A k \in r.deferred : event # NodeStarted(k) /\ event # NodeFinished(k, Word(r, k))
  BY <1>0, <1>3, NotTold
<1>8. q.done <= q.bill
  BY <1>0, <1>1 DEF Same
<1> QED
  BY <1>1, <1>2, <1>4, <1>5, <1>6, <1>7, <1>8, EmitsTale DEF Same


LEMMA ItemSettledTale ==
    ASSUME node \in Nodes, IsMap, NEW r, Silent(r), Looping(r), Tale(r), NEW k \in Int,
           r.done < r.bill, k \in r.good \cup r.bad,
           \A i \in DOMAIN Said(r) : Said(r)[i] # ItemRecovered(k),
           NEW q, q = ItemSettled(r, k)
    PROVE  Tale(q)
<1>0. Inner(r) /\ DOMAIN r = Fields /\ r.then = "on" /\ Counted(r)
  BY DEF Silent, Inner, Looping, Tale
<1>1. CASE q = ItemDone(r)
  BY <1>0, <1>1, ItemDoneTale
<1>2. CASE q = Leaves(r, "failed")
  BY <1>2, LeavesTale
<1> DEFINE event == ItemRecovered(k)
<1>3. CASE k \notin r.good /\ q = Emits(r, event, "settled")
  <2>1. event \in Events
    BY EventTypes
  <2>2. event[1] = "recovered"
    BY EventParts
  <2>3. \A x : x.bad = r.bad => Known(x, event)
    BY <1>3 DEF Known
  <2> HIDE DEF event
  <2>4. /\ Same(r, q) /\ q.at = "write" /\ q.outbox = Told(r) \o <<event>>
        /\ q.deferred = {} /\ q.then = "settled" /\ q.done = r.done /\ q.outcome = r.outcome
    BY <1>0, <1>3, EmitsFields
  <2>5. \A i \in DOMAIN Said(r) : Known(q, Said(r)[i]) /\ Said(r)[i] # event
    <3>1. ASSUME NEW e, Known(r, e) PROVE Known(q, e)
      <4>1. r.then # "return" /\ r.then \notin Final /\ q.then \notin {"boundary", "enter"}
        BY <1>0, <2>4 DEF Final
      <4>2. q.good = r.good /\ r.bad = q.bad /\ q.done \in Nat /\ r.done <= q.done
            /\ DOMAIN q = Fields
        BY <1>0, <2>4 DEF Same, Inner
      <4> QED
        BY <1>0, <2>4, <3>1, <4>1, <4>2, KnownGrows
    <3> QED
      BY <3>1 DEF Tale, event
  <2>6. \A x \in r.deferred : event # NodeStarted(x) /\ event # NodeFinished(x, Word(r, x))
    BY <1>0, <2>2, NotTold
  <2>7. Known(q, event)
    BY <2>3, <2>4 DEF Same
  <2> QED
    BY <1>0, <2>1, <2>4, <2>5, <2>6, <2>7, EmitsTale DEF Same, Counted
<1> QED
  BY <1>1, <1>2, <1>3 DEF ItemSettled

LEMMA BranchJoinedTale ==
    ASSUME node \in Nodes, NEW r, Silent(r), Looping(r), Tale(r), NEW q, q = BranchJoined(r)
    PROVE  Tale(q)
<1>1. CASE q = GoesOn(r)
  BY <1>1, GoesOnTale
<1> DEFINE word == IF Join(r) = "done" THEN "ok" ELSE "failed"
<1>2. CASE q = Leaves(r, word)
  <2>1. word \in {"ok", "failed"}
    OBVIOUS
  <2> HIDE DEF word
  <2> QED
    BY <1>2, <2>1, LeavesTale
<1> QED
  BY <1>1, <1>2 DEF BranchJoined

\* The boundary event, which opens the node.
LEMMA BoundaryTale ==
    ASSUME node \in Nodes, NEW r, Memory(r), Tale(r), r.at = "boundary", NEW answer,
           NEW q, q = After(r, answer)
    PROVE  Tale(q)
<1> DEFINE t == Took(r)
           event == NodeStarted(Fan)
<1>1. q = Emits(t, event, "enter")
  BY DEF After
<1>2. event \in Events
  BY EventTypes DEF Fan
<1>3. DOMAIN r = Fields
  BY DEF Memory, Inner
<1>4. DOMAIN t = Fields /\ t.pos = r.pos + 1 /\ \A f \in Fields \ {"pos"} : t[f] = r[f]
  BY <1>3, TookFields
<1>5. event[1] = "node_started" /\ event[2] = Fan
  BY EventParts
<1> HIDE DEF t
<1>6. /\ t.then = "boundary" /\ Taken(t) = {} /\ t.deferred = {} /\ t.outbox = <<>>
      /\ t.done \in Nat /\ t.log = r.log /\ Silent(t)
  BY <1>4 DEF Memory, Silent, Inner, Fields, Taken, Final
<1>7. Tale(t)
  <2>1. TaleKept(r, t)
    BY <1>4, SaidSame DEF TaleKept, Fields, Shown, Taken, Word, Tale, Counted
  <2> QED
    BY <2>1, KeptTale
<1>8. \A x : x.then = "enter" => Known(x, event)
  BY DEF Known
<1> HIDE DEF event
<1>9. /\ Same(t, q) /\ q.at = "write" /\ q.outbox = Told(t) \o <<event>>
      /\ q.deferred = {} /\ q.then = "enter" /\ q.done = t.done /\ q.outcome = t.outcome
  BY <1>1, <1>4, EmitsFields
<1>10. \A i \in DOMAIN Said(t) : Known(q, Said(t)[i]) /\ Said(t)[i] # event
  <2>1. ASSUME NEW e, Known(t, e) PROVE Known(q, e)
    <3>1. q.good = t.good /\ t.bad = q.bad /\ DOMAIN q = Fields /\ t.done <= q.done /\ q.done \in Nat
      BY <1>6, <1>9 DEF Same
    <3>2. Inner(t) /\ t.then # "return" /\ t.then \notin Final
      BY <1>6 DEF Silent, Final
    <3> QED
      BY <1>6, <1>9, <2>1, <3>1, <3>2, KnownGrows
  <2>2. ASSUME NEW e, Known(t, e) PROVE e # event
    BY <1>6, <2>2, KnownParts DEF Silent, event
  <2> QED
    BY <1>7, <2>1, <2>2 DEF Tale
<1>11. \A k \in t.deferred : event # NodeStarted(k) /\ event # NodeFinished(k, Word(t, k))
  BY <1>6
<1>12. q.done <= q.bill /\ q.then # "settled" /\ Known(q, event)
  BY <1>7, <1>8, <1>9 DEF Tale, Counted, Same
<1>13. /\ q.log = t.log /\ q.good = t.good /\ q.bad = t.bad /\ q.bill = t.bill
       /\ t.then # "return" /\ (t.then = "closed" => event[1] = "run_finished")
       /\ (q.then = "settled" => q.done < q.bill)
  BY <1>6, <1>9 DEF Same
<1>14. Silent(t) /\ q.outbox = Told(t) \o <<event>> /\ q.deferred = {}
  BY <1>6, <1>9
<1> QED
  BY <1>2, <1>7, <1>10, <1>11, <1>12, <1>13, <1>14, EmitsTale

LEMMA WriteTale ==
    ASSUME node \in Nodes, NEW r, Memory(r), Tale(r), r.at = "write", NEW answer,
           NEW q, q = After(r, answer)
    PROVE  Tale(q)
<1>1. q = Wrote(r) /\ DOMAIN r = Fields
  BY DEF After, Memory, Inner
<1>2. /\ Moved(r, q, {"outbox", "log", "at"})
      /\ q.outbox = Tail(r.outbox) /\ q.log = Append(r.log, Head(r.outbox))
      /\ q.at = IF Len(r.outbox) = 1 THEN "project" ELSE "write"
  BY <1>1, WroteFields
<1>3. Said(q) = Said(r)
  BY <1>2, WroteSays DEF Memory, Inner
<1>4. \A f \in {"good", "bad", "deferred", "done", "then", "outcome", "bill"} : q[f] = r[f]
  BY <1>2 DEF Moved, Fields
<1>5. TaleKept(r, q)
  BY <1>3, <1>4 DEF TaleKept, Shown, Taken, Word, Tale, Counted
<1> QED
  BY <1>5, KeptTale


LEMMA StartTale ==
    ASSUME node \in Nodes, NEW r, Memory(r), Tale(r), r.at = "start", NEW answer,
           NEW q, q = After(r, answer)
    PROVE  Tale(q)
<1> DEFINE b == Began(r)
<1>1. q = GoesOn(b) /\ DOMAIN r = Fields
  BY DEF After, Memory, Inner
<1>2. /\ Moved(r, b, {"started", "pending"})
      /\ b.started = r.started + 1 /\ b.pending = r.pending \cup {r.started + 1}
  BY <1>1, BeganFields
<1>3. /\ DOMAIN b = Fields /\ b.pos = r.pos + 1
      /\ \A f \in Fields \ {"started", "pending", "pos"} : b[f] = r[f]
  BY <1>2 DEF Moved
<1> HIDE DEF b
<1>4. node.width \in Nat /\ r.started < node.width /\ r.started \in Nat
  BY NodesAssumption DEF FanNodes, ParallelNodes, MapNodes, Memory, Inner
<1>5. /\ r.pending \subseteq 1 .. r.started /\ Taken(r) \subseteq 1 .. r.started
      /\ r.pending \cap Taken(r) = {}
  BY DEF Memory, Inner
<1>6. /\ b.pending \subseteq 1 .. b.started /\ Taken(r) \subseteq 1 .. b.started
      /\ b.pending \cap Taken(r) = {} /\ b.started \in 0 .. node.width
  BY <1>2, <1>4, <1>5
<1>7. Silent(b) /\ Looping(b)
  BY <1>3, <1>6 DEF Memory, Silent, Inner, Fields, Taken, Looping, Final, Loops
<1>8. TaleKept(r, b)
  BY <1>3, SaidSame DEF TaleKept, Fields, Shown, Taken, Word, Tale, Counted
<1> QED
  BY <1>1, <1>7, <1>8, KeptTale, GoesOnTale

LEMMA FirstTale ==
    ASSUME node \in Nodes, NEW r, Memory(r), Tale(r), r.at = "first", NEW answer,
           NEW q, q = After(r, answer)
    PROVE  Tale(q)
<1>1. q = Chose(r, answer) /\ DOMAIN r = Fields
  BY DEF After, Memory, Inner
<1>2. Moved(r, q, {"at", "ticket"})
  BY <1>1, ChoseFields
<1>3. TaleKept(r, q)
  BY <1>2, SaidSame DEF Moved, TaleKept, Fields, Shown, Taken, Word, Tale, Counted
<1> QED
  BY <1>3, KeptTale

LEMMA CancelTale ==
    ASSUME node \in Nodes, NEW r, Memory(r), Tale(r), r.at = "cancel", NEW answer,
           NEW q, q = After(r, answer)
    PROVE  Tale(q)
<1> DEFINE c == Cancelled(r)
<1>1. q = Closes(c) /\ DOMAIN r = Fields
  BY DEF After, Memory, Inner
<1>2. Moved(r, c, {"pending"}) /\ c.pending = {}
  BY <1>1, CancelledFields
<1>3. DOMAIN c = Fields /\ c.pos = r.pos + 1 /\ \A f \in Fields \ {"pending", "pos"} : c[f] = r[f]
  BY <1>2 DEF Moved
<1>4. c.outcome \in {"ok", "failed"}
  BY <1>3 DEF Fields, Memory, Inner
<1> HIDE DEF c
<1>5. Silent(c) /\ Looping(c)
  BY <1>2, <1>3 DEF Memory, Silent, Inner, Fields, Taken, Final, Looping, Loops
<1>6. TaleKept(r, c)
  BY <1>3, SaidSame DEF TaleKept, Fields, Shown, Taken, Word, Tale, Counted
<1> DEFINE event == NodeFinished(Fan, c.outcome)
<1>7. q = Emits(c, event, "closed")
  BY <1>1 DEF Closes
<1> HIDE DEF event
<1>8. /\ Same(c, q) /\ q.at = "write" /\ q.outbox = Told(c) \o <<event>>
      /\ q.deferred = {} /\ q.then = "closed" /\ q.done = c.done /\ q.outcome = c.outcome
  BY <1>3, <1>7, EmitsFields
<1>9. Tale(c)
  BY <1>6, KeptTale
<1>10. Inner(c) /\ c.then \in {"enter", "on"} /\ c.done \in Nat /\ Counted(c)
  BY <1>5, <1>9 DEF Silent, Inner, Looping, Tale
<1>11. event \in Events
  <2>1. c.outcome \in Words /\ Fan \in Int
    <3>1. \A w \in {"ok", "failed"} : w \in Words
      BY DEF Words
    <3> QED
      BY <1>4, <3>1 DEF Fan
  <2> QED
    BY <2>1, EventTypes DEF event
<1>12. event[1] = "node_finished" /\ event[2] = Fan /\ IsFanEnd(event)
  BY EventParts DEF IsFanEnd, event
<1>13. Known(q, event)
  BY <1>8 DEF Known, Final, event
<1>14. \A i \in DOMAIN Said(c) : Known(q, Said(c)[i]) /\ Said(c)[i] # event
  <2>1. ASSUME NEW e, Known(c, e) PROVE Known(q, e)
    BY <1>8, <1>10, <2>1, KnownGrows DEF Same, Final
  <2>2. ASSUME NEW e, Known(c, e) PROVE e # event
    BY <1>10, <1>12, <2>2, KnownParts DEF Final
  <2> QED
    BY <1>9, <2>1, <2>2 DEF Tale
<1>15. \A k \in c.deferred : event # NodeStarted(k) /\ event # NodeFinished(k, Word(c, k))
  BY <1>10, <1>12, NotTold
<1>16. q.done <= q.bill /\ q.then # "settled" /\ c.then \notin {"return", "closed"}
  BY <1>8, <1>10 DEF Counted, Same
<1> QED
  BY <1>5, <1>8, <1>9, <1>11, <1>13, <1>14, <1>15, <1>16, EmitsTale DEF Same

LEMMA ResultTale ==
    ASSUME node \in Nodes, NEW r, Memory(r), Tale(r), r.at = "result", NEW answer \in Answers(r),
           NEW q, q = After(r, answer)
    PROVE  Tale(q)
<1> DEFINE k == r.ticket
<1>1. q = Collected(Took(r), k, answer) /\ DOMAIN r = Fields
  BY DEF After, Memory, Inner
<1>2. answer \in {"ok", "failed", "error"} /\ k \in r.pending
  BY EndsAssumption DEF Answers, Memory
<1>3. /\ r.pending \subseteq 1 .. r.started /\ Taken(r) \subseteq 1 .. r.started
      /\ r.pending \cap Taken(r) = {} /\ r.good \cap r.bad = {} /\ r.deferred \subseteq Taken(r)
      /\ Looping(r) /\ r.outbox = <<>> /\ r.done \in Nat /\ Inner(r)
  BY DEF Memory, Inner, Loops
<1>4. k \in Int
  BY <1>2, <1>3, NodesAssumption DEF Memory, Inner
<1>5. /\ Counted(r) /\ r.bill \in Nat /\ Cardinality(Taken(r) \cup {k}) = r.bill + 1
      /\ r.done <= r.bill
  BY <1>2, <1>3, TakenBounds DEF Tale, Counted
<1> HIDE DEF k
<1>6. CASE answer = "error" /\ \E left : Dropped(r, k, left) /\ q = Leaves(left, "failed")
  <2>1. PICK left : Dropped(r, k, left) /\ q = Leaves(left, "failed")
    BY <1>6
  <2>2. /\ DOMAIN left = Fields /\ left.pos = r.pos + 1
        /\ \A f \in Fields \ {"pending", "ticket", "pos"} : left[f] = r[f]
        /\ left.pending = r.pending \ {k}
    BY <2>1 DEF Dropped, Moved
  <2>3. Silent(left) /\ Looping(left)
    BY <1>3, <2>2 DEF Memory, Silent, Inner, Fields, Taken, Looping, Final
  <2>4. TaleKept(r, left)
    BY <1>5, <2>2, SaidSame DEF TaleKept, Fields, Shown, Taken, Word, Counted
  <2> QED
    BY <2>1, <2>3, <2>4, KeptTale, LeavesTale
<1>7. CASE /\ answer # "error"
           /\ \E got : /\ Received(r, k, answer, got)
                       /\ q = IF IsMap THEN ItemSettled(got, k) ELSE BranchJoined(got)
  <2>1. PICK got : /\ Received(r, k, answer, got)
                   /\ q = IF IsMap THEN ItemSettled(got, k) ELSE BranchJoined(got)
    BY <1>7
  <2>2. /\ DOMAIN got = Fields /\ got.pos = r.pos + 1
        /\ \A f \in Fields \ {"pending", "ticket", "bill", "deferred", "good", "bad", "pos"} :
              got[f] = r[f]
        /\ got.pending = r.pending \ {k}
        /\ got.bill = r.bill + 1 /\ got.deferred = r.deferred \cup {k}
        /\ got.good = (IF answer = "ok" THEN r.good \cup {k} ELSE r.good)
        /\ got.bad = (IF answer = "failed" THEN r.bad \cup {k} ELSE r.bad)
    BY <2>1 DEF Received, Moved
  <2>3. /\ Taken(got) = Taken(r) \cup {k} /\ got.good \cap got.bad = {}
        /\ got.pending \cap Taken(got) = {} /\ Taken(got) \subseteq 1 .. r.started
        /\ got.deferred \subseteq Taken(got)
    BY <1>2, <1>3, <1>7, <2>2 DEF Taken
  <2>4. Silent(got) /\ Looping(got)
    <3>1. Looping(got) /\ got.then \notin Final /\ got.outbox = <<>> /\ got.then # "boundary"
      BY <1>3, <2>2 DEF Looping, Fields, Final
    <3>2. /\ got.then \in Thens /\ got.outcome \in {"open", "ok", "failed"}
          /\ got.started \in 0 .. node.width /\ got.done \in Nat /\ got.bill \in Nat
          /\ got.pos \in Nat /\ got.log \in Seq(Events) /\ got.started = r.started
          /\ got.pending \subseteq 1 .. r.started
      BY <1>3, <1>5, <2>2 DEF Memory, Inner, Fields
    <3> QED
      BY <2>2, <2>3, <3>1, <3>2 DEF Silent, Inner
  <2>5. Said(got) = Said(r)
    BY <2>2, SaidSame DEF Fields
  <2>6. TaleKept(r, got)
    <3>1. Shown(got) = Shown(r) /\ \A x \in Shown(r) : Word(got, x) = Word(r, x)
      <4>1. k \notin Taken(r)
        BY <1>2, <1>3
      <4> QED
        BY <2>2, <2>3, <4>1 DEF Shown, Word, Taken
    <3>2. got.done = r.done /\ got.then = r.then /\ r.then \notin Final /\ r.then # "settled"
      BY <1>3, <2>2 DEF Fields, Looping, Final
    <3>3. Counted(got)
      BY <1>3, <1>5, <2>2, <2>3, <3>2 DEF Counted
    <3> QED
      BY <2>2, <2>5, <3>1, <3>2, <3>3 DEF TaleKept
  <2>7. Tale(got)
    BY <2>6, KeptTale
  <2>8. \A i \in DOMAIN Said(got) : Said(got)[i] # ItemRecovered(k)
    <3>1. k \notin r.bad
      BY <1>2, <1>3 DEF Taken
    <3> QED
      BY <1>3, <2>5, <3>1, KnownParts DEF Tale
  <2>9. got.done < got.bill /\ k \in got.good \cup got.bad
    BY <1>3, <1>5, <2>2, <2>3 DEF Fields, Taken
  <2> QED
    BY <1>4, <2>1, <2>4, <2>7, <2>8, <2>9, ItemSettledTale, BranchJoinedTale
<1> QED
  BY <1>1, <1>6, <1>7, CollectedFields

LEMMA AfterTale ==
    ASSUME node \in Nodes, NEW r, Memory(r), Tale(r), r.at \in Steps, NEW answer \in Answers(r),
           NEW q, q = After(r, answer)
    PROVE  Tale(q)
  BY BoundaryTale, WriteTale, StartTale, FirstTale, ResultTale, CancelTale DEF Steps


LEMMA ProceedsTale ==
    ASSUME node \in Nodes, NEW r, Memory(r), Tale(r), r.at = "project", NEW q, q = Proceeds(r)
    PROVE  Tale(q)
<1>1. /\ Silent(r) /\ Inner(r) /\ DOMAIN r = Fields /\ r.then \in Thens /\ r.done \in Nat
      /\ Counted(r)
  BY DEF Memory, Silent, Inner, Tale
<1>2. CASE r.then \in {"boundary", "return"}
  <2>1. \A f \in Fields \ {"at"} : q[f] = r[f]
    BY <1>1, <1>2 DEF Proceeds, Fields
  <2>2. TaleKept(r, q)
    BY <1>1, <2>1, SaidSame DEF TaleKept, Fields, Shown, Taken, Word, Counted
  <2> QED
    BY <2>2, KeptTale
<1>3. CASE r.then = "enter" /\ IsMap
  <2> DEFINE event == Progress(0)
  <2>1. q = Emits(r, event, "on")
    BY <1>3 DEF Proceeds
  <2>2. event \in Events /\ event[1] = "progress"
    BY EventTypes, EventParts
  <2>3. \A x : x.then = "on" /\ x.done \in Nat => Known(x, event)
    BY DEF Known
  <2> HIDE DEF event
  <2>4. /\ Same(r, q) /\ q.at = "write" /\ q.outbox = Told(r) \o <<event>>
        /\ q.deferred = {} /\ q.then = "on" /\ q.done = r.done /\ q.outcome = r.outcome
    BY <1>1, <2>1, EmitsFields
  <2>5. \A i \in DOMAIN Said(r) : Known(q, Said(r)[i]) /\ Said(r)[i] # event
    <3>1. ASSUME NEW e, Known(r, e) PROVE Known(q, e)
      <4>1. r.then # "return" /\ r.then \notin Final /\ q.then \notin {"boundary", "enter"}
        BY <1>3, <2>4 DEF Final
      <4>2. q.good = r.good /\ r.bad = q.bad /\ q.done \in Nat /\ r.done <= q.done
            /\ DOMAIN q = Fields
        BY <1>1, <2>4 DEF Same
      <4> QED
        BY <1>1, <2>4, <3>1, <4>1, <4>2, KnownGrows
    <3>2. ASSUME NEW e, Known(r, e) PROVE e # event
      BY <1>1, <1>3, <2>2, <3>2, KnownParts
    <3> QED
      BY <3>1, <3>2 DEF Tale
  <2>6. \A k \in r.deferred : event # NodeStarted(k) /\ event # NodeFinished(k, Word(r, k))
    BY <1>1, <2>2, NotTold
  <2>7. Known(q, event)
    BY <1>1, <2>3, <2>4
  <2>8. r.then \notin {"return", "closed"} /\ q.then # "settled" /\ q.done <= q.bill
    BY <1>1, <1>3, <2>4 DEF Counted, Same
  <2> QED
    BY <1>1, <2>2, <2>4, <2>5, <2>6, <2>7, <2>8, EmitsTale DEF Same
<1>4. CASE r.then \in {"enter", "on"} /\ ~(r.then = "enter" /\ IsMap)
  <2>1. q = GoesOn(r) /\ Looping(r)
    BY <1>1, <1>4 DEF Proceeds, Looping, Thens
  <2> QED
    BY <1>1, <2>1, GoesOnTale
<1>5. CASE r.then = "settled"
  <2>1. q = ItemDone(r) /\ r.done < r.bill
    BY <1>1, <1>5 DEF Proceeds, Counted
  <2> QED
    BY <1>1, <1>5, <2>1, ItemDoneTale
<1>6. CASE r.then = "closed"
  <2> DEFINE event == RunFinished(r.bill, r.outcome)
  <2>1. q = Emits(r, event, "return")
    BY <1>6 DEF Proceeds
  <2>2. event \in Events
    <3>1. r.bill \in Nat /\ r.outcome \in {"open", "ok", "failed"}
      BY <1>1 DEF Inner
    <3>2. r.outcome \in Words
      BY <3>1 DEF Words
    <3> QED
      BY <3>1, <3>2, EventTypes
  <2>3. r.deferred = {} /\ event[1] = "run_finished"
    BY <1>1, <1>6, EventParts DEF Inner, Final
  <2>4. \A x : x.then = "return" /\ x.bill = r.bill /\ x.outcome = r.outcome => Known(x, event)
    BY DEF Known
  <2> HIDE DEF event
  <2>5. /\ Same(r, q) /\ q.at = "write" /\ q.outbox = Told(r) \o <<event>>
        /\ q.deferred = {} /\ q.then = "return" /\ q.done = r.done /\ q.outcome = r.outcome
    BY <1>1, <2>1, EmitsFields
  <2>6. \A i \in DOMAIN Said(r) : Known(q, Said(r)[i]) /\ Said(r)[i] # event
    <3>1. ASSUME NEW e, Known(r, e) PROVE Known(q, e)
      <4>1. r.then # "return" /\ q.then \in Final /\ q.then \notin {"boundary", "enter"}
        BY <1>6, <2>5 DEF Final
      <4>2. q.good = r.good /\ r.bad = q.bad /\ q.done \in Nat /\ r.done <= q.done
            /\ DOMAIN q = Fields
        BY <1>1, <2>5 DEF Same
      <4> QED
        BY <1>1, <2>5, <3>1, <4>1, <4>2, KnownGrows
    <3>2. ASSUME NEW e, Known(r, e) PROVE e # event
      BY <1>1, <1>6, <2>3, <3>2, KnownParts
    <3> QED
      BY <3>1, <3>2 DEF Tale
  <2>7. \A k \in r.deferred : event # NodeStarted(k) /\ event # NodeFinished(k, Word(r, k))
    BY <2>3
  <2>8. Known(q, event) /\ q.then # "settled" /\ q.done <= q.bill /\ r.then # "return"
    BY <1>1, <1>6, <2>4, <2>5 DEF Counted, Same
  <2> QED
    BY <1>1, <2>2, <2>3, <2>5, <2>6, <2>7, <2>8, EmitsTale DEF Same
<1> QED
  BY <1>1, <1>2, <1>3, <1>4, <1>5, <1>6 DEF Thens

LEMMA SettledTale ==
    ASSUME node \in Nodes, NEW r, Memory(r), Tale(r), NEW q, q = Settled(r)
    PROVE  Tale(q)
  BY ProceedsTale DEF Settled

LEMMA FreshTale ==
    ASSUME node \in Nodes
    PROVE  Tale(Fresh)
<1> DEFINE f == Fresh
           o == <<RunStarted>>
<1>1. Len(o) = 1 /\ o[1] = RunStarted
  OBVIOUS
<1> HIDE DEF o
<1>2. /\ f.outbox = o /\ f.then = "boundary" /\ f.log = <<>>
      /\ f.good = {} /\ f.bad = {} /\ f.deferred = {}
      /\ f.done = 0 /\ f.outcome = "open" /\ f.bill = 0
  BY DEF Fresh, o
<1> HIDE DEF f
<1>3. Taken(f) = {} /\ Shown(f) = {} /\ Counted(f)
  BY <1>2, FS_EmptySet DEF Taken, Shown, Counted
<1>4. DOMAIN Said(f) = 1 .. 1 /\ Said(f)[1] = RunStarted
  <2>1. Len(f.log) = 0 /\ Len(f.outbox) = 1 /\ f.outbox[1] = RunStarted
    BY <1>1, <1>2
  <2>2. Said(f) = [i \in 1 .. Len(f.log) + Len(f.outbox) |->
                     IF i <= Len(f.log) THEN f.log[i] ELSE f.outbox[i - Len(f.log)]]
    BY DEF Said
  <2>3. Said(f) = [i \in 1 .. 0 + 1 |-> IF i <= 0 THEN f.log[i] ELSE f.outbox[i - 0]]
    BY <2>1, <2>2, Zenon
  <2>4. 1 .. 0 + 1 = 1 .. 1 /\ 1 \in 1 .. 0 + 1 /\ ~(1 <= 0) /\ 1 - 0 = 1
    OBVIOUS
  <2> QED
    BY <2>1, <2>3, <2>4
<1>5. Once(Said(f)) /\ Closing(Said(f))
  BY <1>4 DEF Once, Closing
<1>6. \A i \in DOMAIN Said(f) : Known(f, Said(f)[i])
  BY <1>4 DEF Known
<1> QED
  BY <1>3, <1>5, <1>6 DEF Tale, f


-----------------------------------------------------------------------------
(* The steps of the run, in one form.                                          *)

Acts(answer) ==
    /\ run.at \in Steps /\ Step(Answers(run), answer)
    /\ run' = After(run, answer)
    /\ stream' = (IF ~Replaying /\ run.at = "write" THEN Append(stream, Head(run.outbox))
                  ELSE stream)
    /\ branches' = (IF ~Replaying /\ run.at = "start"
                    THEN [branches EXCEPT ![run.started + 1] = "running"]
                    ELSE IF ~Replaying /\ run.at = "cancel"
                    THEN [k \in Kids |-> IF k \in run.pending /\ branches[k] = "running"
                                         THEN "cancelled" ELSE branches[k]]
                    ELSE branches)
    /\ (~Replaying /\ run.at = "result" => answer = branches[run.ticket])
    /\ UNCHANGED <<node, status, row, lister, backfilled, crashes, lost>>

LEMMA StepsAct ==
    ASSUME Boundary \/ WriteEvent \/ StartBranch \/ FirstFinished \/ Collect \/ CancelPending
    PROVE  \E answer : Acts(answer)
<1>1. CASE Boundary
  <2>1. Acts(0)
    BY <1>1 DEF Boundary, Acts, Step, Answers, After, Steps
  <2> QED
    BY <2>1
<1>2. CASE WriteEvent
  <2>1. Acts(0)
    BY <1>2 DEF WriteEvent, Acts, Step, Answers, After, Wrote, Steps
  <2> QED
    BY <2>1
<1>3. CASE StartBranch
  <2>1. Acts(0)
    BY <1>3 DEF StartBranch, Acts, Step, Answers, After, Began, Steps
  <2> QED
    BY <2>1
<1>4. CASE FirstFinished
  <2>1. PICK k \in run.pending :
            /\ Step({l \in run.pending : branches[l] \in Ends}, k)
            /\ run' = [Took(run) EXCEPT !.at = "result", !.ticket = k]
    BY <1>4 DEF FirstFinished
  <2>2. Acts(k)
    BY <1>4, <2>1 DEF FirstFinished, Acts, Step, Answers, After, Chose, Steps
  <2> QED
    BY <2>2
<1>5. CASE Collect
  <2>1. PICK end \in Ends : Step({branches[run.ticket]}, end) /\ run' = Collected(Took(run), run.ticket, end)
    BY <1>5 DEF Collect
  <2>2. Acts(end)
    BY <1>5, <2>1 DEF Collect, Acts, Step, Answers, After, Steps
  <2> QED
    BY <2>2
<1>6. CASE CancelPending
  <2>1. Acts(0)
    BY <1>6 DEF CancelPending, Acts, Step, Answers, After, Cancelled, Steps
  <2> QED
    BY <2>1
<1> QED
  BY <1>1, <1>2, <1>3, <1>4, <1>5, <1>6

-----------------------------------------------------------------------------
(* The stream.                                                                 *)

Begins(s, t) == Len(s) <= Len(t) /\ \A i \in 1 .. Len(s) : s[i] = t[i]

Written(h) ==
    /\ stream = h[Len(journal)].log
    /\ \A p \in 0 .. Len(journal) : Tale(h[p]) /\ Begins(h[p].log, stream)

LEMMA BeginsFacts ==
    ASSUME NEW s \in Seq(Events), NEW t \in Seq(Events), NEW e \in Events
    PROVE  /\ Begins(s, s) /\ Begins(<<>>, s)
           /\ (Begins(s, t) => Begins(s, Append(t, e)))
           /\ (Begins(s, t) /\ Len(t) <= Len(s) => s = t)
<1>1. Len(s) \in Nat /\ Len(t) \in Nat /\ DOMAIN s = 1 .. Len(s) /\ DOMAIN t = 1 .. Len(t)
  OBVIOUS
<1>2. Begins(s, s) /\ Begins(<<>>, s)
  BY <1>1 DEF Begins
<1>3. Begins(s, t) => Begins(s, Append(t, e))
  <2>1. Len(Append(t, e)) = Len(t) + 1 /\ \A i \in 1 .. Len(t) : Append(t, e)[i] = t[i]
    BY AppendProperties
  <2> QED
    BY <1>1, <2>1 DEF Begins
<1>4. Begins(s, t) /\ Len(t) <= Len(s) => s = t
  <2> SUFFICES ASSUME Begins(s, t), Len(t) <= Len(s) PROVE s = t
    OBVIOUS
  <2>1. Len(s) = Len(t)
    <3>1. \A a, b \in Nat : a <= b /\ b <= a => a = b
      OBVIOUS
    <3>2. Len(s) <= Len(t)
      BY DEF Begins
    <3> QED
      BY <1>1, <3>1, <3>2
  <2>2. \A i \in 1 .. Len(s) : s[i] = t[i]
    BY DEF Begins
  <2>3. s \in [1 .. Len(s) -> Events] /\ t \in [1 .. Len(s) -> Events]
    BY <1>1, <2>1
  <2> QED
    BY <2>2, <2>3
<1> QED
  BY <1>2, <1>3, <1>4

LEMMA TaleStays ==
    ASSUME node' = node, NEW CONSTANT r
    PROVE  (Tale(r))' <=> Tale(r)
<1>1. \A e : (Known(r, e))' <=> Known(r, e)
  BY DEF Known, ItemRecovered
<1> QED
  BY <1>1 DEF Tale

\* Where the journal ends.
LEMMA TipFacts ==
    ASSUME NEW h, Lives(h), Written(h)
    PROVE  /\ Len(journal) \in Nat /\ Memory(h[Len(journal)]) /\ Tale(h[Len(journal)])
           /\ stream = h[Len(journal)].log /\ stream \in Seq(Events)
<1>1. Len(journal) \in Nat
  BY DEF Lives
<1>2. Memory(h[Len(journal)]) /\ Tale(h[Len(journal)]) /\ stream = h[Len(journal)].log
  BY <1>1 DEF Lives, History, Written
<1> QED
  BY <1>1, <1>2 DEF Memory, Inner


\* A step of the run, and the history it leaves.
ActsOn(h, g, answer) ==
    /\ (Lives(g))' /\ (Written(g))' /\ answer \in Answers(run) /\ status = "PENDING"
    /\ \/ Replaying /\ UNCHANGED <<journal, stream, branches>> /\ g = h
       \/ /\ ~Replaying
          /\ Len(journal') = Len(journal) + 1
          /\ run = Settled(h[Len(journal)]) /\ Memory(run) /\ Tale(run)
          /\ run' = g[Len(journal')] /\ run' = After(run, answer) /\ Shifted(run, answer, run')
          /\ stream = run.log
          /\ journal' = Append(journal, [step |-> run.at, about |-> About(run), answer |-> answer])

LEMMA ActsMove ==
    ASSUME NEW h, Lives(h), Written(h), NEW answer, Acts(answer)
    PROVE  \E g : ActsOn(h, g, answer)
<1>0. /\ run.at \in Steps /\ Step(Answers(run), answer) /\ node' = node /\ node \in Nodes
      /\ run' = After(run, answer)
  BY DEF Acts, Lives
<1> DEFINE answers == Answers(run)
<1>1. Step(answers, answer) /\ answers \subseteq Answers(run)
  BY <1>0
<1> HIDE DEF answers
<1>2. /\ answer \in Answers(run) /\ status = "PENDING"
      /\ \E g : /\ (Lives(g))'
                /\ \/ Replaying /\ journal' = journal /\ g = h /\ run' = h[run.pos + 1]
                   \/ /\ ~Replaying /\ answer \in answers
                      /\ run = Settled(h[Len(journal)]) /\ Len(journal') = Len(journal) + 1
                      /\ g[Len(journal')] = run'
                      /\ \A p \in 0 .. Len(journal) : g[p] = h[p]
                      /\ journal' = Append(journal, [step |-> run.at, about |-> About(run),
                                                     answer |-> answer])
  BY <1>0, <1>1, StepAlong
<1>3. PICK g : /\ (Lives(g))'
               /\ \/ Replaying /\ journal' = journal /\ g = h /\ run' = h[run.pos + 1]
                  \/ /\ ~Replaying /\ answer \in answers
                     /\ run = Settled(h[Len(journal)]) /\ Len(journal') = Len(journal) + 1
                     /\ g[Len(journal')] = run'
                     /\ \A p \in 0 .. Len(journal) : g[p] = h[p]
                     /\ journal' = Append(journal, [step |-> run.at, about |-> About(run),
                                                    answer |-> answer])
  BY <1>2
<1>4. \A r : (Tale(r))' <=> Tale(r)
  BY <1>0, TaleStays
<1>5. CASE Replaying
  <2>1. UNCHANGED <<journal, stream, branches>> /\ g = h
    BY <1>3, <1>5 DEF Acts
  <2>2. (Written(h))'
    BY <1>4, <2>1 DEF Written
  <2> QED
    BY <1>2, <1>3, <1>5, <2>1, <2>2 DEF ActsOn
<1>6. CASE ~Replaying
  <2> DEFINE n == Len(journal)
             tip == h[n]
  <2>1. n \in Nat /\ Memory(tip) /\ Tale(tip) /\ stream = tip.log /\ stream \in Seq(Events)
    BY TipFacts
  <2>2. /\ run = Settled(tip) /\ Len(journal') = n + 1 /\ g[n + 1] = run'
        /\ \A p \in 0 .. n : g[p] = h[p]
    BY <1>3, <1>6
  <2> HIDE DEF n, tip
  <2>3. Memory(run) /\ run.log = tip.log /\ Tale(run)
    BY <1>0, <2>1, <2>2, SettledMemory, SettledTale
  <2>4. Memory(run') /\ Shifted(run, answer, run') /\ Tale(run')
    <3>1. PICK q : q = After(run, answer)
      OBVIOUS
    <3> QED
      BY <1>0, <1>2, <2>3, <3>1, MemoryAfter, AfterTale
  <2>5. stream' = run'.log
    BY <1>6, <2>1, <2>3, <2>4 DEF Acts, Shifted
  <2>6. stream' \in Seq(Events)
    BY <2>4, <2>5 DEF Memory, Inner
  <2>7. \A s \in Seq(Events) : Begins(s, stream) => Begins(s, stream')
    <3>1. CASE run.at = "write"
      <4>1. run.outbox \in Seq(Events) /\ run.outbox # <<>>
        BY <2>3, <3>1 DEF Memory
      <4> DEFINE o == run.outbox
      <4>2. Head(o) \in Events
        <5> HIDE DEF o
        <5>1. o \in Seq(Events) /\ o # <<>>
          BY <4>1 DEF o
        <5> QED
          BY <5>1, HeadTailProperties
      <4>3. stream' = Append(stream, Head(o))
        BY <1>6, <3>1 DEF Acts
      <4> QED
        BY <2>1, <4>2, <4>3, BeginsFacts
    <3>2. CASE run.at # "write"
      BY <3>2 DEF Acts
    <3> QED
      BY <3>1, <3>2
  <2>8. ASSUME NEW p \in 0 .. n + 1 PROVE Tale(g[p]) /\ Begins(g[p].log, stream')
    <3>1. CASE p = n + 1
      <4>1. g[p] = run' /\ g[p].log = stream'
        BY <2>2, <2>5, <3>1
      <4> QED
        BY <2>4, <2>6, <4>1, BeginsFacts, EventTypes
    <3>2. CASE p \in 0 .. n
      <4>1. g[p] = h[p] /\ Tale(h[p]) /\ Begins(h[p].log, stream) /\ h[p].log \in Seq(Events)
        BY <2>2, <3>2 DEF Written, Lives, History, Memory, Inner, n
      <4> QED
        BY <2>7, <4>1
    <3>3. p = n + 1 \/ p \in 0 .. n
      BY <2>1
    <3> QED
      BY <3>1, <3>2, <3>3
  <2>9. (Written(g))'
    <3>1. stream' = g[Len(journal')].log
      BY <2>2, <2>5
    <3>2. \A p \in 0 .. Len(journal') : (Tale(g[p]))' /\ Begins(g[p].log, stream')
      BY <1>4, <2>2, <2>8
    <3> QED
      BY <3>1, <3>2 DEF Written
  <2>10. stream = run.log
    BY <2>1, <2>3
  <2> QED
    BY <1>0, <1>2, <1>3, <1>6, <2>2, <2>3, <2>4, <2>9, <2>10 DEF ActsOn, n, tip
<1> QED
  BY <1>5, <1>6


\* Whatever else happens, the run stays on its history, starts it anew or is gone.
LEMMA StaysAlong ==
    ASSUME NEW h, Lives(h), Written(h), UNCHANGED <<node, journal, stream>>,
           \/ run' \in {run, Gone, Fresh}
           \/ run.at = "project" /\ run' = Proceeds(run)
    PROVE  (Lives(h))' /\ (Written(h))'
<1>0. node \in Nodes /\ Len(journal) \in Nat
  BY DEF Lives
<1>1. \A r, a : /\ (Memory(r))' <=> Memory(r)
                /\ (Settled(r))' = Settled(r)
                /\ (After(r, a))' = After(r, a)
  BY NodeStays
<1>2. \A r : (Tale(r))' <=> Tale(r)
  BY TaleStays
<1>3. (History(h))'
  <2>1. \A r, q, entry : (Turn(r, entry, q))' <=> Turn(r, entry, q)
    BY <1>1 DEF Turn
  <2> QED
    BY <1>1, <2>1 DEF History, Lives
<1>4. (Written(h))'
  BY <1>2 DEF Written
<1>5. (Along(h))'
  <2>1. CASE run' = run
    BY <1>1, <2>1 DEF Along, Lives
  <2>2. CASE run' = Gone
    BY <2>2 DEF Along
  <2>3. CASE run' = Fresh
    <3>1. run' = h[0] /\ 0 \in 0 .. Len(journal) /\ run'.pos = 0
      BY <1>0, <2>3, FreshMemory DEF Lives, History
    <3> QED
      BY <3>1 DEF Along
  <2>4. CASE run.at = "project" /\ run' = Proceeds(run)
    <3>1. run # Gone
      BY <2>4, GoneFields
    <3>2. run.pos \in 0 .. Len(journal) /\ run \in {h[run.pos], Settled(h[run.pos])}
      BY <3>1 DEF Lives, Along
    <3> DEFINE p == run.pos
    <3>3. Memory(h[p]) /\ h[p].pos = p
      BY <3>2 DEF Lives, History
    <3> HIDE DEF p
    <3>4. run = h[p]
      BY <1>0, <2>4, <3>2, <3>3, SettledMemory DEF p
    <3>5. run' = Settled(h[p])
      BY <2>4, <3>4 DEF Settled
    <3>6. run'.pos = p
      BY <1>0, <3>3, <3>5, SettledMemory
    <3> QED
      BY <1>1, <3>2, <3>5, <3>6 DEF Along, p
  <2> QED
    BY <2>1, <2>2, <2>3, <2>4
<1> QED
  BY <1>3, <1>4, <1>5 DEF Lives

-----------------------------------------------------------------------------
(* The branches.                                                               *)

BranchWords == Ends \cup {"unborn", "running", "cancelled"}

\* What the memory r knows of the branches is true.
Branching(r) ==
    /\ branches \in [Kids -> BranchWords]
    /\ \A k \in Kids : branches[k] = "running" => k \in r.pending /\ status = "PENDING"
    /\ \A k \in Kids : k > r.started => branches[k] = "unborn"
    /\ \A k \in r.good : branches[k] = "ok"
    /\ \A k \in r.bad : branches[k] = "failed"

\* So is what the journal tells of their results.
Results(r) ==
    /\ \A i \in DOMAIN journal : journal[i].step = "result" =>
          \E k \in Kids : /\ journal[i].about = <<k>> /\ journal[i].answer = branches[k]
                          /\ branches[k] \in Ends
    /\ \A k \in Taken(r) : \E i \in DOMAIN journal :
          journal[i].step = "result" /\ journal[i].about = <<k>>
    /\ \A i \in DOMAIN journal : \A k \in Kids :
          /\ journal[i].step = "result" /\ journal[i].about = <<k>>
          /\ journal[i].answer # "error"
          => k \in Taken(r)

\* A branch that ended stays as it ended.
LEMMA EndsStay ==
    ASSUME NEW r, Branching(r), node' = node,
           DOMAIN branches' = Kids,
           \A k \in Kids : branches[k] \in Ends => branches'[k] = branches[k],
           UNCHANGED journal, Results(r)
    PROVE  (Results(r))'
<1>1. Kids' = Kids
  BY DEF Kids
<1> QED
  BY <1>1 DEF Results, Taken, Branching

LEMMA EndWords ==
    Ends \cap {"unborn", "running", "cancelled"} = {}
  BY EndsAssumption

LEMMA BranchingSame ==
    ASSUME NEW r, NEW q, q.pending = r.pending, q.started = r.started,
           q.good = r.good, q.bad = r.bad
    PROVE  /\ Branching(q) <=> Branching(r)
           /\ Results(q) <=> Results(r)
  BY DEF Branching, Results, Taken


\* One more entry in the journal.
LEMMA ResultsGrow ==
    ASSUME NEW r, Branching(r), Results(r), node' = node, \E S : journal \in Seq(S),
           NEW entry, journal' = Append(journal, entry),
           DOMAIN branches' = Kids,
           \A k \in Kids : branches[k] \in Ends => branches'[k] = branches[k],
           NEW q,
           \/ entry.step # "result" /\ Taken(q) = Taken(r)
           \/ \E k \in Kids :
                /\ entry.step = "result" /\ entry.about = <<k>> /\ entry.answer = branches[k]
                /\ branches[k] \in Ends
                /\ Taken(q) = IF entry.answer = "error" THEN Taken(r) ELSE Taken(r) \cup {k}
    PROVE  (Results(q))'
<1>1. Kids' = Kids
  BY DEF Kids
<1> DEFINE n == Len(journal)
<1>2. /\ n \in Nat /\ DOMAIN journal = 1 .. n /\ DOMAIN journal' = 1 .. n + 1
      /\ journal'[n + 1] = entry /\ \A i \in 1 .. n : journal'[i] = journal[i]
  <2>1. PICK S : journal \in Seq(S)
    OBVIOUS
  <2>2. journal \in Seq(S \cup {entry}) /\ entry \in S \cup {entry}
    BY <2>1
  <2> QED
    BY <2>2, AppendProperties
<1> HIDE DEF n
<1>3. \A i \in 1 .. n + 1 : i \in 1 .. n \/ i = n + 1
  BY <1>2
<1>4. 1 .. n \subseteq 1 .. n + 1 /\ n + 1 \in 1 .. n + 1
  BY <1>2
<1>5. Taken(r) \subseteq Taken(q)
  OBVIOUS
<1>6. ASSUME NEW i \in 1 .. n + 1, journal'[i].step = "result"
      PROVE  \E k \in Kids : /\ journal'[i].about = <<k>> /\ journal'[i].answer = branches'[k]
                             /\ branches'[k] \in Ends
  <2>1. CASE i \in 1 .. n
    <3>1. journal[i].step = "result" /\ journal'[i] = journal[i]
      BY <1>2, <1>6, <2>1
    <3>2. PICK k \in Kids : /\ journal[i].about = <<k>> /\ journal[i].answer = branches[k]
                            /\ branches[k] \in Ends
      BY <1>2, <2>1, <3>1 DEF Results
    <3> QED
      BY <3>1, <3>2
  <2>2. CASE i = n + 1
    BY <1>2, <1>6, <2>2
  <2> QED
    BY <1>3, <2>1, <2>2
<1>7. ASSUME NEW x \in Taken(q)
      PROVE  \E i \in 1 .. n + 1 : journal'[i].step = "result" /\ journal'[i].about = <<x>>
  <2>1. CASE x \in Taken(r)
    <3>1. PICK i \in 1 .. n : journal[i].step = "result" /\ journal[i].about = <<x>>
      BY <1>2, <2>1 DEF Results
    <3> QED
      BY <1>2, <1>4, <3>1
  <2>2. CASE x \notin Taken(r)
    BY <1>2, <1>4, <1>7, <2>2
  <2> QED
    BY <2>1, <2>2
<1>8. ASSUME NEW i \in 1 .. n + 1, NEW x \in Kids,
             journal'[i].step = "result", journal'[i].about = <<x>>, journal'[i].answer # "error"
      PROVE  x \in Taken(q)
  <2>1. CASE i \in 1 .. n
    BY <1>2, <1>5, <1>8, <2>1 DEF Results
  <2>2. CASE i = n + 1
    BY <1>2, <1>8, <2>2
  <2> QED
    BY <1>3, <2>1, <2>2
<1> QED
  BY <1>1, <1>2, <1>6, <1>7, <1>8 DEF Results, Taken

LEMMA ActsBranching ==
    ASSUME NEW h, Lives(h), Written(h), Branching(h[Len(journal)]), Results(h[Len(journal)]),
           NEW answer, Acts(answer), NEW g, ActsOn(h, g, answer)
    PROVE  (Branching(g[Len(journal)]))' /\ (Results(g[Len(journal)]))'
<1>0. node' = node /\ status' = status /\ node \in Nodes /\ run.at \in Steps
      /\ \E S : journal \in Seq(S)
  BY DEF Acts, Lives
<1>1. Kids' = Kids /\ Kids = 1 .. node.width /\ node.width \in Nat
  BY <1>0, NodesAssumption DEF Kids, FanNodes, ParallelNodes, MapNodes
<1>2. CASE Replaying
  <2>1. UNCHANGED <<journal, branches>> /\ g = h
    BY <1>2 DEF ActsOn
  <2> QED
    BY <1>0, <1>1, <2>1 DEF Branching, Results, Taken
<1>3. CASE ~Replaying
  <2>1. /\ run = Settled(h[Len(journal)]) /\ Memory(run) /\ run' = g[Len(journal')]
        /\ Shifted(run, answer, run') /\ answer \in Answers(run) /\ status = "PENDING"
        /\ journal' = Append(journal, [step |-> run.at, about |-> About(run), answer |-> answer])
    BY <1>3 DEF ActsOn
  <2>2. PICK r : r = run
    OBVIOUS
  <2>3. PICK q : q = run'
    OBVIOUS
  <2>4. Branching(r) /\ Results(r)
    <3>1. Memory(h[Len(journal)])
      BY TipFacts
    <3> QED
      BY <1>0, <2>1, <2>2, <3>1, SettledMemory, BranchingSame
  <2> DEFINE entry == [step |-> run.at, about |-> About(run), answer |-> answer]
  <2>5. /\ entry.step = r.at /\ entry.answer = answer
        /\ (r.at = "result" => entry.about = <<r.ticket>>)
    BY <2>2 DEF About
  <2>6. journal' = Append(journal, entry)
    BY <2>1
  <2> HIDE DEF entry
  <2>7. /\ r.pending \subseteq 1 .. r.started /\ Taken(r) \subseteq 1 .. r.started
        /\ r.pending \cap Taken(r) = {} /\ r.started \in Nat /\ r.started <= node.width
        /\ (r.at = "start" => r.started < node.width)
        /\ (r.at = "result" => r.ticket \in r.pending)
    BY <1>1, <2>1, <2>2 DEF Memory, Inner
  <2>8. Shifted(r, answer, q) /\ answer \in Answers(r)
    BY <2>1, <2>2, <2>3
  <2>9. branches \in [Kids -> BranchWords]
    BY <2>4 DEF Branching
  <2>10. CASE r.at \in {"boundary", "write", "first"}
    <3>1. branches' = branches
      BY <1>3, <2>2, <2>10 DEF Acts
    <3>2. q.pending = r.pending /\ q.started = r.started /\ q.good = r.good /\ q.bad = r.bad
      BY <2>8, <2>10 DEF Shifted
    <3>3. (Branching(q))'
      BY <1>0, <1>1, <2>4, <3>1, <3>2 DEF Branching
    <3>4. (Results(q))'
      BY <1>0, <2>4, <2>5, <2>6, <2>9, <2>10, <3>1, <3>2, ResultsGrow DEF Taken
    <3> QED
      BY <2>1, <2>3, <3>3, <3>4
  <2>11. CASE r.at = "start"
    <3> DEFINE k == r.started + 1
    <3>1. branches' = [branches EXCEPT ![k] = "running"]
      BY <1>3, <2>2, <2>11 DEF Acts
    <3>2. /\ q.pending = r.pending \cup {k} /\ q.started = k /\ q.good = r.good /\ q.bad = r.bad
      BY <2>8, <2>11 DEF Shifted
    <3>3. k \in Kids /\ k \notin Taken(r) /\ branches[k] = "unborn" /\ k > r.started
      BY <1>1, <2>4, <2>7, <2>11 DEF Branching
    <3>4. \A x \in Kids : x > k => x > r.started
      BY <1>1, <2>7
    <3> HIDE DEF k
    <3>5. /\ branches' \in [Kids -> BranchWords] /\ branches'[k] = "running"
          /\ \A x \in Kids : x # k => branches'[x] = branches[x]
      BY <2>9, <3>1, <3>3 DEF BranchWords
    <3>6. (Branching(q))'
      <4>1. \A x \in Kids : branches'[x] = "running" => x \in q.pending /\ status' = "PENDING"
        BY <1>0, <2>1, <2>4, <3>2, <3>5 DEF Branching
      <4>2. \A x \in Kids : x > q.started => branches'[x] = "unborn"
        <5>1. \A x \in Kids : x > k => x # k
          BY <1>1, <3>3
        <5> QED
          BY <2>4, <3>2, <3>4, <3>5, <5>1 DEF Branching
      <4>3. (\A x \in q.good : branches'[x] = "ok") /\ (\A x \in q.bad : branches'[x] = "failed")
        <5>1. \A x \in Taken(r) : x \in Kids /\ x # k
          BY <1>1, <2>7, <3>3
        <5> QED
          BY <2>4, <3>2, <3>5, <5>1 DEF Branching, Taken
      <4> QED
        BY <1>1, <3>5, <4>1, <4>2, <4>3 DEF Branching, BranchWords
    <3>7. (Results(q))'
      <4>1. \A x \in Kids : branches[x] \in Ends => branches'[x] = branches[x]
        BY <3>3, <3>5, EndWords
      <4>2. DOMAIN branches' = Kids /\ Taken(q) = Taken(r) /\ entry.step # "result"
        BY <2>5, <2>11, <3>2, <3>5 DEF Taken
      <4> QED
        BY <1>0, <2>4, <2>6, <4>1, <4>2, ResultsGrow
    <3> QED
      BY <2>1, <2>3, <3>6, <3>7
  <2>12. CASE r.at = "result"
    <3> DEFINE k == r.ticket
    <3>1. branches' = branches /\ answer = branches[k]
      BY <1>3, <2>2, <2>12 DEF Acts
    <3>2. /\ q.pending = r.pending \ {k} /\ q.started = r.started
          /\ q.good = (IF answer = "ok" THEN r.good \cup {k} ELSE r.good)
          /\ q.bad = (IF answer = "failed" THEN r.bad \cup {k} ELSE r.bad)
      BY <2>8, <2>12 DEF Shifted
    <3>3. k \in Kids /\ answer \in Ends /\ entry.about = <<k>>
      BY <1>1, <2>5, <2>7, <2>8, <2>12 DEF Answers
    <3>4. answer \in {"ok", "failed", "error"} /\ answer # "running"
      BY <3>3, EndsAssumption
    <3>5. Taken(q) = IF answer = "error" THEN Taken(r) ELSE Taken(r) \cup {k}
      BY <3>2, <3>4 DEF Taken
    <3> HIDE DEF k
    <3>6. (Branching(q))'
      <4>1. \A x \in Kids : branches[x] = "running" => x \in q.pending
        BY <2>4, <3>1, <3>2, <3>4 DEF Branching
      <4>2. (\A x \in q.good : branches[x] = "ok") /\ (\A x \in q.bad : branches[x] = "failed")
        BY <2>4, <3>1, <3>2 DEF Branching
      <4> QED
        BY <1>0, <1>1, <2>4, <3>1, <3>2, <4>1, <4>2 DEF Branching
    <3>7. (Results(q))'
      <4>1. \E x \in Kids :
                /\ entry.step = "result" /\ entry.about = <<x>> /\ entry.answer = branches[x]
                /\ branches[x] \in Ends
                /\ Taken(q) = IF entry.answer = "error" THEN Taken(r) ELSE Taken(r) \cup {x}
        BY <2>5, <2>12, <3>1, <3>3, <3>5
      <4> QED
        BY <1>0, <2>4, <2>6, <2>9, <3>1, <4>1, ResultsGrow
    <3> QED
      BY <2>1, <2>3, <3>6, <3>7
  <2>13. CASE r.at = "cancel"
    <3>1. branches' = [k \in Kids |-> IF k \in r.pending /\ branches[k] = "running"
                                      THEN "cancelled" ELSE branches[k]]
      BY <1>3, <2>2, <2>13 DEF Acts
    <3>2. q.pending = {} /\ q.started = r.started /\ q.good = r.good /\ q.bad = r.bad
      BY <2>8, <2>13 DEF Shifted
    <3>3. /\ branches' \in [Kids -> BranchWords]
          /\ \A k \in Kids : branches[k] # "running" => branches'[k] = branches[k]
          /\ \A k \in Kids : branches[k] = "running" => branches'[k] = "cancelled"
      BY <2>4, <2>9, <3>1 DEF Branching, BranchWords
    <3>4. (Branching(q))'
      <4>1. \A x \in Taken(r) : x \in Kids
        BY <1>1, <2>7
      <4>2. /\ \A x \in q.good : branches'[x] = "ok"
            /\ \A x \in q.bad : branches'[x] = "failed"
        BY <2>4, <3>2, <3>3, <4>1 DEF Branching, Taken
      <4>3. \A x \in Kids : branches'[x] # "running"
        BY <3>3
      <4>4. \A x \in Kids : x > q.started => branches'[x] = "unborn"
        BY <2>4, <3>2, <3>3 DEF Branching
      <4> QED
        BY <1>1, <3>3, <4>2, <4>3, <4>4 DEF Branching, BranchWords
    <3>5. (Results(q))'
      <4>1. \A x \in Kids : branches[x] \in Ends => branches'[x] = branches[x]
        BY <3>3, EndWords
      <4>2. DOMAIN branches' = Kids /\ Taken(q) = Taken(r) /\ entry.step # "result"
        BY <2>5, <2>13, <3>2, <3>3 DEF Taken
      <4> QED
        BY <1>0, <2>4, <2>6, <4>1, <4>2, ResultsGrow
    <3> QED
      BY <2>1, <2>3, <3>4, <3>5
  <2> QED
    BY <1>0, <2>2, <2>10, <2>11, <2>12, <2>13 DEF Steps
<1> QED
  BY <1>2, <1>3


-----------------------------------------------------------------------------
(* How a node decides. A branch that raised ends it without a verdict, so what *)
(* follows is of runs none of whose branches did.                              *)

LEMMA NodeFacts ==
    ASSUME node \in Nodes
    PROVE  /\ node.width \in Nat /\ node.minOk \in Nat /\ node.concurrency \in Nat
           /\ (IsMap => node.policy \in ItemPolicies)
           /\ (~IsMap => node.policy \in JoinPolicies /\ node.width # 0 /\ Limit = node.width)
           /\ (IsMap => Limit = IF node.concurrency # 0 THEN node.concurrency ELSE node.width)
<1>1. CASE node \in ParallelNodes
  BY <1>1 DEF ParallelNodes, IsMap, Limit
<1>2. CASE node \in MapNodes
  BY <1>2 DEF MapNodes, IsMap, Limit
<1> QED
  BY <1>1, <1>2, NodesAssumption DEF FanNodes

\* Every failure the map goes on after has been told.
Recovered(r) == \A k \in r.bad : \E i \in DOMAIN Said(r) : Said(r)[i] = ItemRecovered(k)

\* What the branches taken so far leave open.
Undecided(r) ==
    /\ node.policy \in {"all", "any", "quorum_fail", "fail"} => r.bad = {}
    /\ node.policy \in {"any", "first_success"} => r.good = {}
    /\ node.policy \in {"skip", "default"} => Recovered(r)

\* Every branch started is pending or taken, and a parallel node takes none
\* before it has started all.
Even(r) ==
    /\ r.pending \cup Taken(r) = 1 .. r.started
    /\ (~IsMap => r.then \notin {"on", "settled"} /\ (Taken(r) # {} => r.started = node.width))

Open(r) ==
    /\ r.then \notin Final /\ Even(r) /\ Undecided(r)
    /\ (r.then = "boundary" \/ (r.then = "enter" /\ r.at \notin Loops) => r.started = 0)
    /\ (~IsMap /\ r.at \in {"first", "result"} => r.started = node.width)

\* What an outcome says of the branches taken.
Verdict(r, word) ==
    /\ node.policy \in {"all", "fail"} => IF word = "ok" THEN r.good = Kids ELSE r.bad # {}
    /\ node.policy = "any" =>
          IF word = "ok" THEN r.good # {} /\ r.bad = {} ELSE r.bad # {} /\ r.good = {}
    /\ node.policy = "first_success" => IF word = "ok" THEN r.good # {} ELSE r.bad = Kids
    /\ node.policy = "quorum_skip" =>
          IF word = "ok" THEN Enough(r) ELSE node.width - Cardinality(r.bad) < node.minOk
    /\ node.policy = "quorum_fail" =>
          IF word = "ok" THEN Enough(r) /\ r.bad = {}
          ELSE r.bad # {} \/ node.width < node.minOk
    /\ node.policy \in {"skip", "default"} => word = "ok" /\ Taken(r) = Kids /\ Recovered(r)

Judged(r) ==
    IF r.outcome = "open" THEN Open(r)
    ELSE Verdict(r, r.outcome) /\ (r.at = "cancel" \/ r.then \in Final)

\* An emit takes nothing back.
LEMMA SaidGrows ==
    ASSUME NEW r, Silent(r), NEW event \in Events,
           NEW q, q.log = r.log, q.outbox = Told(r) \o <<event>>
    PROVE  /\ \A i \in DOMAIN Said(r) : i \in DOMAIN Said(q) /\ Said(q)[i] = Said(r)[i]
           /\ \E i \in DOMAIN Said(q) : Said(q)[i] = event
<1> DEFINE t == Told(r)
           L == Len(r.log)
           m == Len(t)
<1>1. t \in Seq(Events) /\ m \in Nat
  BY ToldOnce DEF Silent
<1>2. /\ L \in Nat /\ DOMAIN Said(r) = 1 .. L
      /\ \A i \in 1 .. L : Said(r)[i] = r.log[i] /\ Said(q)[i] = r.log[i]
      /\ DOMAIN Said(q) = 1 .. L + m + 1
      /\ \A i \in 1 .. m : Said(q)[L + i] = t[i]
      /\ Said(q)[L + m + 1] = event
  BY SaidEmits DEF Silent
<1> HIDE DEF t, L, m
<1>3. L + m + 1 \in 1 .. L + m + 1 /\ 1 .. L \subseteq 1 .. L + m + 1
  BY <1>1, <1>2
<1> QED
  BY <1>2, <1>3

LEMMA RecoveredGrows ==
    ASSUME NEW r, Silent(r), NEW event \in Events,
           NEW q, q.log = r.log, q.outbox = Told(r) \o <<event>>, q.bad = r.bad,
           \A k \in r.bad : ItemRecovered(k) = event \/ \E i \in DOMAIN Said(r) : Said(r)[i] = ItemRecovered(k)
    PROVE  Recovered(q)
<1>1. /\ \A i \in DOMAIN Said(r) : i \in DOMAIN Said(q) /\ Said(q)[i] = Said(r)[i]
      /\ \E i \in DOMAIN Said(q) : Said(q)[i] = event
  BY SaidGrows
<1> QED
  BY <1>1 DEF Recovered

\* Verdicts and openness depend on few fields.
LEMMA VerdictKept ==
    ASSUME NEW r, NEW q, q.good = r.good, q.bad = r.bad, Recovered(r) => Recovered(q), NEW word
    PROVE  /\ (Verdict(r, word) => Verdict(q, word))
           /\ (Undecided(r) => Undecided(q))
  BY DEF Verdict, Undecided, Taken, Enough

LEMMA LeavesJudged ==
    ASSUME node \in Nodes, NEW r, Silent(r), Looping(r), NEW word \in {"ok", "failed"},
           Verdict(r, word), NEW q, q = Leaves(r, word)
    PROVE  Judged(q)
<1>0. Inner(r) /\ DOMAIN r = Fields
  BY DEF Silent, Inner
<1>1. /\ Same(r, q) /\ q.outcome = word /\ q.done = r.done
      /\ r.pending = {} =>
           /\ q.at = "write" /\ q.outbox = Told(r) \o <<NodeFinished(Fan, word)>>
           /\ q.deferred = {} /\ q.then = "closed"
      /\ r.pending # {} =>
           q.at = "cancel" /\ q.outbox = r.outbox /\ q.deferred = r.deferred /\ q.then = r.then
  BY <1>0, LeavesFields
<1>2. q.good = r.good /\ q.bad = r.bad /\ q.log = r.log
  BY <1>1 DEF Same
<1>3. CASE r.pending = {}
  <2> DEFINE event == NodeFinished(Fan, word)
  <2>1. event \in Events
    <3>1. word \in Words /\ Fan \in Int
      <4>1. \A w \in {"ok", "failed"} : w \in Words
        BY DEF Words
      <4> QED
        BY <4>1 DEF Fan
    <3> QED
      BY <3>1, EventTypes
  <2>2. q.outbox = Told(r) \o <<event>>
    BY <1>1, <1>3
  <2> HIDE DEF event
  <2>3. Recovered(r) => Recovered(q)
    BY <1>2, <2>1, <2>2, RecoveredGrows DEF Recovered
  <2>4. Verdict(q, word)
    BY <1>2, <2>3, VerdictKept
  <2> QED
    BY <1>1, <1>3, <2>4 DEF Judged, Final
<1>4. CASE r.pending # {}
  <2>1. Recovered(r) => Recovered(q)
    BY <1>1, <1>2, <1>4, SaidSame DEF Recovered
  <2>2. Verdict(q, word)
    BY <1>2, <2>1, VerdictKept
  <2> QED
    BY <1>1, <1>4, <2>2 DEF Judged
<1> QED
  BY <1>3, <1>4


\* On to the next await: only a map comes to its end here.
LEMMA GoesOnJudged ==
    ASSUME node \in Nodes, NEW r, Silent(r), Looping(r), r.outcome = "open",
           Even(r), Undecided(r), ~IsMap => r.pending # {} \/ r.started < node.width,
           NEW q, q = GoesOn(r)
    PROVE  Judged(q)
<1>0. /\ DOMAIN r = Fields /\ r.started \in 0 .. node.width /\ r.then \in {"enter", "on"}
      /\ r.pending \subseteq 1 .. r.started /\ r.pending \cap Taken(r) = {}
  BY DEF Silent, Inner, Looping
<1>1. node.width \in Nat /\ Kids = 1 .. node.width
  BY NodeFacts DEF Kids
<1>2. Cardinality({}) = 0 /\ Cardinality(1 .. r.started) = r.started
  BY <1>0, <1>1, FS_EmptySet, FS_Interval
<1>3. CASE r.started < node.width /\ Cardinality(r.pending) < Limit
  <2>1. q = [r EXCEPT !.at = "start"]
    BY <1>3 DEF GoesOn
  <2>2. q.at = "start" /\ \A f \in Fields \ {"at"} : q[f] = r[f]
    BY <1>0, <2>1 DEF Fields
  <2>3. Recovered(r) => Recovered(q)
    BY <2>2, SaidSame DEF Recovered, Fields
  <2>4. Undecided(q) /\ Even(q) /\ q.outcome = "open" /\ q.then \in {"enter", "on"}
    BY <1>0, <2>2, <2>3, VerdictKept DEF Even, Taken, Fields
  <2> QED
    BY <2>2, <2>4 DEF Judged, Open, Final, Loops
<1>4. CASE ~(r.started < node.width /\ Cardinality(r.pending) < Limit) /\ r.pending = {}
  <2>1. IsMap
    <3>1. SUFFICES ASSUME ~IsMap PROVE FALSE
      OBVIOUS
    <3> QED
      BY <1>0, <1>1, <1>2, <1>4, <3>1, NodeFacts
  <2>2. r.started = node.width
    <3>1. SUFFICES ASSUME r.started < node.width PROVE FALSE
      BY <1>0, <1>1
    <3>2. Limit \in Nat /\ Limit > 0
      BY <1>0, <1>1, <2>1, <3>1, NodeFacts
    <3> QED
      BY <1>2, <1>4, <3>1, <3>2
  <2>3. Taken(r) = Kids
    BY <1>1, <1>4, <2>2 DEF Even
  <2>4. Verdict(r, "ok")
    BY <2>1, <2>3, NodeFacts DEF Verdict, Undecided, ItemPolicies, Taken
  <2>5. q = Leaves(r, "ok")
    BY <1>4, <2>1 DEF GoesOn
  <2> QED
    BY <2>4, <2>5, LeavesJudged
<1>5. CASE ~(r.started < node.width /\ Cardinality(r.pending) < Limit) /\ r.pending # {}
  <2>1. /\ q.at \in {"first", "result"} /\ \A f \in Fields \ {"at", "ticket"} : q[f] = r[f]
    BY <1>0, <1>5 DEF GoesOn, Fields
  <2>2. ~IsMap => r.started = node.width
    <3>1. SUFFICES ASSUME ~IsMap, r.started < node.width PROVE FALSE
      BY <1>0, <1>1
    <3>2. Taken(r) = {} /\ Limit = node.width
      BY <1>1, <3>1, NodeFacts DEF Even
    <3>3. r.pending = 1 .. r.started
      BY <3>2 DEF Even
    <3> QED
      BY <1>2, <1>5, <3>1, <3>2, <3>3
  <2>3. Recovered(r) => Recovered(q)
    BY <2>1, SaidSame DEF Recovered, Fields
  <2>4. Undecided(q) /\ Even(q) /\ q.outcome = "open" /\ q.then \in {"enter", "on"}
    BY <1>0, <2>1, <2>3, VerdictKept DEF Even, Taken, Fields
  <2> QED
    BY <2>1, <2>2, <2>4 DEF Judged, Open, Final, Loops, Fields
<1> QED
  BY <1>3, <1>4, <1>5

LEMMA ItemDoneJudged ==
    ASSUME node \in Nodes, IsMap, NEW r, Silent(r), r.outcome = "open",
           r.then \in {"on", "settled"}, Even(r), Undecided(r), NEW q, q = ItemDone(r)
    PROVE  Judged(q)
<1>0. DOMAIN r = Fields /\ r.done \in Nat
  BY DEF Silent, Inner
<1>1. /\ Same(r, q) /\ q.at = "write" /\ q.outbox = Told(r) \o <<Progress(r.done + 1)>>
      /\ q.deferred = {} /\ q.then = "on" /\ q.done = r.done + 1 /\ q.outcome = r.outcome
  BY <1>0, ItemDoneFields
<1> DEFINE event == Progress(r.done + 1)
<1>2. event \in Events /\ q.outbox = Told(r) \o <<event>>
  BY <1>0, <1>1, EventTypes
<1> HIDE DEF event
<1>3. Recovered(r) => Recovered(q)
  BY <1>1, <1>2, RecoveredGrows DEF Recovered, Same
<1>4. Undecided(q)
  BY <1>1, <1>3, VerdictKept DEF Same
<1> QED
  BY <1>1, <1>4 DEF Judged, Open, Even, Taken, Same, Final

\* A map goes on after an item that succeeded, or that failed and is made up for.
LEMMA ItemSettledJudged ==
    ASSUME node \in Nodes, IsMap, NEW r, Silent(r), Looping(r), r.outcome = "open",
           Even(r), NEW k \in Int, k \in r.good \cup r.bad,
           node.policy = "fail" => r.bad \subseteq {k},
           node.policy # "fail" => \A x \in r.bad \ {k} :
                \E i \in DOMAIN Said(r) : Said(r)[i] = ItemRecovered(x),
           NEW q, q = ItemSettled(r, k)
    PROVE  Judged(q)
<1>0. Inner(r) /\ DOMAIN r = Fields /\ r.then = "on" /\ r.good \cap r.bad = {}
  BY DEF Silent, Inner, Looping
<1>1. node.policy \in {"skip", "default", "fail"}
  BY NodeFacts DEF ItemPolicies
<1>2. CASE k \in r.good
  <2>1. q = ItemDone(r)
    BY <1>2 DEF ItemSettled
  <2>2. Undecided(r)
    BY <1>0, <1>1, <1>2 DEF Undecided, Recovered
  <2> QED
    BY <1>0, <2>1, <2>2, ItemDoneJudged
<1>3. CASE k \notin r.good /\ node.policy = "fail"
  <2>1. q = Leaves(r, "failed")
    BY <1>3 DEF ItemSettled
  <2>2. Verdict(r, "failed")
    BY <1>3 DEF Verdict
  <2> QED
    BY <2>1, <2>2, LeavesJudged
<1>4. CASE k \notin r.good /\ node.policy # "fail"
  <2> DEFINE event == ItemRecovered(k)
  <2>1. q = Emits(r, event, "settled")
    BY <1>4 DEF ItemSettled
  <2>2. event \in Events
    BY EventTypes
  <2>3. \A x \in r.bad : ItemRecovered(x) = event \/ \E i \in DOMAIN Said(r) : Said(r)[i] = ItemRecovered(x)
    BY <1>4
  <2> HIDE DEF event
  <2>4. /\ Same(r, q) /\ q.at = "write" /\ q.outbox = Told(r) \o <<event>>
        /\ q.deferred = {} /\ q.then = "settled" /\ q.done = r.done /\ q.outcome = r.outcome
    BY <1>0, <2>1, EmitsFields
  <2>5. Recovered(q)
    BY <2>2, <2>3, <2>4, RecoveredGrows DEF Same
  <2>6. Undecided(q)
    BY <1>1, <1>4, <2>5 DEF Undecided
  <2> QED
    BY <2>4, <2>6 DEF Judged, Open, Even, Taken, Same, Final
<1> QED
  BY <1>2, <1>3, <1>4

\* The policies of a parallel node, once all its branches are started.
LEMMA BranchJoinedJudged ==
    ASSUME node \in Nodes, ~IsMap, NEW r, Silent(r), Looping(r), r.outcome = "open",
           Even(r), r.started = node.width, Taken(r) # {},
           node.policy = "any" => r.good = {} \/ r.bad = {},
           NEW q, q = BranchJoined(r)
    PROVE  Judged(q)
<1>0. /\ r.pending \cap Taken(r) = {} /\ r.good \cap r.bad = {} /\ node.policy \in JoinPolicies
      /\ node.width \in Nat /\ node.minOk \in Nat /\ Kids = 1 .. node.width
      /\ r.pending \cup Taken(r) = Kids
  BY NodeFacts DEF Silent, Inner, Even, Kids
<1>1. /\ IsFiniteSet(r.pending) /\ IsFiniteSet(r.good) /\ IsFiniteSet(r.bad)
      /\ Cardinality(r.pending) \in Nat /\ Cardinality(r.good) \in Nat /\ Cardinality(r.bad) \in Nat
      /\ Cardinality(r.good) + Cardinality(r.bad) + Cardinality(r.pending) = node.width
  <2>1. IsFiniteSet(Kids) /\ Cardinality(Kids) = node.width
    BY <1>0, FS_Interval
  <2>2. IsFiniteSet(r.pending) /\ IsFiniteSet(r.good) /\ IsFiniteSet(r.bad)
    BY <1>0, <2>1, FS_Subset DEF Taken
  <2>3. /\ Cardinality(r.pending) \in Nat /\ Cardinality(r.good) \in Nat
        /\ Cardinality(r.bad) \in Nat
    BY <2>2, FS_CardinalityType
  <2>4. /\ IsFiniteSet(Taken(r)) /\ Cardinality(r.good \cap r.bad) = 0
        /\ Cardinality(Taken(r)) = Cardinality(r.good) + Cardinality(r.bad) - Cardinality(r.good \cap r.bad)
    BY <1>0, <2>2, FS_Union, FS_EmptySet DEF Taken
  <2>5. /\ Cardinality(r.pending \cap Taken(r)) = 0
        /\ Cardinality(Kids) = Cardinality(r.pending) + Cardinality(Taken(r))
                               - Cardinality(r.pending \cap Taken(r))
    BY <1>0, <2>2, <2>4, FS_Union, FS_EmptySet
  <2> QED
    BY <2>1, <2>2, <2>3, <2>4, <2>5
<1>2. r.pending = {} => Cardinality(r.pending) = 0
  BY FS_EmptySet
<1>3. r.bad = {} => Cardinality(r.bad) = 0
  BY FS_EmptySet
<1>4. Join(r) \in {"wait", "done", "fail"}
  BY <1>0 DEF Join, JoinPolicies
<1>5. CASE Join(r) = "wait"
  <2>1. r.pending # {} /\ Undecided(r)
    BY <1>0, <1>1, <1>2, <1>5 DEF Join, JoinPolicies, Enough, Undecided, Taken
  <2>2. q = GoesOn(r)
    BY <1>5 DEF BranchJoined
  <2> QED
    BY <2>1, <2>2, GoesOnJudged
<1>6. CASE Join(r) = "done"
  <2>1. Verdict(r, "ok")
    BY <1>0, <1>1, <1>6 DEF Join, JoinPolicies, Enough, Verdict, Taken
  <2>2. q = Leaves(r, "ok")
    BY <1>6 DEF BranchJoined
  <2> QED
    BY <2>1, <2>2, LeavesJudged
<1>7. CASE Join(r) = "fail"
  <2>1. Verdict(r, "failed")
    <3>1. CASE node.policy \in {"all", "any"}
      BY <1>7, <3>1 DEF Join, Verdict
    <3>2. CASE node.policy = "first_success"
      BY <1>0, <1>7, <3>2 DEF Join, Verdict, Taken
    <3>3. CASE node.policy = "quorum_skip"
      <4>1. Cardinality(r.good) + Cardinality(r.pending) < node.minOk
        BY <1>7, <3>3 DEF Join
      <4>2. node.width - Cardinality(r.bad) < node.minOk
        BY <1>0, <1>1, <4>1
      <4> QED
        BY <3>3, <4>2 DEF Verdict
    <3>4. CASE node.policy = "quorum_fail"
      <4>1. r.bad # {} \/ Cardinality(r.good) + Cardinality(r.pending) < node.minOk
        BY <1>7, <3>4 DEF Join
      <4>2. r.bad # {} \/ node.width < node.minOk
        BY <1>0, <1>1, <1>3, <4>1
      <4> QED
        BY <3>4, <4>2 DEF Verdict
    <3> QED
      BY <1>0, <3>1, <3>2, <3>3, <3>4 DEF JoinPolicies
  <2>2. q = Leaves(r, "failed")
    BY <1>7 DEF BranchJoined
  <2> QED
    BY <2>1, <2>2, LeavesJudged
<1> QED
  BY <1>4, <1>5, <1>6, <1>7


LEMMA ProceedsJudged ==
    ASSUME node \in Nodes, NEW r, Memory(r), Judged(r), r.at = "project", NEW q, q = Proceeds(r)
    PROVE  Judged(q)
<1>1. /\ Silent(r) /\ Inner(r) /\ DOMAIN r = Fields /\ r.then \in Thens /\ r.done \in Nat
      /\ r.at \notin Loops
  BY DEF Memory, Silent, Inner, Loops
<1>2. CASE r.outcome # "open"
  <2>1. Verdict(r, r.outcome) /\ r.then \in Final
    BY <1>2 DEF Judged
  <2>2. CASE r.then = "closed"
    <3> DEFINE event == RunFinished(r.bill, r.outcome)
    <3>1. q = Emits(r, event, "return")
      BY <2>2 DEF Proceeds
    <3>2. event \in Events
      <4>1. r.bill \in Nat /\ r.outcome \in {"open", "ok", "failed"}
        BY <1>1 DEF Inner
      <4>2. r.outcome \in Words
        BY <4>1 DEF Words
      <4> QED
        BY <4>1, <4>2, EventTypes
    <3> HIDE DEF event
    <3>3. /\ Same(r, q) /\ q.at = "write" /\ q.outbox = Told(r) \o <<event>>
          /\ q.deferred = {} /\ q.then = "return" /\ q.done = r.done /\ q.outcome = r.outcome
      BY <1>1, <3>1, EmitsFields
    <3>4. Recovered(r) => Recovered(q)
      BY <1>1, <3>2, <3>3, RecoveredGrows DEF Recovered, Same
    <3>5. Verdict(q, r.outcome)
      BY <2>1, <3>3, <3>4, VerdictKept DEF Same
    <3> QED
      BY <1>2, <3>3, <3>5 DEF Judged, Final
  <2>3. CASE r.then = "return"
    <3>1. \A f \in Fields \ {"at"} : q[f] = r[f]
      BY <1>1, <2>3 DEF Proceeds, Fields
    <3>2. Recovered(r) => Recovered(q)
      BY <3>1, SaidSame DEF Recovered, Fields
    <3>3. Verdict(q, r.outcome)
      BY <2>1, <3>1, <3>2, VerdictKept DEF Fields
    <3> QED
      BY <1>2, <2>3, <3>1, <3>3 DEF Judged, Final, Fields
  <2> QED
    BY <2>1, <2>2, <2>3 DEF Final
<1>3. CASE r.outcome = "open"
  <2>1. Open(r)
    BY <1>3 DEF Judged
  <2>2. /\ r.then \notin Final /\ Even(r) /\ Undecided(r)
        /\ (r.then \in {"boundary", "enter"} => r.started = 0)
    BY <1>1, <2>1 DEF Open
  <2>3. CASE r.then = "boundary"
    <3>1. q.at = "boundary" /\ \A f \in Fields \ {"at"} : q[f] = r[f]
      BY <1>1, <2>3 DEF Proceeds, Fields
    <3>2. Recovered(r) => Recovered(q)
      BY <3>1, SaidSame DEF Recovered, Fields
    <3>3. Undecided(q)
      BY <2>2, <3>1, <3>2, VerdictKept DEF Fields
    <3> QED
      BY <1>3, <2>2, <2>3, <3>1, <3>3 DEF Judged, Open, Even, Taken, Fields
  <2>4. CASE r.then = "enter" /\ IsMap
    <3> DEFINE event == Progress(0)
    <3>1. q = Emits(r, event, "on")
      BY <2>4 DEF Proceeds
    <3>2. event \in Events
      BY EventTypes
    <3> HIDE DEF event
    <3>3. /\ Same(r, q) /\ q.at = "write" /\ q.outbox = Told(r) \o <<event>>
          /\ q.deferred = {} /\ q.then = "on" /\ q.done = r.done /\ q.outcome = r.outcome
      BY <1>1, <3>1, EmitsFields
    <3>4. Recovered(r) => Recovered(q)
      BY <1>1, <3>2, <3>3, RecoveredGrows DEF Recovered, Same
    <3>5. Undecided(q)
      BY <2>2, <3>3, <3>4, VerdictKept DEF Same
    <3> QED
      BY <1>3, <2>2, <2>4, <3>3, <3>5 DEF Judged, Open, Even, Taken, Same, Final
  <2>5. CASE r.then \in {"enter", "on"} /\ ~(r.then = "enter" /\ IsMap)
    <3>1. q = GoesOn(r) /\ Looping(r)
      BY <1>1, <2>5 DEF Proceeds, Looping, Thens
    <3>2. ~IsMap => r.started < node.width
      <4>1. ~IsMap => r.started = 0
        BY <2>2, <2>5 DEF Even
      <4> QED
        BY <4>1, NodeFacts
    <3> QED
      BY <1>1, <1>3, <2>2, <3>1, <3>2, GoesOnJudged
  <2>6. CASE r.then = "settled"
    <3>1. q = ItemDone(r) /\ IsMap
      BY <2>2, <2>6 DEF Proceeds, Even
    <3> QED
      BY <1>1, <1>3, <2>2, <2>6, <3>1, ItemDoneJudged
  <2> QED
    BY <1>1, <2>2, <2>3, <2>4, <2>5, <2>6 DEF Thens, Final
<1> QED
  BY <1>2, <1>3

LEMMA SettledJudged ==
    ASSUME node \in Nodes, NEW r, Memory(r), Judged(r), NEW q, q = Settled(r)
    PROVE  Judged(q)
  BY ProceedsJudged DEF Settled

LEMMA FreshJudged ==
    ASSUME node \in Nodes
    PROVE  Judged(Fresh)
<1> DEFINE f == Fresh
<1>1. /\ f.at = "write" /\ f.then = "boundary" /\ f.started = 0 /\ f.pending = {}
      /\ f.good = {} /\ f.bad = {} /\ f.outcome = "open"
  BY DEF Fresh
<1> HIDE DEF f
<1>2. 1 .. 0 = {}
  OBVIOUS
<1>3. Even(f) /\ Undecided(f)
  BY <1>1, <1>2 DEF Even, Undecided, Recovered, Taken
<1>4. Judged(f)
  BY <1>1, <1>3 DEF Judged, Open, Final
<1> QED
  BY <1>4 DEF f


LEMMA BoundaryJudged ==
    ASSUME node \in Nodes, NEW r, Memory(r), Judged(r), r.at = "boundary", NEW answer,
           NEW q, q = After(r, answer)
    PROVE  Judged(q)
<1> DEFINE t == Took(r)
           event == NodeStarted(Fan)
<1>1. q = Emits(t, event, "enter")
  BY DEF After
<1>2. event \in Events
  BY EventTypes DEF Fan
<1>3. DOMAIN r = Fields /\ r.then = "boundary"
  BY DEF Memory, Inner
<1>4. DOMAIN t = Fields /\ t.pos = r.pos + 1 /\ \A f \in Fields \ {"pos"} : t[f] = r[f]
  BY <1>3, TookFields
<1> HIDE DEF t, event
<1>5. Silent(t)
  BY <1>4 DEF Memory, Silent, Inner, Fields, Taken, Final
<1>6. /\ Same(t, q) /\ q.at = "write" /\ q.outbox = Told(t) \o <<event>>
      /\ q.deferred = {} /\ q.then = "enter" /\ q.done = t.done /\ q.outcome = t.outcome
  BY <1>1, <1>4, EmitsFields
<1>7. Open(r) /\ r.outcome = "open" /\ r.started = 0
  BY <1>3 DEF Judged, Open, Final
<1>8. q.good = r.good /\ q.bad = r.bad /\ q.started = r.started /\ q.pending = r.pending
      /\ q.outcome = r.outcome /\ q.log = t.log
  BY <1>4, <1>6 DEF Same, Fields
<1>9. Recovered(r) => Recovered(q)
  <2>1. Said(t) = Said(r)
    BY <1>4, SaidSame DEF Fields
  <2>2. q.bad = t.bad /\ t.bad = r.bad
    BY <1>4, <1>6 DEF Same, Fields
  <2> SUFFICES ASSUME Recovered(r) PROVE Recovered(q)
    OBVIOUS
  <2>3. \A k \in t.bad : ItemRecovered(k) = event
                          \/ \E i \in DOMAIN Said(t) : Said(t)[i] = ItemRecovered(k)
    BY <2>1, <2>2 DEF Recovered
  <2> QED
    BY <1>2, <1>5, <1>6, <1>8, <2>2, <2>3, RecoveredGrows
<1>10. Undecided(q)
  BY <1>7, <1>8, <1>9, VerdictKept DEF Open
<1> QED
  BY <1>6, <1>7, <1>8, <1>10 DEF Judged, Open, Even, Taken, Final

LEMMA WriteJudged ==
    ASSUME node \in Nodes, NEW r, Memory(r), Judged(r), r.at = "write", NEW answer,
           NEW q, q = After(r, answer)
    PROVE  Judged(q)
<1>1. q = Wrote(r) /\ DOMAIN r = Fields
  BY DEF After, Memory, Inner
<1>2. /\ Moved(r, q, {"outbox", "log", "at"})
      /\ q.outbox = Tail(r.outbox) /\ q.log = Append(r.log, Head(r.outbox))
      /\ q.at = IF Len(r.outbox) = 1 THEN "project" ELSE "write"
  BY <1>1, WroteFields
<1>3. Said(q) = Said(r)
  BY <1>2, WroteSays DEF Memory, Inner
<1>4. \A f \in {"good", "bad", "started", "pending", "then", "outcome"} : q[f] = r[f]
  BY <1>2 DEF Moved, Fields
<1>5. Recovered(r) => Recovered(q)
  BY <1>3, <1>4 DEF Recovered
<1>6. \A word : Verdict(r, word) => Verdict(q, word)
  BY <1>4, <1>5, VerdictKept
<1>7. Undecided(r) => Undecided(q)
  BY <1>4, <1>5, VerdictKept
<1> QED
  BY <1>2, <1>4, <1>6, <1>7 DEF Judged, Open, Even, Taken, Loops

LEMMA StartJudged ==
    ASSUME node \in Nodes, NEW r, Memory(r), Judged(r), r.at = "start", NEW answer,
           NEW q, q = After(r, answer)
    PROVE  Judged(q)
<1> DEFINE b == Began(r)
<1>1. q = GoesOn(b) /\ DOMAIN r = Fields
  BY DEF After, Memory, Inner
<1>2. /\ Moved(r, b, {"started", "pending"})
      /\ b.started = r.started + 1 /\ b.pending = r.pending \cup {r.started + 1}
  BY <1>1, BeganFields
<1>3. /\ DOMAIN b = Fields /\ b.pos = r.pos + 1
      /\ \A f \in Fields \ {"started", "pending", "pos"} : b[f] = r[f]
  BY <1>2 DEF Moved
<1> HIDE DEF b
<1>4. node.width \in Nat /\ r.started < node.width /\ r.started \in Nat /\ Looping(r)
  BY NodeFacts DEF Memory, Inner, Loops
<1>5. /\ r.pending \subseteq 1 .. r.started /\ Taken(r) \subseteq 1 .. r.started
      /\ r.pending \cap Taken(r) = {}
  BY DEF Memory, Inner
<1>6. /\ b.pending \subseteq 1 .. b.started /\ Taken(r) \subseteq 1 .. b.started
      /\ b.pending \cap Taken(r) = {} /\ b.started \in 0 .. node.width
  BY <1>2, <1>4, <1>5
<1>7. Silent(b) /\ Looping(b)
  BY <1>3, <1>6 DEF Memory, Silent, Inner, Fields, Taken, Looping, Final, Loops
<1>8. Open(r) /\ r.outcome = "open"
  BY <1>4 DEF Judged, Looping, Final
<1>9. Even(b)
  <2>1. Taken(b) = Taken(r) /\ b.then = r.then
    BY <1>3 DEF Taken, Fields
  <2>2. b.pending \cup Taken(b) = 1 .. b.started
    BY <1>2, <1>4, <1>8, <2>1 DEF Open, Even
  <2>3. ~IsMap => Taken(b) = {}
    BY <1>4, <1>8, <2>1 DEF Open, Even
  <2> QED
    BY <1>8, <2>1, <2>2, <2>3 DEF Open, Even
<1>10. Undecided(b)
  <2>1. Recovered(r) => Recovered(b)
    BY <1>3, SaidSame DEF Recovered, Fields
  <2> QED
    BY <1>3, <1>8, <2>1, VerdictKept DEF Open, Fields
<1>11. b.pending # {} /\ b.outcome = "open"
  BY <1>2, <1>3, <1>8 DEF Fields
<1> QED
  BY <1>1, <1>7, <1>9, <1>10, <1>11, GoesOnJudged

LEMMA FirstJudged ==
    ASSUME node \in Nodes, NEW r, Memory(r), Judged(r), r.at = "first", NEW answer,
           NEW q, q = After(r, answer)
    PROVE  Judged(q)
<1>1. q = Chose(r, answer) /\ DOMAIN r = Fields /\ r.then \in {"enter", "on"}
  BY DEF After, Memory, Inner, Loops, Looping
<1>2. Moved(r, q, {"at", "ticket"}) /\ q.at = "result"
  BY <1>1, ChoseFields
<1>3. \A f \in {"good", "bad", "started", "pending", "then", "outcome", "log", "outbox"} : q[f] = r[f]
  BY <1>2 DEF Moved, Fields
<1>4. Recovered(r) => Recovered(q)
  BY <1>3, SaidSame DEF Recovered
<1>5. Undecided(r) => Undecided(q)
  BY <1>3, <1>4, VerdictKept
<1>6. Open(r) /\ r.outcome = "open"
  BY <1>1 DEF Judged, Final
<1> QED
  BY <1>1, <1>2, <1>3, <1>5, <1>6 DEF Judged, Open, Even, Taken, Loops

LEMMA CancelJudged ==
    ASSUME node \in Nodes, NEW r, Memory(r), Judged(r), r.at = "cancel", NEW answer,
           NEW q, q = After(r, answer)
    PROVE  Judged(q)
<1> DEFINE c == Cancelled(r)
           event == NodeFinished(Fan, c.outcome)
<1>1. q = Emits(c, event, "closed") /\ DOMAIN r = Fields /\ r.outcome \in {"ok", "failed"}
  BY DEF After, Closes, Memory, Inner
<1>2. Moved(r, c, {"pending"}) /\ c.pending = {}
  BY <1>1, CancelledFields
<1>3. DOMAIN c = Fields /\ c.pos = r.pos + 1 /\ \A f \in Fields \ {"pending", "pos"} : c[f] = r[f]
  BY <1>2 DEF Moved
<1> HIDE DEF c
<1>4. event \in Events
  <2>1. c.outcome \in Words /\ Fan \in Int
    <3>1. \A w \in {"ok", "failed"} : w \in Words
      BY DEF Words
    <3> QED
      BY <1>1, <1>3, <3>1 DEF Fan, Fields
  <2> QED
    BY <2>1, EventTypes
<1> HIDE DEF event
<1>5. Silent(c)
  BY <1>2, <1>3 DEF Memory, Silent, Inner, Fields, Taken, Final
<1>6. /\ Same(c, q) /\ q.at = "write" /\ q.outbox = Told(c) \o <<event>>
      /\ q.deferred = {} /\ q.then = "closed" /\ q.done = c.done /\ q.outcome = c.outcome
  BY <1>1, <1>3, EmitsFields
<1>7. q.good = r.good /\ q.bad = r.bad /\ q.outcome = r.outcome /\ q.log = c.log /\ q.bad = c.bad
      /\ c.bad = r.bad
  BY <1>3, <1>6 DEF Same, Fields
<1>8. Recovered(r) => Recovered(q)
  <2>1. Said(c) = Said(r)
    BY <1>3, SaidSame DEF Fields
  <2> SUFFICES ASSUME Recovered(r) PROVE Recovered(q)
    OBVIOUS
  <2>2. \A k \in c.bad : ItemRecovered(k) = event
                          \/ \E i \in DOMAIN Said(c) : Said(c)[i] = ItemRecovered(k)
    BY <1>7, <2>1 DEF Recovered
  <2> QED
    BY <1>4, <1>5, <1>6, <1>7, <2>2, RecoveredGrows
<1>9. Verdict(q, r.outcome)
  BY <1>1, <1>7, <1>8, VerdictKept DEF Judged
<1> QED
  BY <1>1, <1>6, <1>7, <1>9 DEF Judged, Final

LEMMA ResultJudged ==
    ASSUME node \in Nodes, NEW r, Memory(r), Judged(r), r.at = "result",
           NEW answer \in Answers(r), answer # "error", NEW q, q = After(r, answer)
    PROVE  Judged(q)
<1> DEFINE k == r.ticket
<1>1. q = Collected(Took(r), k, answer) /\ DOMAIN r = Fields
  BY DEF After, Memory, Inner
<1>2. answer \in {"ok", "failed"} /\ k \in r.pending
  BY EndsAssumption DEF Answers, Memory
<1>3. /\ r.pending \subseteq 1 .. r.started /\ Taken(r) \subseteq 1 .. r.started
      /\ r.pending \cap Taken(r) = {} /\ r.good \cap r.bad = {} /\ r.deferred \subseteq Taken(r)
      /\ Looping(r) /\ r.outbox = <<>> /\ r.bill \in Nat
  BY DEF Memory, Inner, Loops
<1>4. k \in Int
  BY <1>2, <1>3, NodesAssumption DEF Memory, Inner
<1>5. r.outcome = "open" /\ Open(r)
  BY <1>3 DEF Judged, Looping, Final
<1>6. \E got : /\ Received(r, k, answer, got)
               /\ q = IF IsMap THEN ItemSettled(got, k) ELSE BranchJoined(got)
  BY <1>1, <1>2, CollectedFields
<1> HIDE DEF k
<1>7. PICK got : /\ Received(r, k, answer, got)
                 /\ q = IF IsMap THEN ItemSettled(got, k) ELSE BranchJoined(got)
  BY <1>6
<1>8. /\ DOMAIN got = Fields /\ got.pos = r.pos + 1
      /\ \A f \in Fields \ {"pending", "ticket", "bill", "deferred", "good", "bad", "pos"} :
            got[f] = r[f]
      /\ got.pending = r.pending \ {k}
      /\ got.bill = r.bill + 1 /\ got.deferred = r.deferred \cup {k}
      /\ got.good = (IF answer = "ok" THEN r.good \cup {k} ELSE r.good)
      /\ got.bad = (IF answer = "failed" THEN r.bad \cup {k} ELSE r.bad)
  BY <1>7 DEF Received, Moved
<1>9. /\ Taken(got) = Taken(r) \cup {k} /\ got.good \cap got.bad = {}
      /\ got.pending \cap Taken(got) = {} /\ Taken(got) \subseteq 1 .. r.started
      /\ got.deferred \subseteq Taken(got)
  BY <1>2, <1>3, <1>8 DEF Taken
<1>10. Silent(got) /\ Looping(got)
  <2>1. Looping(got) /\ got.then \notin Final /\ got.outbox = <<>> /\ got.then # "boundary"
    BY <1>3, <1>8 DEF Looping, Fields, Final
  <2>2. /\ got.then \in Thens /\ got.outcome \in {"open", "ok", "failed"}
        /\ got.started \in 0 .. node.width /\ got.done \in Nat /\ got.bill \in Nat
        /\ got.pos \in Nat /\ got.log \in Seq(Events) /\ got.started = r.started
        /\ got.pending \subseteq 1 .. r.started
    BY <1>3, <1>8 DEF Memory, Inner, Fields
  <2> QED
    BY <1>8, <1>9, <2>1, <2>2 DEF Silent, Inner
<1>11. got.outcome = "open" /\ got.started = r.started /\ got.then = r.then /\ Said(got) = Said(r)
  BY <1>5, <1>8, SaidSame DEF Fields
<1>12. got.pending \cup Taken(got) = 1 .. got.started
  BY <1>2, <1>5, <1>8, <1>9, <1>11 DEF Open, Even
<1>13. CASE IsMap
  <2>1. Even(got)
    BY <1>12, <1>13 DEF Even
  <2>2. k \in got.good \cup got.bad /\ got.bad \subseteq r.bad \cup {k}
    BY <1>2, <1>8
  <2>3. node.policy = "fail" => got.bad \subseteq {k}
    BY <1>5, <2>2 DEF Open, Undecided
  <2>4. node.policy # "fail" => \A x \in got.bad \ {k} :
             \E i \in DOMAIN Said(got) : Said(got)[i] = ItemRecovered(x)
    <3>1. node.policy # "fail" => node.policy \in {"skip", "default"}
      BY <1>13, NodeFacts DEF ItemPolicies
    <3>2. node.policy # "fail" => Recovered(r)
      BY <1>5, <3>1 DEF Open, Undecided
    <3> QED
      BY <1>11, <2>2, <3>2 DEF Recovered
  <2>5. q = ItemSettled(got, k)
    BY <1>7, <1>13
  <2> QED
    BY <1>4, <1>10, <1>11, <1>13, <2>1, <2>2, <2>3, <2>4, <2>5, ItemSettledJudged
<1>14. CASE ~IsMap
  <2>1. Even(got) /\ got.started = node.width /\ Taken(got) # {}
    BY <1>5, <1>9, <1>11, <1>12, <1>14 DEF Open, Even
  <2>2. node.policy = "any" => got.good = {} \/ got.bad = {}
    BY <1>2, <1>5, <1>8 DEF Open, Undecided
  <2>3. q = BranchJoined(got)
    BY <1>7, <1>14
  <2> QED
    BY <1>10, <1>11, <1>14, <2>1, <2>2, <2>3, BranchJoinedJudged
<1> QED
  BY <1>13, <1>14

LEMMA AfterJudged ==
    ASSUME node \in Nodes, NEW r, Memory(r), Judged(r), r.at \in Steps,
           NEW answer \in Answers(r), r.at = "result" => answer # "error",
           NEW q, q = After(r, answer)
    PROVE  Judged(q)
  BY BoundaryJudged, WriteJudged, StartJudged, FirstJudged, ResultJudged, CancelJudged DEF Steps

LEMMA JudgedStays ==
    ASSUME node' = node, NEW CONSTANT r
    PROVE  (Judged(r))' <=> Judged(r)
<1>1. Kids' = Kids /\ IsMap' = IsMap
  BY DEF Kids, IsMap
<1>2. (Recovered(r))' <=> Recovered(r)
  BY DEF Recovered, ItemRecovered
<1>3. (Open(r))' <=> Open(r)
  BY <1>1, <1>2 DEF Open, Even, Undecided
<1>4. (Verdict(r, r.outcome))' <=> Verdict(r, r.outcome)
  BY <1>1, <1>2 DEF Verdict, Enough
<1> QED
  BY <1>3, <1>4 DEF Judged


-----------------------------------------------------------------------------
(* The run and its branches together.                                          *)

Justice(r) == (\E k \in Kids : branches[k] = "error") \/ Judged(r)

Holds(h) ==
    /\ Lives(h) /\ Written(h)
    /\ Branching(h[Len(journal)]) /\ Results(h[Len(journal)]) /\ Justice(h[Len(journal)])

RunInv == \E h : Holds(h)

LEMMA InitRun ==
    ASSUME Init
    PROVE  RunInv
<1>0. node \in Nodes /\ journal = <<>> /\ run = Fresh /\ stream = <<>> /\ status = "PENDING"
      /\ branches = [k \in Kids |-> "unborn"]
  BY DEF Init
<1>1. PICK h : h = [p \in 0 .. 0 |-> Fresh]
  OBVIOUS
<1>2. Len(journal) = 0 /\ 0 .. 0 = {0} /\ 1 .. 0 = {}
  BY <1>0
<1>3. DOMAIN h = 0 .. 0 /\ h[0] = Fresh
  BY <1>1, <1>2
<1>4. /\ Memory(Fresh) /\ Fresh.pos = 0 /\ Fresh.log = <<>> /\ Fresh.pending = {}
      /\ Fresh.started = 0 /\ Fresh.good = {} /\ Fresh.bad = {}
  BY <1>0, FreshMemory
<1>5. History(h)
  BY <1>2, <1>3, <1>4 DEF History
<1>6. Along(h)
  BY <1>0, <1>2, <1>3, <1>4 DEF Along
<1>7. Lives(h)
  <2>1. journal \in Seq({})
    BY <1>0
  <2> QED
    BY <1>0, <1>5, <1>6, <2>1 DEF Lives
<1>8. Written(h)
  <2>1. Begins(<<>>, <<>>)
    BY DEF Begins
  <2>2. Tale(Fresh)
    BY <1>0, FreshTale
  <2>3. \A p \in 0 .. 0 : p = 0
    OBVIOUS
  <2> QED
    BY <1>0, <1>2, <1>3, <1>4, <2>1, <2>2, <2>3 DEF Written
<1>9. Branching(Fresh) /\ Results(Fresh)
  <2>1. DOMAIN journal = {}
    BY <1>0
  <2> QED
    BY <1>0, <1>4, <2>1 DEF Branching, Results, Taken, BranchWords
<1>10. Justice(Fresh)
  BY <1>0, FreshJudged DEF Justice
<1> QED
  BY <1>2, <1>3, <1>7, <1>8, <1>9, <1>10 DEF Holds, RunInv

LEMMA ActsRun ==
    ASSUME RunInv, NEW answer, Acts(answer)
    PROVE  RunInv'
<1>1. PICK h : Holds(h)
  BY DEF RunInv
<1>2. PICK g : ActsOn(h, g, answer)
  BY <1>1, ActsMove DEF Holds
<1>3. (Lives(g))' /\ (Written(g))'
  BY <1>2 DEF ActsOn
<1>4. (Branching(g[Len(journal)]))' /\ (Results(g[Len(journal)]))'
  BY <1>1, <1>2, ActsBranching DEF Holds
<1>5. node' = node /\ node \in Nodes /\ run.at \in Steps
  BY <1>1 DEF Acts, Holds, Lives
<1>6. \A r : (Judged(r))' <=> Judged(r)
  BY <1>5, JudgedStays
<1>7. (Justice(g[Len(journal)]))'
  <2>1. CASE \E k \in Kids : branches[k] = "error"
    <3>1. PICK k \in Kids : branches[k] = "error"
      BY <2>1
    <3>2. branches'[k] = "error" /\ Kids' = Kids
      <4>1. CASE ~Replaying /\ run.at = "start"
        <5>1. ~Replaying /\ run = Settled(h[Len(journal)]) /\ Memory(run)
          BY <1>2, <4>1 DEF ActsOn
        <5>2. run.started + 1 # k
          <6>1. Memory(h[Len(journal)]) /\ Branching(h[Len(journal)])
            BY <1>1, TipFacts DEF Holds
          <6>2. run.started = h[Len(journal)].started
            BY <1>5, <5>1, <6>1, SettledMemory
          <6>3. run.started + 1 > run.started
            BY <5>1, NodesAssumption DEF Memory, Inner
          <6> QED
            BY <3>1, <6>1, <6>2, <6>3 DEF Branching
        <5> QED
          BY <1>1, <1>5, <3>1, <4>1, <5>2 DEF Acts, Kids, Holds, Branching
      <4>2. CASE ~(~Replaying /\ run.at = "start")
        BY <1>5, <3>1, <4>2 DEF Acts, Kids
      <4> QED
        BY <4>1, <4>2
    <3> QED
      BY <3>2 DEF Justice
  <2>2. CASE Judged(h[Len(journal)]) /\ Replaying
    <3>1. g = h /\ journal' = journal
      BY <1>2, <2>2 DEF ActsOn
    <3> QED
      BY <1>6, <2>2, <3>1 DEF Justice
  <2>3. CASE Judged(h[Len(journal)]) /\ ~Replaying
    <3>1. /\ run = Settled(h[Len(journal)]) /\ Memory(run) /\ answer \in Answers(run)
          /\ run' = g[Len(journal')] /\ run' = After(run, answer)
      BY <1>2, <2>3 DEF ActsOn
    <3>2. Judged(run)
      <4>1. Memory(h[Len(journal)])
        BY <1>1, TipFacts DEF Holds
      <4> QED
        BY <1>5, <2>3, <3>1, <4>1, SettledJudged
    <3>3. CASE run.at = "result" /\ answer = "error"
      <4>1. branches' = branches /\ branches[run.ticket] = "error" /\ node' = node
        BY <2>3, <3>3 DEF Acts
      <4>2. run.ticket \in Kids
        BY <1>5, <3>1, <3>3, NodeFacts DEF Memory, Inner, Kids
      <4> QED
        BY <4>1, <4>2 DEF Justice, Kids
    <3>4. CASE ~(run.at = "result" /\ answer = "error")
      <4>1. PICK q : q = run'
        OBVIOUS
      <4>2. Judged(q)
        BY <1>5, <3>1, <3>2, <3>4, <4>1, AfterJudged
      <4>3. (Judged(q))'
        BY <1>6, <4>2
      <4> QED
        BY <3>1, <4>1, <4>3 DEF Justice
    <3> QED
      BY <3>3, <3>4
  <2> QED
    BY <1>1, <2>1, <2>2, <2>3 DEF Holds, Justice
<1> QED
  BY <1>3, <1>4, <1>7 DEF Holds, RunInv

\* Whatever else happens leaves the branches, or ends some that run.
LEMMA OthersRun ==
    ASSUME RunInv, UNCHANGED <<node, journal, stream>>,
           \/ run' \in {run, Gone, Fresh}
           \/ run.at = "project" /\ run' = Proceeds(run),
           branches' \in [Kids -> BranchWords],
           \A k \in Kids : branches[k] # "running" => branches'[k] = branches[k],
           \A k \in Kids : branches'[k] = "running" => branches[k] = "running" /\ status' = status
    PROVE  RunInv'
<1>1. PICK h : Holds(h)
  BY DEF RunInv
<1>2. (Lives(h))' /\ (Written(h))'
  BY <1>1, StaysAlong DEF Holds
<1>3. Kids' = Kids /\ node \in Nodes
  BY <1>1 DEF Kids, Holds, Lives
<1> PICK r : r = h[Len(journal)]
  OBVIOUS
<1>4. Branching(r) /\ Results(r) /\ Justice(r) /\ Memory(r)
  BY <1>1, TipFacts DEF Holds
<1>5. Taken(r) \subseteq Kids
  BY <1>3, <1>4, NodeFacts DEF Memory, Inner, Kids
<1>6. (Branching(r))'
  <2>1. \A k \in Kids : branches'[k] = "running" => k \in r.pending /\ status' = "PENDING"
    BY <1>4 DEF Branching
  <2>2. \A k \in Kids : k > r.started => branches'[k] = "unborn"
    BY <1>4 DEF Branching
  <2>3. (\A k \in r.good : branches'[k] = "ok") /\ (\A k \in r.bad : branches'[k] = "failed")
    BY <1>4, <1>5 DEF Branching, Taken
  <2> QED
    BY <1>3, <2>1, <2>2, <2>3 DEF Branching, BranchWords
<1>7. (Results(r))'
  <2>1. \A k \in Kids : branches[k] \in Ends => branches'[k] = branches[k]
    BY EndWords
  <2> QED
    BY <1>4, <2>1, EndsStay
<1>8. (Justice(r))'
  <2>1. \A x : (Judged(x))' <=> Judged(x)
    BY JudgedStays
  <2> QED
    BY <1>3, <1>4, <2>1 DEF Justice
<1>9. (Holds(h))'
  <2>1. h[Len(journal)]' = r
    OBVIOUS
  <2> QED
    BY <1>2, <1>6, <1>7, <1>8, <2>1 DEF Holds
<1> QED
  BY <1>9 DEF RunInv

\* A run that is about to return has taken every step of its journal.
LEMMA ReturnsAtTheTip ==
    ASSUME NEW h, Holds(h), run.at = "return"
    PROVE  \A k \in Kids : branches[k] # "running"
<1>1. run # Gone /\ run.at # "project"
  BY GoneFields
<1>2. /\ Lives(h) /\ run.pos \in 0 .. Len(journal) /\ run = Settled(h[run.pos])
      /\ Memory(run)
  BY <1>1, RunIsSettled DEF Holds
<1>3. Len(journal) \in Nat
  BY <1>2 DEF Lives
<1>4. run.pos = Len(journal)
  <2> DEFINE p == run.pos + 1
  <2>1. SUFFICES ASSUME run.pos # Len(journal) PROVE FALSE
    OBVIOUS
  <2>2. p \in 1 .. Len(journal) /\ run.pos = p - 1
    BY <1>2, <1>3, <2>1
  <2> HIDE DEF p
  <2>3. Turn(Settled(h[p - 1]), journal[p], h[p])
    BY <1>2, <2>2 DEF Lives, History
  <2>4. run.at \in Steps
    BY <1>2, <2>2, <2>3 DEF Turn
  <2> QED
    BY <2>4 DEF Steps
<1>5. run.pending = {}
  BY <1>2 DEF Memory, Inner, Final
<1>6. PICK r : r = h[Len(journal)]
  OBVIOUS
<1>7. Memory(r) /\ Branching(r) /\ run = Settled(r)
  BY <1>2, <1>4, <1>6, TipFacts DEF Holds
<1>8. r.pending = {}
  BY <1>2, <1>5, <1>7, SettledMemory DEF Lives
<1> QED
  BY <1>7, <1>8 DEF Branching

LEMMA StepRun ==
    ASSUME RunInv, [Next]_vars
    PROVE  RunInv'
<1>1. PICK h : Holds(h)
  BY DEF RunInv
<1>2. /\ branches \in [Kids -> BranchWords]
      /\ \A k \in Kids : branches[k] = "running" => status = "PENDING"
  BY <1>1 DEF Holds, Branching
<1>3. CASE Boundary \/ WriteEvent \/ StartBranch \/ FirstFinished \/ Collect \/ CancelPending
  BY <1>3, StepsAct, ActsRun
<1>4. CASE Return
  <2>1. \A k \in Kids : branches[k] # "running"
    BY <1>1, <1>4, ReturnsAtTheTip DEF Return
  <2> QED
    BY <1>2, <1>4, <2>1, OthersRun DEF Return
<1>5. CASE Project
  BY <1>2, <1>5, OthersRun DEF Project, Resumes
<1>6. CASE ProjectFails
  BY <1>2, <1>6, OthersRun DEF ProjectFails, Resumes
<1>7. CASE ListReads
  BY <1>2, <1>7, OthersRun DEF ListReads
<1>8. CASE ListObserves
  BY <1>2, <1>8, OthersRun DEF ListObserves
<1>9. CASE ListFolds
  BY <1>2, <1>9, OthersRun DEF ListFolds
<1>10. CASE ListApplies
  BY <1>2, <1>10, OthersRun DEF ListApplies
<1>11. CASE SomeBranchEnds
  <2>1. PICK j \in Kids, end \in Ends : BranchEnds(j, end)
    BY <1>11 DEF SomeBranchEnds
  <2>2. end \in BranchWords /\ end # "running"
    BY EndsAssumption DEF BranchWords
  <2>3. branches' \in [Kids -> BranchWords] /\ branches'[j] = end
    BY <1>2, <2>1, <2>2 DEF BranchEnds
  <2>4. \A k \in Kids : k # j => branches'[k] = branches[k]
    BY <1>2, <2>1 DEF BranchEnds
  <2>5. branches[j] = "running" /\ UNCHANGED <<node, journal, stream, run, status>>
    BY <2>1 DEF BranchEnds
  <2> QED
    BY <2>2, <2>3, <2>4, <2>5, OthersRun
<1>12. CASE CancelRun
  <2>1. "cancelled" \in BranchWords
    BY DEF BranchWords
  <2>2. branches' \in [Kids -> BranchWords]
    BY <1>2, <1>12, <2>1 DEF CancelRun
  <2>3. \A k \in Kids : branches'[k] # "running"
    BY <1>12 DEF CancelRun
  <2>4. \A k \in Kids : branches[k] # "running" => branches'[k] = branches[k]
    BY <1>12 DEF CancelRun
  <2>5. run' \in {run, Gone} /\ UNCHANGED <<node, journal, stream>>
    BY <1>12 DEF CancelRun
  <2> QED
    BY <2>2, <2>3, <2>4, <2>5, OthersRun
<1>13. CASE Crash
  BY <1>2, <1>13, OthersRun DEF Crash
<1>14. CASE UNCHANGED vars
  BY <1>2, <1>14, OthersRun DEF vars
<1> QED
  BY <1>3, <1>4, <1>5, <1>6, <1>7, <1>8, <1>9, <1>10, <1>11, <1>12, <1>13, <1>14
  DEF Next, RunStep, ListStep

(* There is always such a history: what the executor holds, the stream, the     *)
(* branches and the journal are those of one run of the node.                  *)
THEOREM RunInvHolds == Spec => []RunInv
<1>1. Init => RunInv
  BY InitRun
<1>2. RunInv /\ [Next]_vars => RunInv'
  BY StepRun
<1> QED
  BY <1>1, <1>2, PTL DEF Spec

(* Whatever step a replayed run comes to, it comes to as it did before the      *)
(* crash, and about the same branch, event or set of branches.                 *)
THEOREM ReplayRepeats == Spec => []StepsRepeat
<1>1. RunInv => StepsRepeat
  BY StepsRepeatHere DEF RunInv, Holds
<1> QED
  BY <1>1, RunInvHolds, PTL

-----------------------------------------------------------------------------
(* What the stream shows.                                                      *)

\* The events written are those the run at the end of the journal has said.
LEMMA StreamIsSaid ==
    ASSUME NEW h, Holds(h), NEW tip, tip = h[Len(journal)]
    PROVE  /\ Memory(tip) /\ Tale(tip) /\ node \in Nodes
           /\ Branching(tip) /\ Results(tip) /\ Justice(tip)
           /\ stream = tip.log /\ Len(stream) \in Nat /\ DOMAIN stream = 1 .. Len(stream)
           /\ \A i \in DOMAIN stream : i \in DOMAIN Said(tip) /\ Said(tip)[i] = stream[i]
           /\ \A i \in DOMAIN stream : Known(tip, stream[i])
<1>1. /\ Memory(tip) /\ Tale(tip) /\ stream = tip.log /\ stream \in Seq(Events)
      /\ Branching(tip) /\ Results(tip) /\ Justice(tip) /\ node \in Nodes
  BY TipFacts DEF Holds, Lives
<1>2. Len(stream) \in Nat /\ DOMAIN stream = 1 .. Len(stream)
  BY <1>1
<1>3. Len(tip.outbox) \in Nat
  BY <1>1 DEF Memory
<1>4. \A i \in DOMAIN stream : i \in DOMAIN Said(tip) /\ Said(tip)[i] = stream[i]
  <2> DEFINE L == Len(stream)
             m == Len(tip.outbox)
  <2>1. Said(tip) = [i \in 1 .. L + m |-> IF i <= L THEN stream[i] ELSE tip.outbox[i - L]]
    BY <1>1 DEF Said
  <2>2. L \in Nat /\ m \in Nat /\ DOMAIN stream = 1 .. L
    BY <1>2, <1>3
  <2> HIDE DEF L, m
  <2>3. \A i \in 1 .. L : i \in 1 .. L + m /\ i <= L
    BY <2>2
  <2> QED
    BY <2>1, <2>2, <2>3
<1>5. \A i \in DOMAIN stream : Known(tip, stream[i])
  BY <1>1, <1>4 DEF Tale
<1> QED
  BY <1>1, <1>2, <1>4, <1>5

\* A node that finished has come to its outcome and has nothing pending.
LEMMA FinishedFacts ==
    ASSUME NEW tip, Memory(tip), \A i \in DOMAIN stream : Known(tip, stream[i]),
           NEW word, Has(FanEnd(word))
    PROVE  word = tip.outcome /\ tip.then \in Final /\ tip.pending = {} /\ tip.deferred = {}
<1>1. PICK i \in DOMAIN stream : stream[i] = FanEnd(word)
  BY DEF Has
<1>2. Known(tip, FanEnd(word)) /\ IsFanEnd(FanEnd(word)) /\ FanEnd(word)[3] = word
  <2>1. IsFanEnd(FanEnd(word)) /\ FanEnd(word)[3] = word
    BY EventParts DEF FanEnd, IsFanEnd
  <2> QED
    BY <1>1, <2>1
<1>3. tip.then \in Final /\ FanEnd(word) = NodeFinished(Fan, tip.outcome)
  BY <1>2, KnownParts DEF Memory
<1>4. word = tip.outcome
  BY <1>2, <1>3, EventParts
<1> QED
  BY <1>3, <1>4 DEF Memory, Inner

(* No branch runs once its node has finished or the run is over (the `finally`  *)
(* of both nodes and the cancellation of a run with its children).             *)
THEOREM NothingOutlivesTheNode == Spec => []BranchesEnd
<1>1. RunInv => BranchesEnd
  <2> SUFFICES ASSUME RunInv, FanEnded \/ status # "PENDING", NEW k \in Kids
               PROVE  branches[k] # "running"
    BY DEF BranchesEnd
  <2>1. PICK h : Holds(h)
    BY DEF RunInv
  <2>2. PICK tip : tip = h[Len(journal)]
    OBVIOUS
  <2>3. Memory(tip) /\ Branching(tip) /\ \A i \in DOMAIN stream : Known(tip, stream[i])
    BY <2>1, <2>2, StreamIsSaid
  <2>4. CASE status # "PENDING"
    BY <2>3, <2>4 DEF Branching
  <2>5. CASE FanEnded
    <3>1. tip.pending = {}
      BY <2>3, <2>5, FinishedFacts DEF FanEnded
    <3> QED
      BY <2>3, <3>1 DEF Branching
  <2> QED
    BY <2>4, <2>5
<1> QED
  BY <1>1, RunInvHolds, PTL

-----------------------------------------------------------------------------
(* What the stream tells of the branches.                                      *)

LEMMA PlaceIsThere ==
    ASSUME Once(stream), \A i, j \in DOMAIN stream : i < j \/ j < i \/ i = j,
           NEW i \in DOMAIN stream, NEW event, stream[i] = event
    PROVE  Place(event) = i /\ Has(event)
<1>1. Place(event) \in DOMAIN stream /\ stream[Place(event)] = event
  BY DEF Place
<1>2. ~(Place(event) < i) /\ ~(i < Place(event))
  BY <1>1 DEF Once
<1> QED
  BY <1>1, <1>2 DEF Has

\* The first two events of every stream.
LEMMA OpensWithTheNode ==
    ASSUME NEW h, Holds(h), FanEnded
    PROVE  Has(NodeStarted(Fan))
<1>0. Lives(h) /\ Written(h) /\ Len(journal) \in Nat /\ node \in Nodes
  BY TipFacts DEF Holds, Lives
<1>1. /\ \A p \in 0 .. Len(journal) : Memory(h[p])
      /\ \A p \in 1 .. Len(journal) : Turn(Settled(h[p - 1]), journal[p], h[p])
      /\ \A p \in 0 .. Len(journal) : Begins(h[p].log, stream)
      /\ h[0] = Fresh
  BY <1>0 DEF Lives, History, Written
<1>2. PICK tip : tip = h[Len(journal)]
  OBVIOUS
<1>3. Memory(tip) /\ \A i \in DOMAIN stream : Known(tip, stream[i])
  BY <1>2, StreamIsSaid
<1>4. tip.then \in Final
  BY <1>3, FinishedFacts DEF FanEnded
<1> DEFINE a == Fresh
<1>5. a.at = "write" /\ a.outbox = <<RunStarted>> /\ a.then = "boundary" /\ a.log = <<>>
      /\ DOMAIN a = Fields
  BY DEF Fresh, Fields
<1>6. Len(a.outbox) = 1 /\ Head(a.outbox) = RunStarted /\ Tail(a.outbox) = <<>>
  BY <1>5
<1> HIDE DEF a
<1>7. h[0] = a
  BY <1>1 DEF a
<1>8. Len(journal) # 0
  BY <1>2, <1>4, <1>5, <1>7 DEF Final
<1>9. /\ h[1].at = "project" /\ h[1].then = "boundary" /\ h[1].outbox = <<>>
      /\ h[1].log = <<RunStarted>> /\ h[1].deferred = {} /\ DOMAIN h[1] = Fields
  <2>1. 1 \in 1 .. Len(journal) /\ 1 - 1 = 0
    BY <1>0, <1>8
  <2>2. Turn(Settled(h[0]), journal[1], h[1])
    BY <1>1, <2>1
  <2>3. Settled(a) = a
    BY <1>5 DEF Settled
  <2>4. h[1] = Wrote(a)
    BY <1>5, <1>7, <2>2, <2>3 DEF Turn, After
  <2>5. Moved(a, h[1], {"outbox", "log", "at"}) /\ h[1].outbox = <<>> /\ h[1].at = "project"
        /\ h[1].log = Append(<<>>, RunStarted)
    BY <1>5, <1>6, <2>4, WroteFields
  <2>6. h[1].then = "boundary"
    BY <1>5, <2>5 DEF Moved, Fields
  <2>7. h[1].deferred = {}
    <3>1. Inner(h[1])
      BY <1>1, <1>0, <2>1 DEF Memory
    <3> QED
      BY <2>6, <3>1 DEF Inner, Taken
  <2> QED
    BY <2>5, <2>6, <2>7 DEF Moved
<1>10. Len(journal) # 1
  BY <1>2, <1>4, <1>9 DEF Final
<1>11. /\ h[2].at = "write" /\ h[2].outbox = <<NodeStarted(Fan)>> /\ h[2].log = <<RunStarted>>
       /\ h[2].then = "enter" /\ DOMAIN h[2] = Fields
  <2>1. 2 \in 1 .. Len(journal) /\ 2 - 1 = 1 /\ 1 \in 0 .. Len(journal)
    <3>1. \A n \in Nat : n # 0 /\ n # 1 => 2 <= n
      OBVIOUS
    <3>2. 2 <= Len(journal)
      BY <1>0, <1>8, <1>10, <3>1
    <3> QED
      BY <1>0, <3>2
  <2>2. Turn(Settled(h[1]), journal[2], h[2])
    BY <1>1, <2>1
  <2>3. PICK b : b = h[1]
    OBVIOUS
  <2>4. Memory(b)
    BY <1>1, <2>1, <2>3
  <2> DEFINE c == Settled(b)
  <2>5. c = [b EXCEPT !.at = "boundary"]
    BY <1>9, <2>3 DEF Settled, Proceeds
  <2>6. c.at = "boundary" /\ c.log = <<RunStarted>> /\ c.deferred = {} /\ DOMAIN c = Fields
    BY <1>9, <2>3, <2>5 DEF Fields
  <2> HIDE DEF c
  <2>7. PICK d : d = Took(c)
    OBVIOUS
  <2>8. DOMAIN d = Fields /\ d.log = <<RunStarted>> /\ d.deferred = {}
    BY <2>6, <2>7, TookFields DEF Fields
  <2>9. h[2] = Emits(d, NodeStarted(Fan), "enter")
    BY <2>2, <2>3, <2>6, <2>7 DEF Turn, After, c
  <2>10. Same(d, h[2]) /\ h[2].at = "write" /\ h[2].then = "enter"
         /\ h[2].outbox = Told(d) \o <<NodeStarted(Fan)>>
    BY <2>8, <2>9, EmitsFields
  <2>11. Told(d) = <<>>
    <3>1. Cardinality({}) = 0 /\ 1 .. 2 * 0 = {}
      BY FS_EmptySet
    <3>2. DOMAIN Told(d) = 1 .. 2 * Cardinality(d.deferred)
      BY DEF Told
    <3>3. Told(d) = [i \in {} |->
                       Buffered(d, InOrder(d.deferred)[(i + 1) \div 2])[IF i % 2 = 1 THEN 1 ELSE 2]]
      BY <2>8, <3>1 DEF Told
    <3> QED
      BY <3>3
  <2> QED
    BY <2>8, <2>10, <2>11 DEF Same
<1>12. Len(journal) # 2
  BY <1>2, <1>4, <1>11 DEF Final
<1>13. h[3].log = Append(<<RunStarted>>, NodeStarted(Fan)) /\ 3 \in 0 .. Len(journal)
  <2>1. 3 \in 1 .. Len(journal) /\ 3 - 1 = 2 /\ 3 \in 0 .. Len(journal)
    <3>1. \A n \in Nat : n # 0 /\ n # 1 /\ n # 2 => 3 <= n
      OBVIOUS
    <3>2. 3 <= Len(journal)
      BY <1>0, <1>8, <1>10, <1>12, <3>1
    <3> QED
      BY <1>0, <3>2
  <2>2. Turn(Settled(h[2]), journal[3], h[3])
    BY <1>1, <2>1
  <2>3. h[3] = Wrote(h[2])
    BY <1>11, <2>2 DEF Turn, Settled, After
  <2>4. Head(h[2].outbox) = NodeStarted(Fan)
    BY <1>11
  <2>5. h[3].log = Append(h[2].log, Head(h[2].outbox))
    BY <1>11, <2>3, WroteFields
  <2> QED
    BY <1>11, <2>1, <2>4, <2>5
<1>14. PICK s : s = h[3].log
  OBVIOUS
<1>15. Len(s) = 2 /\ s[2] = NodeStarted(Fan) /\ Begins(s, stream)
  <2> DEFINE o == <<RunStarted>>
             e == NodeStarted(Fan)
  <2>1. o \in Seq(Events) /\ Len(o) = 1 /\ e \in Events
    BY EventTypes DEF Fan
  <2>2. s = Append(o, e) /\ Begins(s, stream)
    BY <1>1, <1>13, <1>14
  <2> HIDE DEF o, e
  <2>3. Len(s) = Len(o) + 1 /\ s[Len(o) + 1] = e
    BY <2>1, <2>2, AppendProperties
  <2> QED
    BY <2>1, <2>2, <2>3 DEF e
<1>16. stream[2] = NodeStarted(Fan) /\ 2 <= Len(stream)
  BY <1>15 DEF Begins
<1>17. DOMAIN stream = 1 .. Len(stream) /\ Len(stream) \in Nat
  BY <1>2, StreamIsSaid
<1> QED
  BY <1>16, <1>17 DEF Has

LEMMA SaidSpan ==
    ASSUME NEW r, Memory(r)
    PROVE  \E n \in Nat : DOMAIN Said(r) = 1 .. n
<1> DEFINE n == Len(r.log) + Len(r.outbox)
<1>1. r.log \in Seq(Events) /\ r.outbox \in Seq(Events)
  BY DEF Memory, Inner
<1>2. Len(r.log) \in Nat /\ Len(r.outbox) \in Nat
  BY <1>1
<1>3. n \in Nat
  <2>1. \A a, b \in Nat : a + b \in Nat
    OBVIOUS
  <2> QED
    BY <1>2, <2>1, Zenon
<1>4. DOMAIN Said(r) = 1 .. n
  BY Zenon DEF Said
<1> QED
  BY <1>3, <1>4

\* What follows once a node has finished: all it took is told, and before its end.
LEMMA AllIsTold ==
    ASSUME NEW tip, Memory(tip), Tale(tip), Branching(tip), node \in Nodes,
           Len(stream) \in Nat, DOMAIN stream = 1 .. Len(stream),
           NEW end \in DOMAIN stream,
           IsFanEnd(stream[end]) \/ stream[end][1] = "run_finished",
           \A i \in DOMAIN stream : i \in DOMAIN Said(tip) /\ Said(tip)[i] = stream[i]
    PROVE  /\ Shown(tip) = Taken(tip) /\ tip.then \in Final
           /\ \A i \in DOMAIN Said(tip) : Said(tip)[i][1] \notin {"run_finished", "node_finished"}
                 => i \in DOMAIN stream /\ stream[i] = Said(tip)[i] /\ i < end
           /\ \A i \in DOMAIN Said(tip), k \in Kids : \A word :
                 Said(tip)[i] = NodeFinished(k, word)
                 => i \in DOMAIN stream /\ stream[i] = NodeFinished(k, word) /\ i < end
<1>1. PICK N \in Nat : DOMAIN Said(tip) = 1 .. N
  BY SaidSpan
<1>2. Known(tip, stream[end]) /\ end \in 1 .. N /\ Said(tip)[end] = stream[end]
  BY <1>1 DEF Tale
<1>3. tip.then \in Final
  BY <1>2, KnownParts DEF Memory, Final
<1>4. Shown(tip) = Taken(tip)
  BY <1>3 DEF Memory, Inner, Shown
<1>5. \A i \in 1 .. N : i > end =>
         Said(tip)[i][1] = "run_finished" /\ IsFanEnd(Said(tip)[end])
  BY <1>1, <1>2 DEF Tale, Closing
<1>6. \A i \in 1 .. N : i < end => i \in DOMAIN stream /\ stream[i] = Said(tip)[i]
  BY <1>1, <1>2
<1>7. \A i \in 1 .. N : i < end \/ i = end \/ i > end
  BY <1>1, <1>2
<1>8. ASSUME NEW i \in DOMAIN Said(tip), Said(tip)[i][1] \notin {"run_finished", "node_finished"}
      PROVE  i \in DOMAIN stream /\ stream[i] = Said(tip)[i] /\ i < end
  <2>1. i \in 1 .. N /\ i # end
    BY <1>1, <1>2, <1>8 DEF IsFanEnd
  <2>2. ~(i > end)
    BY <1>5, <1>8, <2>1
  <2> QED
    BY <1>6, <1>7, <2>1, <2>2
<1>9. ASSUME NEW i \in DOMAIN Said(tip), NEW k \in Kids, NEW word,
             Said(tip)[i] = NodeFinished(k, word)
      PROVE  i \in DOMAIN stream /\ stream[i] = NodeFinished(k, word) /\ i < end
  <2>1. k # Fan
    BY DEF Kids, Fan
  <2>2. Said(tip)[i][1] = "node_finished" /\ Said(tip)[i][2] = k
    BY <1>9, EventParts
  <2>3. i \in 1 .. N /\ i # end
    BY <1>1, <1>2, <2>1, <2>2 DEF IsFanEnd
  <2>4. ~(i > end)
    BY <1>5, <2>2, <2>3
  <2> QED
    BY <1>6, <1>7, <1>9, <2>3, <2>4
<1> QED
  BY <1>3, <1>4, <1>8, <1>9

\* The branches told are those shown, and their ends follow their starts.
LEMMA ToldAreShown ==
    ASSUME NEW tip, Memory(tip), Tale(tip), Branching(tip), node \in Nodes,
           Len(stream) \in Nat, DOMAIN stream = 1 .. Len(stream),
           \A i \in DOMAIN stream : i \in DOMAIN Said(tip) /\ Said(tip)[i] = stream[i]
    PROVE  /\ ToldKids \subseteq Shown(tip) /\ Taken(tip) \subseteq Kids
           /\ \A k \in Shown(tip) : branches[k] = Word(tip, k) /\ branches[k] \in FanWords
           /\ \A k \in ToldKids : \E i \in DOMAIN stream :
                 /\ i + 1 \in DOMAIN stream
                 /\ stream[i] = NodeStarted(k) /\ stream[i + 1] = NodeFinished(k, branches[k])
<1>1. PICK N \in Nat : DOMAIN Said(tip) = 1 .. N
  BY SaidSpan
<1>2. Taken(tip) \subseteq Kids
  BY NodeFacts DEF Memory, Inner, Kids
<1>3. \A k \in Shown(tip) : branches[k] = Word(tip, k) /\ branches[k] \in FanWords
  BY DEF Shown, Taken, Word, Branching, FanWords
<1>4. ASSUME NEW k \in ToldKids
      PROVE  k \in Shown(tip) /\ \E i \in DOMAIN stream :
                /\ i + 1 \in DOMAIN stream
                /\ stream[i] = NodeStarted(k) /\ stream[i + 1] = NodeFinished(k, branches[k])
  <2>1. PICK j \in DOMAIN stream : stream[j] = NodeFinished(k, branches[k])
    BY DEF ToldKids, Has
  <2>2. j \in 1 .. N /\ Said(tip)[j] = NodeFinished(k, branches[k]) /\ Known(tip, stream[j])
    BY <1>1, <2>1 DEF Tale
  <2>3. k # Fan
    BY DEF ToldKids, Kids, Fan
  <2>4. k \in Shown(tip) /\ branches[k] = Word(tip, k)
    <3>1. Known(tip, NodeFinished(k, branches[k]))
      BY <2>1, <2>2
    <3> QED
      BY <2>3, <3>1, KnownParts DEF Memory
  <2>5. PICK i \in 1 .. N : /\ i + 1 \in 1 .. N /\ Said(tip)[i] = NodeStarted(k)
                            /\ Said(tip)[i + 1] = NodeFinished(k, branches[k])
    BY <1>1, <2>4 DEF Tale, Paired
  <2>6. i + 1 = j
    <3>1. ~(i + 1 < j) /\ ~(j < i + 1)
      BY <1>1, <2>2, <2>5 DEF Tale, Once
    <3>2. i + 1 \in Int /\ j \in Int
      BY <2>2, <2>5
    <3> QED
      BY <3>1, <3>2
  <2>7. i \in DOMAIN stream /\ i + 1 \in DOMAIN stream
    BY <2>1, <2>5, <2>6
  <2>8. stream[i] = NodeStarted(k) /\ stream[i + 1] = NodeFinished(k, branches[k])
    BY <2>5, <2>7
  <2> QED
    BY <2>4, <2>7, <2>8
<1> QED
  BY <1>2, <1>3, <1>4

\* The results in the journal are those of the branches taken.
LEMMA TakenAreTaken ==
    ASSUME NEW tip, Branching(tip), Results(tip), Taken(tip) \subseteq Kids
    PROVE  TakenKids = Taken(tip)
<1>1. ASSUME NEW k \in Taken(tip) PROVE k \in TakenKids
  <2>1. PICK i \in DOMAIN journal : journal[i].step = "result" /\ journal[i].about = <<k>>
    BY DEF Results
  <2>2. PICK l \in Kids : journal[i].about = <<l>> /\ journal[i].answer = branches[l]
    BY <2>1 DEF Results
  <2>3. l = k
    BY <2>1, <2>2
  <2>4. branches[k] # "error"
    BY DEF Branching, Taken
  <2> QED
    BY <2>1, <2>2, <2>3, <2>4 DEF TakenKids
<1>2. ASSUME NEW k \in TakenKids PROVE k \in Taken(tip)
  BY DEF TakenKids, Results
<1> QED
  BY <1>1, <1>2

(* The log of a run tells every event once, a branch's end right after its      *)
(* start; of a node that finished it tells exactly the branches a result was    *)
(* taken from, before the node's own end, and they are what the run's bill      *)
(* counts (StreamEventSink.emit, defer).                                       *)
THEOREM LogHolds == Spec => []LogIsWhole
<1>1. RunInv => LogIsWhole
  <2> SUFFICES ASSUME RunInv PROVE LogIsWhole
    OBVIOUS
  <2>1. PICK h : Holds(h)
    BY DEF RunInv
  <2>2. PICK tip : tip = h[Len(journal)]
    OBVIOUS
  <2>3. /\ Memory(tip) /\ Tale(tip) /\ node \in Nodes /\ Branching(tip) /\ Results(tip)
        /\ Len(stream) \in Nat /\ DOMAIN stream = 1 .. Len(stream)
        /\ \A i \in DOMAIN stream : i \in DOMAIN Said(tip) /\ Said(tip)[i] = stream[i]
        /\ \A i \in DOMAIN stream : Known(tip, stream[i])
    BY <2>1, <2>2, StreamIsSaid
  <2>4. Once(stream) /\ \A i, j \in DOMAIN stream : i < j \/ j < i \/ i = j
    BY <2>3 DEF Tale, Once
  <2>5. IsInjective(stream)
    BY <2>4 DEF IsInjective, Once
  <2>6. /\ ToldKids \subseteq Shown(tip) /\ Taken(tip) \subseteq Kids
        /\ \A k \in Shown(tip) : branches[k] = Word(tip, k) /\ branches[k] \in FanWords
        /\ \A k \in ToldKids : \E i \in DOMAIN stream :
              /\ i + 1 \in DOMAIN stream
              /\ stream[i] = NodeStarted(k) /\ stream[i + 1] = NodeFinished(k, branches[k])
    BY <2>3, ToldAreShown
  <2>7. \A k \in ToldKids : Place(NodeFinished(k, branches[k])) = Place(NodeStarted(k)) + 1
    <3>1. SUFFICES ASSUME NEW k \in ToldKids
                   PROVE  Place(NodeFinished(k, branches[k])) = Place(NodeStarted(k)) + 1
      OBVIOUS
    <3>2. PICK i \in DOMAIN stream :
              /\ i + 1 \in DOMAIN stream
              /\ stream[i] = NodeStarted(k) /\ stream[i + 1] = NodeFinished(k, branches[k])
      BY <2>6
    <3>3. Place(NodeStarted(k)) = i
      BY <2>4, <3>2, PlaceIsThere
    <3>4. Place(NodeFinished(k, branches[k])) = i + 1
      BY <2>4, <3>2, PlaceIsThere
    <3> QED
      BY <3>3, <3>4
  \* Of a node or a run that ended.
  <2>8. ASSUME NEW end \in DOMAIN stream,
               IsFanEnd(stream[end]) \/ stream[end][1] = "run_finished"
        PROVE  /\ ToldKids = Taken(tip) /\ tip.then \in Final
               /\ \A k \in ToldKids : Place(NodeFinished(k, branches[k])) < end
    <3>1. /\ Shown(tip) = Taken(tip) /\ tip.then \in Final
          /\ \A i \in DOMAIN Said(tip), k \in Kids : \A word :
                Said(tip)[i] = NodeFinished(k, word)
                => i \in DOMAIN stream /\ stream[i] = NodeFinished(k, word) /\ i < end
      <4>1. /\ Shown(tip) = Taken(tip) /\ tip.then \in Final
            /\ \A i \in DOMAIN Said(tip) :
                  Said(tip)[i][1] \notin {"run_finished", "node_finished"}
                  => i \in DOMAIN stream /\ stream[i] = Said(tip)[i] /\ i < end
            /\ \A i \in DOMAIN Said(tip), k \in Kids : \A word :
                  Said(tip)[i] = NodeFinished(k, word)
                  => i \in DOMAIN stream /\ stream[i] = NodeFinished(k, word) /\ i < end
        BY <2>3, <2>8, AllIsTold
      <4> QED
        BY <4>1
    <3>2. ASSUME NEW k \in Taken(tip)
          PROVE  k \in ToldKids /\ Place(NodeFinished(k, branches[k])) < end
      <4>1. PICK i \in DOMAIN Said(tip) : Said(tip)[i + 1] = NodeFinished(k, Word(tip, k))
                                          /\ i + 1 \in DOMAIN Said(tip)
        BY <2>3, <3>1, <3>2 DEF Tale, Paired
      <4>2. branches[k] = Word(tip, k) /\ k \in Kids
        BY <2>6, <3>1, <3>2
      <4>3. i + 1 \in DOMAIN stream /\ stream[i + 1] = NodeFinished(k, branches[k]) /\ i + 1 < end
        BY <3>1, <4>1, <4>2
      <4>4. Place(NodeFinished(k, branches[k])) = i + 1 /\ Has(NodeFinished(k, branches[k]))
        BY <2>4, <4>3, PlaceIsThere
      <4> QED
        BY <4>2, <4>3, <4>4 DEF ToldKids
    <3> QED
      BY <2>6, <3>1, <3>2
  <2>9. TakenKids = Taken(tip)
    BY <2>3, <2>6, TakenAreTaken
  <2>10. ASSUME NEW word, Has(FanEnd(word))
         PROVE  /\ ToldKids = TakenKids
                /\ \A k \in ToldKids : Place(NodeFinished(k, branches[k])) < Place(FanEnd(word))
    <3>1. PICK end \in DOMAIN stream : stream[end] = FanEnd(word)
      BY <2>10 DEF Has
    <3>2. Place(FanEnd(word)) = end
      BY <2>4, <3>1, PlaceIsThere
    <3>3. IsFanEnd(stream[end])
      BY <3>1, EventParts DEF FanEnd, IsFanEnd
    <3> QED
      BY <2>8, <2>9, <3>2, <3>3
  <2>11. ASSUME FanEnded
         PROVE  {n \in Kids \cup {Fan} : Has(NodeStarted(n))} = ToldKids \cup {Fan}
    <3>1. Has(NodeStarted(Fan))
      BY <2>1, <2>11, OpensWithTheNode
    <3>2. \A k \in ToldKids : Has(NodeStarted(k)) /\ k \in Kids
      BY <2>6 DEF Has, ToldKids
    <3>3. Shown(tip) \subseteq ToldKids
      <4>1. ToldKids = TakenKids
        BY <2>10, <2>11 DEF FanEnded
      <4> QED
        BY <2>9, <4>1 DEF Shown
    <3>4. ASSUME NEW n \in Kids, Has(NodeStarted(n)) PROVE n \in ToldKids \cup {Fan}
      <4>1. Known(tip, NodeStarted(n))
        BY <2>3, <3>4 DEF Has
      <4>2. NodeStarted(n)[1] = "node_started" /\ NodeStarted(n)[2] = n
        BY EventParts
      <4>3. n \in Shown(tip) \cup {Fan}
        BY <2>3, <4>1, <4>2, KnownParts DEF Memory
      <4> QED
        BY <3>3, <4>3
    <3> QED
      BY <3>1, <3>2, <3>4
  <2>12. ASSUME Finished(stream)
         PROVE  stream[Len(stream)][2] = Cardinality(ToldKids)
    <3>1. Len(stream) \in DOMAIN stream /\ stream[Len(stream)][1] = "run_finished"
      <4>1. Len(stream) # 0
        <5>1. stream \in Seq(Events)
          BY <2>1, TipFacts DEF Holds
        <5> QED
          BY <2>12, <5>1 DEF Finished
      <4> QED
        BY <2>3, <2>12, <4>1 DEF Finished
    <3>2. Known(tip, stream[Len(stream)])
      BY <2>3, <3>1
    <3>3. stream[Len(stream)][2] = tip.bill
      BY <2>3, <3>1, <3>2, KnownParts DEF Memory
    <3>4. ToldKids = Taken(tip)
      BY <2>8, <3>1
    <3> QED
      BY <2>3, <3>3, <3>4 DEF Tale, Counted
  <2> QED
    BY <2>5, <2>7, <2>10, <2>11, <2>12 DEF LogIsWhole, FanEnded
<1> QED
  BY <1>1, RunInvHolds, PTL

\* The first result the journal keeps.
LEMMA FirstOfTheResults ==
    ASSUME NEW i \in DOMAIN journal, journal[i].step = "result", Len(journal) \in Nat,
           DOMAIN journal = 1 .. Len(journal)
    PROVE  FirstResult \in DOMAIN journal /\ journal[FirstResult].step = "result"
<1> DEFINE ks == {j \in DOMAIN journal : journal[j].step = "result"}
<1>1. ks \in SUBSET Nat /\ ks # {}
  OBVIOUS
<1> HIDE DEF ks
<1>2. PICK f \in ks : \A l \in ks : f <= l
  BY <1>1, LeastOfMany
<1>3. \A j \in 1 .. f - 1 : j \in DOMAIN journal /\ ~(f <= j)
  BY <1>2 DEF ks
<1>4. \A j \in 1 .. f - 1 : journal[j].step # "result"
  BY <1>2, <1>3 DEF ks
<1>5. f \in DOMAIN journal /\ journal[f].step = "result"
  BY <1>2 DEF ks
<1> QED
  BY <1>4, <1>5 DEF FirstResult

\* What a verdict on the branches taken promises of how all of them ended.
LEMMA VerdictKeepsThePromise ==
    ASSUME NEW tip, Memory(tip), Branching(tip), Results(tip), node \in Nodes,
           Taken(tip) \subseteq Kids, Len(journal) \in Nat,
           DOMAIN journal = 1 .. Len(journal),
           Ended("error") = {}, NEW word \in FanWords, Verdict(tip, word)
    PROVE  LET won == word = "ok" IN
           /\ node.policy \in {"all", "fail"} => (won <=> Ended("ok") = Kids)
           /\ node.policy = "any" => (won <=> journal[FirstResult].answer = "ok")
           /\ node.policy = "first_success" => (won <=> Ended("ok") # {})
           /\ node.policy \in {"quorum_skip", "quorum_fail"} /\ won =>
                 Cardinality(Ended("ok")) >= node.minOk
           /\ node.policy = "quorum_skip" /\ ~won =>
                 node.width - Cardinality(Ended("failed")) < node.minOk
           /\ node.policy = "quorum_fail" =>
                 IF won THEN Ended("failed") \cap TakenKids = {}
                 ELSE Ended("failed") # {} \/ node.width < node.minOk
           /\ node.policy \in {"skip", "default"} => won
<1>1. tip.good \subseteq Ended("ok") /\ tip.bad \subseteq Ended("failed")
  BY DEF Branching, Taken, Ended
<1>2. Ended("ok") \cap Ended("failed") = {} /\ Ended("ok") \subseteq Kids
      /\ Ended("failed") \subseteq Kids
  BY DEF Ended
<1>3. /\ IsFiniteSet(Kids) /\ IsFiniteSet(Ended("ok")) /\ IsFiniteSet(Ended("failed"))
  <2>1. IsFiniteSet(Kids)
    BY NodeFacts, FS_Interval DEF Kids
  <2> QED
    BY <1>2, <2>1, FS_Subset
<1>4. /\ Cardinality(tip.good) \in Nat /\ Cardinality(Ended("ok")) \in Nat
      /\ Cardinality(tip.good) <= Cardinality(Ended("ok"))
  BY <1>1, <1>3, FS_Subset, FS_CardinalityType
<1>5. /\ Cardinality(tip.bad) \in Nat /\ Cardinality(Ended("failed")) \in Nat
      /\ Cardinality(tip.bad) <= Cardinality(Ended("failed"))
  BY <1>1, <1>3, FS_Subset, FS_CardinalityType
<1>6. node.width \in Nat /\ node.minOk \in Nat
  BY NodeFacts
<1>7. word = "ok" \/ word = "failed"
  BY DEF FanWords
<1>8. ASSUME node.policy \in {"all", "fail"} PROVE word = "ok" <=> Ended("ok") = Kids
  <2>1. CASE word = "ok"
    BY <1>1, <1>2, <1>8, <2>1 DEF Verdict
  <2>2. CASE word = "failed"
    BY <1>1, <1>2, <1>8, <2>2 DEF Verdict
  <2> QED
    BY <1>7, <2>1, <2>2
<1>9. ASSUME node.policy = "any" PROVE word = "ok" <=> journal[FirstResult].answer = "ok"
  <2>1. Taken(tip) # {}
    BY <1>7, <1>9 DEF Verdict, Taken
  <2>2. PICK i \in DOMAIN journal : journal[i].step = "result"
    BY <2>1 DEF Results
  <2>3. FirstResult \in DOMAIN journal /\ journal[FirstResult].step = "result"
    BY <2>2, FirstOfTheResults
  <2>4. PICK k \in Kids : /\ journal[FirstResult].about = <<k>>
                          /\ journal[FirstResult].answer = branches[k] /\ branches[k] \in Ends
    BY <2>3 DEF Results
  <2>5. k \in Taken(tip)
    <3>1. branches[k] # "error"
      BY DEF Ended
    <3> QED
      BY <2>3, <2>4, <3>1 DEF Results
  <2>6. CASE word = "ok"
    <3>1. tip.bad = {} /\ tip.good # {}
      BY <1>9, <2>6 DEF Verdict
    <3> QED
      BY <2>4, <2>5, <2>6, <3>1 DEF Taken, Branching
  <2>7. CASE word = "failed"
    <3>1. tip.good = {}
      BY <1>9, <2>7 DEF Verdict
    <3>2. branches[k] = "ok" => k \in tip.bad
      BY <2>5, <3>1 DEF Taken
    <3> QED
      BY <2>4, <2>7, <3>2 DEF Branching
  <2> QED
    BY <1>7, <2>6, <2>7
<1>10. ASSUME node.policy = "first_success" PROVE word = "ok" <=> Ended("ok") # {}
  <2>1. CASE word = "ok"
    BY <1>1, <1>10, <2>1 DEF Verdict
  <2>2. CASE word = "failed"
    BY <1>1, <1>2, <1>10, <2>2 DEF Verdict
  <2> QED
    BY <1>7, <2>1, <2>2
<1>11. ASSUME node.policy \in {"quorum_skip", "quorum_fail"}, word = "ok"
       PROVE  Cardinality(Ended("ok")) >= node.minOk
  BY <1>4, <1>6, <1>11 DEF Verdict, Enough
<1>12. ASSUME node.policy = "quorum_skip", word # "ok"
       PROVE  node.width - Cardinality(Ended("failed")) < node.minOk
  <2>1. node.width - Cardinality(tip.bad) < node.minOk
    BY <1>12 DEF Verdict
  <2> QED
    BY <1>5, <1>6, <2>1
<1>13. ASSUME node.policy = "quorum_fail"
       PROVE  IF word = "ok" THEN Ended("failed") \cap TakenKids = {}
              ELSE Ended("failed") # {} \/ node.width < node.minOk
  <2>1. CASE word = "ok"
    <3>1. tip.bad = {} /\ TakenKids = Taken(tip)
      BY <1>13, <2>1, TakenAreTaken DEF Verdict
    <3> QED
      BY <1>1, <1>2, <2>1, <3>1 DEF Taken
  <2>2. CASE word = "failed"
    BY <1>1, <1>13, <2>2 DEF Verdict
  <2> QED
    BY <1>7, <2>1, <2>2
<1>14. node.policy \in {"skip", "default"} => word = "ok"
  BY DEF Verdict
<1> QED
  BY <1>8, <1>9, <1>10, <1>11, <1>12, <1>13, <1>14

(* Every policy keeps its promise, by how the branches ended and not only by    *)
(* what the run had seen of them when it decided.                              *)
THEOREM PoliciesKeepTheirPromise == Spec => []JoinKeepsItsPromise
<1>1. RunInv => JoinKeepsItsPromise
  <2> SUFFICES ASSUME RunInv, NEW word \in FanWords, Has(FanEnd(word)), Ended("error") = {}
               PROVE  LET won == word = "ok" IN
                      /\ node.policy \in {"all", "fail"} => (won <=> Ended("ok") = Kids)
                      /\ node.policy = "any" => (won <=> journal[FirstResult].answer = "ok")
                      /\ node.policy = "first_success" => (won <=> Ended("ok") # {})
                      /\ node.policy \in {"quorum_skip", "quorum_fail"} /\ won =>
                            Cardinality(Ended("ok")) >= node.minOk
                      /\ node.policy = "quorum_skip" /\ ~won =>
                            node.width - Cardinality(Ended("failed")) < node.minOk
                      /\ node.policy = "quorum_fail" =>
                            IF won THEN Ended("failed") \cap TakenKids = {}
                            ELSE Ended("failed") # {} \/ node.width < node.minOk
                      /\ node.policy \in {"skip", "default"} =>
                            won /\ {k \in Kids : Has(ItemRecovered(k))} = Ended("failed")
    BY DEF JoinKeepsItsPromise
  <2>1. PICK h : Holds(h)
    BY DEF RunInv
  <2>2. PICK tip : tip = h[Len(journal)]
    OBVIOUS
  <2>3. /\ Memory(tip) /\ Tale(tip) /\ node \in Nodes /\ Branching(tip) /\ Results(tip)
        /\ Justice(tip)
        /\ Len(stream) \in Nat /\ DOMAIN stream = 1 .. Len(stream)
        /\ \A i \in DOMAIN stream : i \in DOMAIN Said(tip) /\ Said(tip)[i] = stream[i]
        /\ \A i \in DOMAIN stream : Known(tip, stream[i])
    BY <2>1, <2>2, StreamIsSaid
  <2>4. word = tip.outcome /\ tip.then \in Final
    BY <2>3, FinishedFacts
  <2>5. Verdict(tip, word)
    <3>1. Judged(tip)
      BY <2>3 DEF Justice, Ended
    <3>2. tip.outcome # "open"
      BY <2>4 DEF FanWords
    <3> QED
      BY <2>4, <3>1, <3>2 DEF Judged
  <2>6. Taken(tip) \subseteq Kids
    BY <2>3, ToldAreShown
  <2>7. Len(journal) \in Nat /\ DOMAIN journal = 1 .. Len(journal)
    BY <2>1 DEF Holds, Lives
  <2>8. ASSUME node.policy \in {"skip", "default"}
        PROVE  {k \in Kids : Has(ItemRecovered(k))} = Ended("failed")
    <3>1. ASSUME NEW k \in Kids, Has(ItemRecovered(k)) PROVE k \in Ended("failed")
      <4>1. Known(tip, ItemRecovered(k))
        BY <2>3, <3>1 DEF Has
      <4>2. k \in tip.bad
        BY <2>3, <4>1, KnownParts DEF Memory
      <4> QED
        BY <2>3, <4>2 DEF Branching, Ended
    <3>2. ASSUME NEW k \in Ended("failed") PROVE k \in Kids /\ Has(ItemRecovered(k))
      <4>1. k \in Kids /\ branches[k] = "failed"
        BY <3>2 DEF Ended
      <4>2. k \in tip.bad /\ Recovered(tip)
        BY <2>3, <2>5, <2>8, <4>1 DEF Verdict, Taken, Branching
      <4>3. PICK i \in DOMAIN Said(tip) : Said(tip)[i] = ItemRecovered(k)
        BY <4>2 DEF Recovered
      <4>4. PICK end \in DOMAIN stream : stream[end] = FanEnd(word)
        BY DEF Has
      <4>5. IsFanEnd(stream[end])
        BY <4>4, EventParts DEF FanEnd, IsFanEnd
      <4>6. Said(tip)[i][1] \notin {"run_finished", "node_finished"}
        BY <4>3, EventParts
      <4>7. \A j \in DOMAIN Said(tip) : Said(tip)[j][1] \notin {"run_finished", "node_finished"}
              => j \in DOMAIN stream /\ stream[j] = Said(tip)[j] /\ j < end
        BY <2>3, <4>5, AllIsTold
      <4> QED
        BY <4>1, <4>3, <4>6, <4>7 DEF Has
    <3> QED
      BY <3>1, <3>2 DEF Ended
  <2> QED
    BY <2>3, <2>5, <2>6, <2>7, <2>8, VerdictKeepsThePromise
<1> QED
  BY <1>1, RunInvHolds, PTL

-----------------------------------------------------------------------------
(* The summary row. A projection and a listing hold a prefix of the stream;    *)
(* only the whole of it can be a prefix that has finished, and a listing that  *)
(* saw the run over folds a stream nobody writes to any more.                  *)

RowFields == {"admission", "seq", "log", "settled", "seen"}
ListerFields == {"at", "backfills", "seen", "log"}

\* The listing that settled the row is over, and no other will read it.
Over == row.admission = "listed" /\ row.seen = status /\ status # "PENDING" /\ lister.at = "idle"

RowTrue ==
    /\ DOMAIN row = RowFields
    /\ row.log \in Seq(Events) /\ Begins(row.log, stream) /\ row.seq = Len(row.log)
    /\ (row.admission = "none" => ~row.settled)
    /\ (row.settled => row.log = stream /\ (Finished(stream) \/ Over))

ListerTrue ==
    /\ DOMAIN lister = ListerFields
    /\ lister.at \in {"fold", "apply", "repair"} /\ lister.seen # "PENDING" =>
          lister.seen = status
    /\ lister.at = "repair" =>
          /\ lister.log \in Seq(Events) /\ Begins(lister.log, stream)
          /\ (lister.seen # "PENDING" => lister.log = stream)

RowInv == RowTrue /\ ListerTrue

\* What there is of the stream is all there will be once it shows the run's end.
LEMMA FinishedIsAll ==
    ASSUME RunInv
    PROVE  /\ stream \in Seq(Events)
           /\ \A s \in Seq(Events) : Begins(s, stream) /\ Finished(s) => s = stream
<1>1. PICK h : Holds(h)
  BY DEF RunInv
<1>2. PICK tip : tip = h[Len(journal)]
  OBVIOUS
<1>3. /\ Tale(tip) /\ Len(stream) \in Nat /\ DOMAIN stream = 1 .. Len(stream)
      /\ \A i \in DOMAIN stream : i \in DOMAIN Said(tip) /\ Said(tip)[i] = stream[i]
  BY <1>1, <1>2, StreamIsSaid
<1>4. Closing(stream)
  BY <1>3 DEF Tale, Closing
<1>5. stream \in Seq(Events)
  BY <1>1, TipFacts DEF Holds
<1>6. ASSUME NEW s \in Seq(Events), Begins(s, stream), Finished(s) PROVE s = stream
  <2>1. Len(s) \in Nat /\ Len(s) # 0 /\ s[Len(s)][1] = "run_finished"
    BY <1>6 DEF Finished
  <2>2. Len(s) <= Len(stream) /\ stream[Len(s)] = s[Len(s)]
    BY <1>6, <2>1 DEF Begins
  <2>3. ~(Len(s) < Len(stream))
    <3>1. SUFFICES ASSUME Len(s) < Len(stream) PROVE FALSE
      OBVIOUS
    <3>2. Len(s) \in DOMAIN stream /\ Len(stream) \in DOMAIN stream
      BY <1>3, <2>1, <3>1
    <3> QED
      BY <1>4, <2>1, <2>2, <3>1, <3>2 DEF Closing
  <2>4. Len(stream) <= Len(s)
    BY <1>3, <2>1, <2>3
  <2>5. \A t \in Seq(Events) : Begins(s, t) /\ Len(t) <= Len(s) => s = t
    <3>1. RunStarted \in Events
      BY EventTypes
    <3> QED
      BY <3>1, BeginsFacts
  <2> QED
    BY <1>5, <1>6, <2>4, <2>5
<1> QED
  BY <1>5, <1>6

\* Only a run that goes on and has not finished writes.
LEMMA StreamMoves ==
    ASSUME RunInv, [Next]_vars
    PROVE  /\ stream' # stream =>
                 /\ status = "PENDING" /\ ~Finished(stream)
                 /\ \E e \in Events : stream' = Append(stream, e)
           /\ (status' # status => status = "PENDING" /\ stream' = stream)
<1>1. CASE Boundary \/ WriteEvent \/ StartBranch \/ FirstFinished \/ Collect \/ CancelPending
  <2>1. PICK answer : Acts(answer)
    BY <1>1, StepsAct
  <2>2. PICK h : Holds(h)
    BY DEF RunInv
  <2>3. PICK g : ActsOn(h, g, answer)
    BY <2>1, <2>2, ActsMove DEF Holds
  <2>4. status' = status /\ status = "PENDING"
    BY <2>1, <2>3 DEF Acts, ActsOn
  <2>5. ASSUME stream' # stream
        PROVE  ~Finished(stream) /\ \E e \in Events : stream' = Append(stream, e)
    <3>1. ~Replaying /\ run.at = "write" /\ stream' = Append(stream, Head(run.outbox))
      BY <2>1, <2>5 DEF Acts
    <3>2. Memory(run) /\ Tale(run) /\ stream = run.log
      BY <2>3, <3>1 DEF ActsOn
    <3>3. stream \in Seq(Events) /\ run.outbox \in Seq(Events) /\ run.outbox # <<>>
      BY <3>1, <3>2 DEF Memory, Inner
    <3>4. Head(run.outbox) \in Events
      BY <3>3
    <3> DEFINE L == Len(run.log)
               m == Len(run.outbox)
    <3>5. L \in Nat /\ m \in Nat /\ m # 0 /\ L = Len(stream)
      BY <3>2, <3>3
    <3>6. Said(run) = [i \in 1 .. L + m |->
                         IF i <= L THEN run.log[i] ELSE run.outbox[i - L]]
      BY DEF Said
    <3> HIDE DEF L, m
    <3>7. ~Finished(stream)
      <4>1. SUFFICES ASSUME Finished(stream) PROVE FALSE
        OBVIOUS
      <4>2. L # 0 /\ stream[L][1] = "run_finished"
        BY <3>3, <3>5, <4>1 DEF Finished
      <4>3. L \in 1 .. L + m /\ L + 1 \in 1 .. L + m /\ L < L + 1 /\ L <= L
        BY <3>5, <4>2
      <4>4. Said(run)[L] = stream[L] /\ DOMAIN Said(run) = 1 .. L + m
        BY <3>2, <3>6, <4>3
      <4> QED
        BY <3>2, <4>2, <4>3, <4>4 DEF Tale, Closing
    <3> QED
      BY <3>1, <3>4, <3>7
  <2> QED
    BY <2>4, <2>5
<1>2. CASE Return \/ CancelRun
  BY <1>2 DEF Return, CancelRun
<1>3. CASE Project \/ ProjectFails \/ ListStep \/ Crash \/ UNCHANGED vars
  BY <1>3 DEF Project, ProjectFails, ListStep, ListReads, ListObserves, ListFolds, ListApplies,
              Crash, vars
<1>4. CASE SomeBranchEnds
  BY <1>4 DEF SomeBranchEnds, BranchEnds
<1> QED
  BY <1>1, <1>2, <1>3, <1>4 DEF Next, RunStep

\* A prefix of the stream stays one, and one settled stays whole.
LEMMA RowsStay ==
    ASSUME RunInv, [Next]_vars, RowInv, UNCHANGED row,
           lister' = lister \/ (DOMAIN lister' = ListerFields /\ lister'.at = "idle")
    PROVE  RowInv'
<1>1. stream \in Seq(Events)
  BY FinishedIsAll
<1>2. /\ stream' # stream =>
            /\ status = "PENDING" /\ ~Finished(stream)
            /\ \E e \in Events : stream' = Append(stream, e)
      /\ (status' # status => status = "PENDING" /\ stream' = stream)
  BY StreamMoves
<1>3. \A s \in Seq(Events) : Begins(s, stream) => Begins(s, stream')
  <2>1. CASE stream' = stream
    BY <2>1
  <2>2. CASE stream' # stream
    <3>1. PICK e \in Events : stream' = Append(stream, e)
      BY <1>2, <2>2
    <3>2. \A s, t \in Seq(Events) : Begins(s, t) => Begins(s, Append(t, e))
      BY BeginsFacts
    <3> QED
      BY <1>1, <3>1, <3>2
  <2> QED
    BY <2>1, <2>2
<1>4. RowTrue'
  <2>1. row.settled => /\ row.log = stream' /\ stream' = stream
                       /\ (Finished(stream) \/ Over')
    <3>1. SUFFICES ASSUME row.settled
                   PROVE  row.log = stream' /\ stream' = stream /\ (Finished(stream) \/ Over')
      OBVIOUS
    <3>2. row.log = stream /\ (Finished(stream) \/ Over)
      BY <3>1 DEF RowInv, RowTrue
    <3>3. CASE Finished(stream)
      BY <1>2, <3>2, <3>3
    <3>4. CASE Over
      BY <1>2, <3>2, <3>4 DEF Over
    <3> QED
      BY <3>2, <3>3, <3>4
  <2>2. /\ DOMAIN row = RowFields /\ row.log \in Seq(Events) /\ Begins(row.log, stream')
        /\ row.seq = Len(row.log) /\ (row.admission = "none" => ~row.settled)
    BY <1>3 DEF RowInv, RowTrue
  <2> QED
    BY <2>1, <2>2 DEF RowTrue
<1>5. ListerTrue'
  <2>1. CASE lister' = lister
    BY <1>2, <1>3, <2>1 DEF RowInv, ListerTrue
  <2>2. CASE DOMAIN lister' = ListerFields /\ lister'.at = "idle"
    BY <2>2 DEF ListerTrue
  <2> QED
    BY <2>1, <2>2
<1> QED
  BY <1>4, <1>5 DEF RowInv

LEMMA ProjectedFields ==
    ASSUME NEW r, DOMAIN r = RowFields, NEW seq, NEW log, NEW q, q = Projected(r, seq, log)
    PROVE  IF r.admission # "none" /\ seq <= r.seq THEN q = r
           ELSE /\ DOMAIN q = RowFields /\ q.seq = seq /\ q.log = log /\ q.seen = r.seen
                /\ q.admission = (IF r.admission = "none" THEN "pending" ELSE r.admission)
                /\ (q.settled <=> r.settled \/ Finished(log))
  BY DEF Projected, RowFields

\* A row that holds a prefix of the stream, and what becomes of it when it is given
\* another.
Prefix(r) ==
    /\ DOMAIN r = RowFields /\ r.log \in Seq(Events) /\ Begins(r.log, stream)
    /\ r.seq = Len(r.log) /\ (r.admission = "none" => ~r.settled)
Given(r, log, q) ==
    /\ Prefix(q) /\ q.admission # "none" /\ q.seen = r.seen
    /\ (r.admission # "none" => q.admission = r.admission)
    /\ (q.settled => r.settled \/ (q.log = stream /\ Finished(stream)))
    /\ (r.settled /\ r.log = stream => q.log = stream)
    /\ (log = stream => q.log = stream)

LEMMA ProjectedIsTrue ==
    ASSUME RunInv, NEW r, Prefix(r), NEW log \in Seq(Events), Begins(log, stream),
           NEW q, q = Projected(r, Len(log), log)
    PROVE  Given(r, log, q)
<1>0. /\ DOMAIN r = RowFields /\ r.log \in Seq(Events) /\ Begins(r.log, stream)
      /\ r.seq = Len(r.log) /\ (r.admission = "none" => ~r.settled)
  BY DEF Prefix
<1>1. /\ stream \in Seq(Events)
      /\ \A s \in Seq(Events) : Begins(s, stream) /\ Finished(s) => s = stream
  BY FinishedIsAll
<1>2. \A s, t \in Seq(Events) : Begins(s, t) /\ Len(t) <= Len(s) => s = t
  <2>1. RunStarted \in Events
    BY EventTypes
  <2> QED
    BY <2>1, BeginsFacts
<1>3. CASE r.admission # "none" /\ Len(log) <= r.seq
  <2>1. q = r
    BY <1>0, <1>3, ProjectedFields
  <2>2. log = stream => r.log = stream
    BY <1>0, <1>1, <1>2, <1>3
  <2> QED
    BY <1>0, <1>3, <2>1, <2>2 DEF Given, Prefix
<1>4. CASE ~(r.admission # "none" /\ Len(log) <= r.seq)
  <2>1. /\ DOMAIN q = RowFields /\ q.seq = Len(log) /\ q.log = log /\ q.seen = r.seen
        /\ q.admission = (IF r.admission = "none" THEN "pending" ELSE r.admission)
        /\ (q.settled <=> r.settled \/ Finished(log))
    BY <1>0, <1>4, ProjectedFields
  <2>2. r.settled /\ r.log = stream => log = stream
    <3>1. SUFFICES ASSUME r.settled, r.log = stream PROVE log = stream
      OBVIOUS
    <3>2. ~(Len(log) <= Len(stream))
      BY <1>0, <1>4, <3>1
    <3> QED
      BY <3>2 DEF Begins
  <2>3. Finished(log) => log = stream
    BY <1>1
  <2> QED
    BY <1>0, <2>1, <2>2, <2>3 DEF Given, Prefix
<1> QED
  BY <1>3, <1>4

LEMMA ProjectKeepsRows ==
    ASSUME RunInv, RowInv, Project
    PROVE  RowInv'
<1>1. /\ run.at = "project" /\ row' = Projected(row, Len(run.log), run.log)
      /\ UNCHANGED <<status, stream, lister>>
  BY DEF Project
<1>2. run.log \in Seq(Events) /\ Begins(run.log, stream)
  <2>1. PICK h : Holds(h)
    BY DEF RunInv
  <2>2. run # Gone
    BY <1>1, GoneFields
  <2>3. PICK p \in 0 .. Len(journal) : run \in {h[p], Settled(h[p])}
    BY <2>1, <2>2 DEF Holds, Lives, Along
  <2>4. Memory(h[p]) /\ Begins(h[p].log, stream) /\ node \in Nodes
    BY <2>1, <2>3 DEF Holds, Lives, History, Written
  <2>5. PICK r : r = h[p]
    OBVIOUS
  <2>6. run.log = r.log /\ Memory(r)
    BY <2>3, <2>4, <2>5, SettledMemory
  <2> QED
    BY <2>4, <2>5, <2>6 DEF Memory, Inner
<1>3. PICK q : q = row'
  OBVIOUS
<1>4. Prefix(row) /\ (row.settled => row.log = stream /\ (Finished(stream) \/ Over))
  BY DEF RowInv, RowTrue, Prefix
<1>5. Given(row, run.log, q)
  <2>1. PICK r : r = row
    OBVIOUS
  <2>2. PICK log : log = run.log
    OBVIOUS
  <2>3. Given(r, log, q)
    BY <1>1, <1>2, <1>3, <1>4, <2>1, <2>2, ProjectedIsTrue
  <2> QED
    BY <2>1, <2>2, <2>3
<1>6. RowTrue'
  <2>1. q.settled => q.log = stream /\ (Finished(stream) \/ Over')
    <3>1. CASE row.settled
      <4>1. q.log = stream /\ (Finished(stream) \/ Over)
        BY <1>4, <1>5, <3>1 DEF Given
      <4>2. Over => Over'
        BY <1>1, <1>3, <1>5 DEF Over, Given
      <4> QED
        BY <4>1, <4>2
    <3> QED
      BY <1>5, <3>1 DEF Given
  <2> QED
    BY <1>1, <1>3, <1>5, <2>1 DEF RowTrue, Given, Prefix
<1>7. ListerTrue'
  BY <1>1 DEF RowInv, ListerTrue
<1> QED
  BY <1>6, <1>7 DEF RowInv

LEMMA ListAppliesKeepsRows ==
    ASSUME RunInv, RowInv, ListApplies
    PROVE  RowInv'
<1> PICK admitted : admitted = [row EXCEPT !.admission = "listed", !.seen = lister.seen]
  OBVIOUS
<1>1. /\ lister.at \in {"apply", "repair"} /\ lister' = Idle
      /\ row' = (IF lister.at = "repair" THEN Repaired(admitted) ELSE admitted)
      /\ UNCHANGED <<status, stream>>
  BY DEF ListApplies
<1>2. /\ Prefix(row) /\ (row.settled => row.log = stream /\ (Finished(stream) \/ Over))
      /\ (lister.seen # "PENDING" => lister.seen = status)
  BY <1>1 DEF RowInv, RowTrue, ListerTrue, Prefix
<1>3. /\ Prefix(admitted) /\ admitted.admission = "listed" /\ admitted.seen = lister.seen
      /\ admitted.log = row.log /\ (admitted.settled <=> row.settled)
  BY <1>2 DEF Prefix, RowFields
<1>4. row.settled => Finished(stream)
  BY <1>1, <1>2 DEF Over
<1>5. lister'.at = "idle" /\ DOMAIN lister' = ListerFields
  BY <1>1 DEF Idle, ListerFields
<1>6. ListerTrue'
  BY <1>5 DEF ListerTrue
<1>7. PICK q : q = row'
  OBVIOUS
<1>8. /\ Prefix(q)
      /\ (q.settled => /\ q.log = stream
                       /\ \/ Finished(stream)
                          \/ q.admission = "listed" /\ q.seen = status /\ status # "PENDING")
  <2>1. CASE lister.at = "apply"
    <3>1. q = admitted
      BY <1>1, <1>7, <2>1
    <3> QED
      BY <1>2, <1>3, <1>4, <3>1
  <2>2. CASE lister.at = "repair"
    <3>1. PICK log : log = lister.log
      OBVIOUS
    <3>2. /\ log \in Seq(Events) /\ Begins(log, stream)
          /\ (lister.seen # "PENDING" => log = stream)
      BY <2>2, <3>1 DEF RowInv, ListerTrue
    <3>3. PICK folded : folded = Projected(admitted, Len(log), log)
      OBVIOUS
    <3>4. Given(admitted, log, folded)
      BY <1>3, <3>2, <3>3, ProjectedIsTrue
    <3>5. q = [folded EXCEPT !.settled = folded.settled \/ lister.seen # "PENDING"]
      BY <1>1, <1>7, <2>2, <3>1, <3>3 DEF Repaired
    <3>6. /\ DOMAIN q = RowFields /\ q.log = folded.log /\ q.seq = folded.seq
          /\ q.admission = folded.admission /\ q.seen = folded.seen
          /\ (q.settled <=> folded.settled \/ lister.seen # "PENDING")
      BY <3>4, <3>5 DEF Given, Prefix, RowFields
    <3>7. Prefix(q)
      BY <3>4, <3>6 DEF Given, Prefix
    <3>8. q.admission = "listed" /\ q.seen = lister.seen
      BY <1>3, <3>4, <3>6 DEF Given
    <3>9. folded.settled => folded.log = stream /\ Finished(stream)
      BY <1>2, <1>3, <1>4, <3>4 DEF Given
    <3>10. lister.seen # "PENDING" => folded.log = stream /\ lister.seen = status
      BY <1>2, <3>2, <3>4 DEF Given
    <3> QED
      BY <3>6, <3>7, <3>8, <3>9, <3>10
  <2> QED
    BY <1>1, <2>1, <2>2
<1>9. RowTrue'
  <2>1. Over' <=> q.admission = "listed" /\ q.seen = status /\ status # "PENDING"
    BY <1>1, <1>5, <1>7 DEF Over
  <2> QED
    BY <1>1, <1>7, <1>8, <2>1 DEF RowTrue, Prefix
<1> QED
  BY <1>6, <1>9 DEF RowInv

LEMMA ListingKeepsRows ==
    ASSUME RunInv, RowInv, ListReads \/ ListObserves \/ ListFolds
    PROVE  RowInv'
<1>1. UNCHANGED <<row, status, stream>>
  BY DEF ListReads, ListObserves, ListFolds
<1>2. stream \in Seq(Events)
  BY FinishedIsAll
<1>3. CASE ListReads
  <2>1. DOMAIN lister' = ListerFields /\ lister'.at = "observe"
    BY <1>3 DEF ListReads, Idle, ListerFields
  <2>2. ~Over \/ ~row.settled
    BY <1>3 DEF ListReads, Over
  <2>3. ListerTrue'
    BY <2>1 DEF ListerTrue
  <2>4. RowTrue'
    BY <1>1, <2>2 DEF RowInv, RowTrue
  <2> QED
    BY <2>3, <2>4 DEF RowInv
<1>4. ASSUME ListObserves \/ ListFolds PROVE RowTrue'
  <2>1. lister.at # "idle"
    BY <1>4 DEF ListObserves, ListFolds
  <2>2. ~Over
    BY <2>1 DEF Over
  <2> QED
    BY <1>1, <2>2 DEF RowInv, RowTrue
<1>5. CASE ListObserves
  <2>1. /\ DOMAIN lister' = ListerFields /\ lister'.at \in {"fold", "apply"}
        /\ lister'.seen = status
    BY <1>5 DEF ListObserves, RowInv, ListerTrue, ListerFields
  <2>2. ListerTrue'
    BY <1>1, <2>1 DEF ListerTrue
  <2> QED
    BY <1>4, <1>5, <2>2 DEF RowInv
<1>6. CASE ListFolds
  <2>1. /\ DOMAIN lister' = ListerFields /\ lister'.at = "repair"
        /\ lister'.seen = lister.seen /\ lister'.log = stream
    BY <1>6 DEF ListFolds, RowInv, ListerTrue, ListerFields
  <2>2. lister.seen # "PENDING" => lister.seen = status
    BY <1>6 DEF ListFolds, RowInv, ListerTrue
  <2>3. Begins(stream, stream)
    <3>1. RunStarted \in Events
      BY EventTypes
    <3> QED
      BY <1>2, <3>1, BeginsFacts
  <2>4. ListerTrue'
    BY <1>1, <1>2, <2>1, <2>2, <2>3 DEF ListerTrue
  <2> QED
    BY <1>4, <1>6, <2>4 DEF RowInv
<1> QED
  BY <1>3, <1>5, <1>6

LEMMA StepKeepsRows ==
    ASSUME RunInv, RowInv, [Next]_vars
    PROVE  RowInv'
<1>1. CASE Boundary \/ WriteEvent \/ StartBranch \/ FirstFinished \/ Collect \/ CancelPending
           \/ Return \/ ProjectFails \/ CancelRun \/ SomeBranchEnds \/ UNCHANGED vars
  <2>1. row' = row /\ lister' = lister
    BY <1>1 DEF Boundary, WriteEvent, StartBranch, FirstFinished, Collect, CancelPending,
                Return, ProjectFails, CancelRun, SomeBranchEnds, BranchEnds, vars
  <2> QED
    BY <2>1, RowsStay
<1>2. CASE Crash
  <2>1. row' = row /\ DOMAIN lister' = ListerFields /\ lister'.at = "idle"
    BY <1>2 DEF Crash, Idle, ListerFields
  <2> QED
    BY <2>1, RowsStay
<1>3. CASE Project
  BY <1>3, ProjectKeepsRows
<1>4. CASE ListStep
  BY <1>4, ListAppliesKeepsRows, ListingKeepsRows DEF ListStep
<1> QED
  BY <1>1, <1>2, <1>3, <1>4 DEF Next, RunStep

(* A row that is settled and listed, which no listing reads again, shows the     *)
(* whole stream, and either the run's own end or the status it ended with       *)
(* (RunSummaries, whose listing reads row, status and stream one after another).*)
THEOREM SettledRowsShowTheRun == Spec => []SettledRowIsWhole
<1>1. Init => RowInv
  <2> SUFFICES ASSUME Init PROVE RowInv
    OBVIOUS
  <2>1. stream = <<>> /\ row = NoRow /\ lister = Idle
    BY DEF Init
  <2>2. Begins(<<>>, <<>>)
    BY DEF Begins
  <2>3. ListerTrue
    BY <2>1 DEF ListerTrue, Idle, ListerFields
  <2>4. RowTrue
    BY <2>1, <2>2 DEF RowTrue, NoRow, RowFields
  <2> QED
    BY <2>3, <2>4 DEF RowInv
<1>2. RunInv /\ RowInv /\ [Next]_vars => RowInv'
  BY StepKeepsRows
<1>3. RowInv => SettledRowIsWhole
  BY DEF RowInv, RowTrue, Over, SettledRowIsWhole
<1> QED
  BY <1>1, <1>2, <1>3, RunInvHolds, PTL DEF Spec

-----------------------------------------------------------------------------
(* The types.                                                                  *)

RowTypes ==
    /\ status \in Statuses
    /\ DOMAIN row = RowFields /\ row.admission \in {"none", "pending", "listed"}
    /\ row.settled \in BOOLEAN
    /\ DOMAIN lister = ListerFields
    /\ lister.at \in {"idle", "observe", "fold", "repair", "apply"}
    /\ crashes \in 0 .. MaxCrashes /\ lost \in 0 .. MaxLost

LEMMA ProjectedTypes ==
    ASSUME NEW r, DOMAIN r = RowFields, r.admission \in {"none", "pending", "listed"},
           r.settled \in BOOLEAN, NEW seq, NEW log, NEW q, q = Projected(r, seq, log)
    PROVE  /\ DOMAIN q = RowFields /\ q.admission \in {"none", "pending", "listed"}
           /\ q.settled \in BOOLEAN
<1>1. CASE r.admission # "none" /\ seq <= r.seq
  BY <1>1 DEF Projected
<1>2. CASE ~(r.admission # "none" /\ seq <= r.seq)
  <2>1. q = [r EXCEPT !.admission = IF r.admission = "none" THEN "pending" ELSE r.admission,
                      !.seq = seq, !.log = log, !.settled = r.settled \/ Finished(log)]
    BY <1>2 DEF Projected
  <2>2. DOMAIN q = RowFields /\ q.admission \in {"none", "pending", "listed"}
    BY <2>1 DEF RowFields
  <2>3. q.settled = (r.settled \/ Finished(log))
    BY <2>1 DEF RowFields
  <2> QED
    BY <2>2, <2>3
<1> QED
  BY <1>1, <1>2

LEMMA StepKeepsTypes ==
    ASSUME RowTypes, [Next]_vars
    PROVE  RowTypes'
<1>1. MaxCrashes \in Nat /\ MaxLost \in Nat
  BY BoundsAssumption
<1>2. CASE Boundary \/ WriteEvent \/ StartBranch \/ FirstFinished \/ Collect \/ CancelPending
           \/ SomeBranchEnds \/ UNCHANGED vars
  BY <1>2 DEF RowTypes, Boundary, WriteEvent, StartBranch, FirstFinished, Collect,
              CancelPending, SomeBranchEnds, BranchEnds, vars
<1>3. CASE Return \/ CancelRun
  BY <1>3 DEF RowTypes, Return, CancelRun, Statuses
<1>4. CASE ProjectFails
  BY <1>1, <1>4 DEF RowTypes, ProjectFails
<1>5. CASE Crash
  BY <1>1, <1>5 DEF RowTypes, Crash, Idle, ListerFields
<1>6. CASE Project
  <2>1. row' = Projected(row, Len(run.log), run.log) /\ UNCHANGED <<status, lister, crashes, lost>>
    BY <1>6 DEF Project
  <2>2. PICK r, q : r = row /\ q = row'
    OBVIOUS
  <2>3. q = Projected(r, Len(run.log), run.log)
    BY <2>1, <2>2
  <2>4. /\ DOMAIN q = RowFields /\ q.admission \in {"none", "pending", "listed"}
        /\ q.settled \in BOOLEAN
    BY <2>2, <2>3, ProjectedTypes DEF RowTypes
  <2> QED
    BY <2>1, <2>2, <2>4 DEF RowTypes
<1>7. CASE ListReads \/ ListObserves \/ ListFolds
  <2>1. UNCHANGED <<row, status, crashes, lost>>
    BY <1>7 DEF ListReads, ListObserves, ListFolds
  <2>2. DOMAIN lister' = ListerFields
        /\ lister'.at \in {"idle", "observe", "fold", "repair", "apply"}
    BY <1>7 DEF ListReads, ListObserves, ListFolds, Idle, RowTypes, ListerFields
  <2> QED
    BY <2>1, <2>2 DEF RowTypes
<1>8. CASE ListApplies
  <2>1. PICK a : a = [row EXCEPT !.admission = "listed", !.seen = lister.seen]
    OBVIOUS
  <2>2. /\ row' = (IF lister.at = "repair" THEN Repaired(a) ELSE a)
        /\ lister' = Idle /\ UNCHANGED <<status, crashes, lost>>
    BY <1>8, <2>1 DEF ListApplies
  <2>3. DOMAIN a = RowFields /\ a.admission \in {"none", "pending", "listed"}
    BY <2>1 DEF RowTypes, RowFields
  <2>4. a.settled \in BOOLEAN
    <3>1. a.settled = row.settled
      BY <2>1 DEF RowTypes, RowFields
    <3> QED
      BY <3>1 DEF RowTypes
  <2>5. PICK f : f = Projected(a, Len(lister.log), lister.log)
    OBVIOUS
  <2>6. /\ DOMAIN f = RowFields /\ f.admission \in {"none", "pending", "listed"}
        /\ f.settled \in BOOLEAN
    BY <2>3, <2>4, <2>5, ProjectedTypes
  <2>7. PICK q : q = [f EXCEPT !.settled = f.settled \/ lister.seen # "PENDING"]
    OBVIOUS
  <2>8. DOMAIN q = RowFields /\ q.admission = f.admission
    BY <2>6, <2>7 DEF RowFields
  <2>9. q.settled = (f.settled \/ lister.seen # "PENDING")
    BY <2>6, <2>7 DEF RowFields
  <2>10. q.settled \in BOOLEAN
    BY <2>9
  <2>11. Repaired(a) = q
    BY <2>5, <2>7 DEF Repaired
  <2>12. DOMAIN lister' = ListerFields /\ lister'.at = "idle"
    BY <2>2 DEF Idle, ListerFields
  <2>13. CASE lister.at = "repair"
    BY <2>2, <2>6, <2>8, <2>10, <2>11, <2>12, <2>13 DEF RowTypes
  <2>14. CASE lister.at # "repair"
    BY <2>2, <2>3, <2>4, <2>12, <2>14 DEF RowTypes
  <2> QED
    BY <2>13, <2>14
<1> QED
  BY <1>2, <1>3, <1>4, <1>5, <1>6, <1>7, <1>8 DEF Next, RunStep, ListStep

\* What the memory of the executor may hold.
LEMMA RunTypes ==
    ASSUME RunInv
    PROVE  /\ node \in Nodes /\ branches \in [Kids -> Ends \cup {"unborn", "running", "cancelled"}]
           /\ run.at \in Steps \cup {"project", "return", "gone"}
           /\ run.pos \in 0 .. Len(journal)
           /\ run.started \in 0 .. node.width /\ run.done \in 0 .. node.width
           /\ run.pending \subseteq 1 .. run.started
           /\ (run.good \cup run.bad) \cap run.pending = {} /\ run.good \cap run.bad = {}
<1>1. PICK h : Holds(h)
  BY DEF RunInv
<1>2. /\ node \in Nodes /\ Len(journal) \in Nat
      /\ branches \in [Kids -> Ends \cup {"unborn", "running", "cancelled"}]
  BY <1>1 DEF Holds, Lives, Branching, BranchWords
<1>3. node.width \in Nat
  BY <1>2, NodeFacts
<1>4. CASE run = Gone
  <2>1. /\ run.at = "gone" /\ run.pos = 0 /\ run.started = 0 /\ run.done = 0
        /\ run.pending = {} /\ run.good = {} /\ run.bad = {}
    BY <1>4 DEF Gone, Fresh
  <2> QED
    BY <1>2, <1>3, <2>1
<1>5. CASE run # Gone
  <2>1. PICK p \in 0 .. Len(journal) : run \in {h[p], Settled(h[p])} /\ p = run.pos
    BY <1>1, <1>5 DEF Holds, Lives, Along
  <2>2. PICK r : r = h[p]
    OBVIOUS
  <2>3. Memory(r) /\ Tale(r)
    BY <1>1, <2>1, <2>2 DEF Holds, Lives, History, Written
  <2>4. Memory(run) /\ Tale(run)
    BY <1>2, <2>1, <2>2, <2>3, SettledMemory, SettledTale
  <2>5. PICK q : q = run
    OBVIOUS
  <2>6. Memory(q) /\ Inner(q) /\ Counted(q)
    BY <2>4, <2>5 DEF Tale, Memory
  <2>7. q.done <= node.width
    BY <1>2, <2>6, TakenBounds
  <2>8. /\ q.at \in Steps \cup {"project", "return"} /\ q.started \in 0 .. node.width
        /\ q.done \in Nat /\ q.pending \subseteq 1 .. q.started
        /\ q.pending \cap Taken(q) = {} /\ q.good \cap q.bad = {}
    BY <2>6 DEF Memory, Inner
  <2>9. q.done \in 0 .. node.width
    BY <1>3, <2>7, <2>8
  <2> QED
    BY <1>2, <2>1, <2>5, <2>8, <2>9 DEF Taken
<1> QED
  BY <1>4, <1>5

(* Every variable stays within its type, for nodes of any width.                *)
THEOREM TypesHold == Spec => []TypeOK
<1>1. Init => RowTypes
  BY BoundsAssumption DEF Init, RowTypes, Statuses, NoRow, Idle, RowFields, ListerFields
<1>2. RowTypes /\ [Next]_vars => RowTypes'
  BY StepKeepsTypes
<1>3. RunInv /\ RowTypes => TypeOK
  BY RunTypes DEF RowTypes, TypeOK
<1> QED
  BY <1>1, <1>2, <1>3, RunInvHolds, PTL DEF Spec
=============================================================================
