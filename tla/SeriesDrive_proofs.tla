-------------------------- MODULE SeriesDrive_proofs --------------------------
(****************************************************************************)
(* Theorems about SeriesDrive, for every plan, cap, price and width. They    *)
(* rest on one invariant, DriveInv, built up in three parts: the types, the  *)
(* places of the ordinals, and what has become of the attempts. Two more     *)
(* results stand on it: the drive implements AttemptBoard, with UsedTries,   *)
(* which tells the tries that were enqueued from the queue and the window;   *)
(* and how far a series may pass its cap, with PlannedSpendFits, which a     *)
(* launch makes true for the window it opens.                                *)
(****************************************************************************)
EXTENDS SeriesSpend, SeriesDriveRefinement, FiniteSetTheorems, SequenceTheorems, TLAPS

USE TotalAssumption, CapAssumption, CostAssumption, WidthAssumption

-----------------------------------------------------------------------------
(* Types *)

\* Only a try that may be repeated comes back to be requeued.
RepeatsAllowed ==
    \A e \in Entries : attempts[e].state = "requeued" => e.tries < RateLimitTries

TypeInv == TypeOK /\ IsFiniteSet(pending) /\ RepeatsAllowed

LEMMA LimitIsNat ==
    ASSUME NEW l \in Ledgers, NEW n \in Nat
    PROVE  LimitMicros(l, n) \in Nat
<1>1. l.reserve * n \in Nat
  BY DEF Ledgers
<1>2. QED
  BY <1>1 DEF LimitMicros, Headroom, Committed, Ledgers

LEMMA AddSpendType ==
    ASSUME NEW l \in Ledgers, NEW usd \in Nat
    PROVE  AddSpend(l, usd) \in Ledgers
<1>1. l.spent + usd \in Nat /\ (IF usd > l.reserve THEN usd ELSE l.reserve) \in Nat
  BY DEF Ledgers
<1>2. QED
  BY <1>1 DEF AddSpend, Ledgers

LEMMA TakenType ==
    ASSUME TypeOK, Waiting
    PROVE  Taken \in Entries
<1>1. CASE cursor < Total
  BY <1>1 DEF Taken, Entries, Ordinals, FirstTry, TypeOK
<1>2. CASE ~(cursor < Total)
  <2>1. requeued # <<>> /\ requeued \in Seq(Entries)
    BY <1>2 DEF Waiting, TypeOK
  <2>2. Head(requeued) \in Entries
    BY <2>1, HeadTailProperties
  <2>3. QED
    BY <1>2, <2>2 DEF Taken
<1>3. QED
  BY <1>1, <1>2

LEMMA AgainType ==
    ASSUME NEW e \in Entries, e.tries < RateLimitTries
    PROVE  Again(e) \in Entries
BY DEF Again, Entries, FirstTry

LEMMA TypeInvStep ==
    TypeInv /\ [Next]_vars => TypeInv'
<1> SUFFICES ASSUME TypeInv, [Next]_vars PROVE TypeInv'
  OBVIOUS
<1> USE DEF TypeInv
<1>1. CASE Launch
  <2>1. Taken \in Entries
    BY <1>1, TakenType DEF Launch, MayLaunch, Room
  <2>2. Cardinality(pending) \in Nat
    BY FS_CardinalityType
  <2>3. LimitMicros(ledger, Cardinality(pending)) \in Nat
    BY <2>2, LimitIsNat DEF TypeOK
  <2>4. attempts' \in [Entries -> Attempts]
    BY <1>1, <2>1, <2>3 DEF Launch, TypeOK, Attempts, AttemptStates, NoAttempt
  <2>5. cursor' \in 0 .. Total
    BY <1>1 DEF Launch, TakeNext, TypeOK
  <2>6. requeued' \in Seq(Entries)
    <3>1. CASE cursor < Total
      BY <1>1, <3>1 DEF Launch, TakeNext, TypeOK
    <3>2. CASE ~(cursor < Total)
      <4>1. requeued # <<>>
        BY <1>1, <3>2 DEF Launch, MayLaunch, Room, Waiting
      <4>2. QED
        BY <1>1, <3>2, <4>1, HeadTailProperties DEF Launch, TakeNext, TypeOK
    <3>3. QED
      BY <3>1, <3>2
  <2>7. IsFiniteSet(pending')
    BY <1>1, FS_AddElement DEF Launch
  <2>8. RepeatsAllowed'
    BY <1>1, <2>1 DEF Launch, RepeatsAllowed, NoAttempt, TypeOK
  <2>9. QED
    BY <1>1, <2>1, <2>4, <2>5, <2>6, <2>7, <2>8 DEF Launch, TypeOK
<1>2. CASE FillEnds
  BY <1>2 DEF FillEnds, TypeOK, queueVars, RepeatsAllowed
<1>3. CASE Approve
  BY <1>3 DEF Approve, TypeOK, queueVars, RepeatsAllowed, Ledgers
<1>4. CASE \E e \in Entries : NextFinished(e)
  <2> PICK e \in Entries : NextFinished(e)
    BY <1>4
  <2>1. attempts[e] \in Attempts
    BY DEF TypeOK
  <2>2. ledger' \in Ledgers
    BY <2>1, AddSpendType DEF NextFinished, TypeOK, Attempts
  <2>3. requeued' \in Seq(Entries) /\ cursor' \in 0 .. Total /\ done' \in Nat
    <3>1. CASE attempts[e].state = "requeued"
      <4>1. Again(e) \in Entries
        BY <3>1, AgainType DEF RepeatsAllowed
      <4>2. QED
        BY <3>1, <4>1, AppendProperties DEF NextFinished, Settle, TypeOK
    <3>2. CASE attempts[e].state # "requeued"
      BY <3>2 DEF NextFinished, Settle, TypeOK
    <3>3. QED
      BY <3>1, <3>2
  <2>4. FailedRow(e) \in Rows
    BY <2>1 DEF FailedRow, Rows, RowStates, Entries, FirstTry, Attempts
  <2>5. rows' \in [Ordinals -> Rows]
    BY <2>4 DEF NextFinished, TypeOK
  <2>6. IsFiniteSet(pending')
    BY FS_RemoveElement DEF NextFinished
  <2>7. QED
    BY <2>2, <2>3, <2>5, <2>6 DEF NextFinished, TypeOK, RepeatsAllowed
<1>5. CASE Driven
  BY <1>5 DEF Driven, TypeOK, queueVars, RepeatsAllowed
<1>6. ASSUME NEW e \in Entries, OpenAttempt(e)
      PROVE  TypeInv'
  <2>1. attempts' \in [Entries -> Attempts]
    BY <1>6 DEF OpenAttempt, TypeOK, Attempts, AttemptStates
  <2>2. e.ordinal \in Ordinals /\ e.tries \in 0 .. RateLimitTries
    BY DEF Entries, FirstTry
  <2>3. rows' \in [Ordinals -> Rows]
    BY <1>6, <2>2 DEF OpenAttempt, TypeOK, Rows, RowStates
  <2>4. RepeatsAllowed'
    BY <1>6 DEF OpenAttempt, TypeOK, RepeatsAllowed, Attempts
  <2>5. QED
    BY <1>6, <2>1, <2>3, <2>4 DEF OpenAttempt, TypeOK, queueVars
<1>7. ASSUME NEW e \in Entries, SubjectEnds(e)
      PROVE  TypeInv'
  <2> PICK cost \in RunCosts(attempts[e].limit), rateLimited \in BOOLEAN :
         attempts' = [attempts EXCEPT ![e] =
            IF rateLimited /\ e.tries < RateLimitTries
            THEN [@ EXCEPT !.state = "requeued", !.cost = cost, !.spend = cost]
            ELSE [@ EXCEPT !.state = "judging", !.cost = cost]]
    BY <1>7 DEF SubjectEnds
  <2>1. cost \in Nat
    BY CostAssumption DEF RunCosts
  <2>2. attempts' \in [Entries -> Attempts]
    BY <2>1 DEF TypeOK, Attempts, AttemptStates
  <2>3. RepeatsAllowed'
    BY <2>1 DEF TypeOK, RepeatsAllowed, Attempts
  <2>4. QED
    BY <1>7, <2>2, <2>3 DEF SubjectEnds, TypeOK, queueVars
<1>8. ASSUME NEW e \in Entries, CloseAttempt(e)
      PROVE  TypeInv'
  <2> PICK checks \in Costs :
         LET spend == attempts[e].cost + checks IN
         /\ attempts' = [attempts EXCEPT ![e].state = "closed", ![e].spend = spend]
         /\ rows' = [rows EXCEPT ![e.ordinal] =
                       [state |-> "finished", tries |-> e.tries, spend |-> spend]]
    BY <1>8 DEF CloseAttempt
  <2>1. attempts[e].cost + checks \in Nat
    BY CostAssumption DEF TypeOK, Attempts
  <2>2. attempts' \in [Entries -> Attempts]
    BY <2>1 DEF TypeOK, Attempts, AttemptStates
  <2>3. rows' \in [Ordinals -> Rows]
    BY <2>1 DEF TypeOK, Rows, RowStates, Entries, FirstTry
  <2>4. RepeatsAllowed'
    BY DEF TypeOK, RepeatsAllowed, Attempts
  <2>5. QED
    BY <1>8, <2>2, <2>3, <2>4 DEF CloseAttempt, TypeOK, queueVars
<1>9. ASSUME NEW e \in Entries, AttemptRaises(e)
      PROVE  TypeInv'
  <2> PICK more \in {0} \cup Costs :
         attempts' = [attempts EXCEPT ![e].state = "failed",
                                      ![e].spend = attempts[e].cost + more]
    BY <1>9 DEF AttemptRaises
  <2>1. attempts[e].cost + more \in Nat
    BY CostAssumption DEF TypeOK, Attempts
  <2>2. attempts' \in [Entries -> Attempts]
    BY <2>1 DEF TypeOK, Attempts, AttemptStates
  <2>3. RepeatsAllowed'
    BY DEF TypeOK, RepeatsAllowed, Attempts
  <2>4. QED
    BY <1>9, <2>2, <2>3 DEF AttemptRaises, TypeOK, queueVars
<1>10. CASE UNCHANGED vars
  BY <1>10 DEF vars, queueVars, TypeOK, RepeatsAllowed
<1>11. QED
  BY <1>1, <1>2, <1>3, <1>4, <1>5, <1>6, <1>7, <1>8, <1>9, <1>10
     DEF Next, SeriesStep, AttemptStep

LEMMA InitTypes == Init => TypeInv
<1> SUFFICES ASSUME Init PROVE TypeInv
  OBVIOUS
<1>1. IsFiniteSet(pending)
  BY FS_EmptySet DEF Init
<1>2. <<>> \in Seq(Entries)
  BY EmptySeq
<1>3. QED
  BY <1>1, <1>2 DEF Init, TypeInv, TypeOK, RepeatsAllowed, Ledgers, Attempts,
     AttemptStates, NoAttempt, Rows, RowStates, NoRow

(* The state of the drive keeps its types: what the loop counts, queues and
   writes is always a try of the plan and an amount of money, never negative. *)
THEOREM DriveTypes == Spec => []TypeOK
<1>1. TypeInv => TypeOK
  BY DEF TypeInv
<1>2. QED
  BY InitTypes, <1>1, TypeInvStep, PTL DEF Spec

-----------------------------------------------------------------------------
(* Where the ordinals are *)

Injective(s) == \A i, j \in DOMAIN s : s[i] = s[j] => i = j

LEMMA TailOfInjective ==
    ASSUME NEW S, NEW s \in Seq(S), s # <<>>, Injective(s)
    PROVE  /\ Head(s) \in Range(s)
           /\ Range(Tail(s)) = Range(s) \ {Head(s)}
           /\ Injective(Tail(s))
<1>1. /\ Len(s) \in Nat \ {0} /\ DOMAIN s = 1 .. Len(s) /\ Head(s) = s[1]
      /\ Tail(s) \in Seq(S) /\ Len(Tail(s)) = Len(s) - 1
      /\ DOMAIN Tail(s) = 1 .. Len(Tail(s))
      /\ \A i \in 1 .. Len(Tail(s)) : Tail(s)[i] = s[i + 1]
  BY HeadTailProperties, EmptySeq, LenProperties
<1>2. Head(s) \in Range(s)
  BY <1>1 DEF Range
<1>3. Range(Tail(s)) \subseteq Range(s) \ {Head(s)}
  BY <1>1 DEF Range, Injective
<1>4. ASSUME NEW x \in Range(s), x # Head(s)
      PROVE  x \in Range(Tail(s))
  <2> PICK i \in 1 .. Len(s) : s[i] = x
    BY <1>1 DEF Range
  <2>1. i # 1
    BY <1>1, <1>4
  <2>2. i - 1 \in DOMAIN Tail(s) /\ Tail(s)[i - 1] = x
    BY <1>1, <2>1
  <2>3. QED
    BY <2>2 DEF Range
<1>5. Injective(Tail(s))
  <2> SUFFICES ASSUME NEW i \in DOMAIN Tail(s), NEW j \in DOMAIN Tail(s),
                      Tail(s)[i] = Tail(s)[j]
               PROVE  i = j
    BY DEF Injective
  <2>1. i + 1 \in DOMAIN s /\ j + 1 \in DOMAIN s /\ s[i + 1] = s[j + 1]
    BY <1>1
  <2>2. i + 1 = j + 1
    BY <2>1 DEF Injective
  <2>3. QED
    BY <2>2, <1>1
<1>6. QED
  BY <1>2, <1>3, <1>4, <1>5

LEMMA AppendToInjective ==
    ASSUME NEW S, NEW s \in Seq(S), NEW x \in S, x \notin Range(s), Injective(s)
    PROVE  /\ Range(Append(s, x)) = Range(s) \cup {x}
           /\ Injective(Append(s, x))
<1> DEFINE t == Append(s, x)
<1>1. /\ Len(s) \in Nat /\ DOMAIN s = 1 .. Len(s)
      /\ DOMAIN t = 1 .. Len(s) + 1
      /\ \A i \in 1 .. Len(s) : t[i] = s[i]
      /\ t[Len(s) + 1] = x
  BY AppendProperties, LenProperties
<1> HIDE DEF t
<1>2. Range(t) = Range(s) \cup {x}
  BY <1>1 DEF Range
<1>3. Injective(t)
  <2> SUFFICES ASSUME NEW i \in DOMAIN t, NEW j \in DOMAIN t, t[i] = t[j]
               PROVE  i = j
    BY DEF Injective
  <2>1. CASE i \in DOMAIN s /\ j \in DOMAIN s
    BY <1>1, <2>1 DEF Injective
  <2>2. CASE i \notin DOMAIN s \/ j \notin DOMAIN s
    BY <1>1, <2>2 DEF Range
  <2>3. QED
    BY <2>1, <2>2
<1>4. QED
  BY <1>2, <1>3 DEF t

\* What a launch takes was waiting, and leaves the places of all others alone.
LEMMA LaunchPlaces ==
    ASSUME TypeInv, OneTryPerOrdinal, Launch
    PROVE  /\ OneTryPerOrdinal'
           /\ Uncounted' = Uncounted
           /\ Taken.ordinal >= cursor \/ Taken \in Requeued
           /\ Taken \notin pending
           /\ Requeued' \subseteq Requeued
           /\ \A f \in pending \cup Requeued' : f.ordinal # Taken.ordinal
           /\ cursor <= cursor'
           /\ Taken.ordinal < cursor'
           /\ cursor' # cursor => cursor' = cursor + 1 /\ Taken.ordinal = cursor
<1> USE DEF TypeInv
<1>1. pending' = pending \cup {Taken} /\ Waiting /\ pending \subseteq Entries
  BY DEF Launch, MayLaunch, Room, TypeOK
<1>2. Taken \in Entries
  BY <1>1, TakenType
<1>3. Requeued \subseteq Entries
  <2>1. DOMAIN requeued = 1 .. Len(requeued)
    BY LenProperties DEF TypeOK
  <2>2. QED
    BY <2>1, ElementOfSeq DEF Requeued, Range, TypeOK
<1>4. CASE cursor < Total
  <2>1. Taken = [ordinal |-> cursor, tries |-> FirstTry] /\ cursor' = cursor + 1
    BY <1>4 DEF Launch, Taken, TakeNext
  <2>2. requeued' = requeued /\ Requeued' = Requeued
    BY <1>4 DEF Launch, TakeNext, Requeued
  <2>3. Taken.ordinal = cursor /\ cursor \in Nat
    BY <2>1 DEF TypeOK
  <2>4. \A f \in pending \cup Requeued : f.ordinal < cursor /\ f.ordinal \in Nat
    BY <1>1, <1>3 DEF OneTryPerOrdinal, Entries, Ordinals
  <2>5. Taken \notin pending \cup Requeued
    BY <2>3, <2>4
  <2>6. \A e, f \in pending' \cup Requeued' : e.ordinal = f.ordinal => e = f
    BY <1>1, <2>2, <2>3, <2>4 DEF OneTryPerOrdinal
  <2>7. \A e \in pending' \cup Requeued' : e.ordinal < cursor'
    BY <1>1, <2>1, <2>2, <2>3, <2>4
  <2>8. OneTryPerOrdinal'
    BY <1>1, <2>2, <2>5, <2>6, <2>7 DEF OneTryPerOrdinal
  <2>9. Fresh = Fresh' \cup {cursor}
    BY <1>4, <2>1, <2>3 DEF Fresh
  <2>10. OrdinalsOf(pending') = OrdinalsOf(pending) \cup {cursor}
    BY <1>1, <2>3 DEF OrdinalsOf
  <2>11. Uncounted' = Uncounted
    BY <2>2, <2>9, <2>10 DEF Uncounted, OrdinalsOf
  <2>12. QED
    BY <2>1, <2>2, <2>3, <2>4, <2>5, <2>8, <2>11
<1>5. CASE ~(cursor < Total)
  <2>1. requeued # <<>> /\ requeued \in Seq(Entries) /\ Injective(requeued)
    BY <1>1, <1>5 DEF Waiting, TypeOK, OneTryPerOrdinal, Injective
  <2>2. Taken = Head(requeued) /\ requeued' = Tail(requeued) /\ cursor' = cursor
    BY <1>5 DEF Launch, Taken, TakeNext
  <2>3. /\ Taken \in Requeued
        /\ Requeued' = Requeued \ {Taken}
        /\ Injective(requeued')
    BY <2>1, <2>2, TailOfInjective DEF Requeued
  <2>4. pending' \cup Requeued' = pending \cup Requeued /\ pending' \cap Requeued' = {}
    BY <1>1, <2>3 DEF OneTryPerOrdinal
  <2>5. OneTryPerOrdinal'
    BY <2>2, <2>3, <2>4 DEF OneTryPerOrdinal, Injective
  <2>6. Uncounted' = Uncounted
    <3>1. OrdinalsOf(pending') \cup OrdinalsOf(Requeued') = OrdinalsOf(pending) \cup OrdinalsOf(Requeued)
      BY <2>4 DEF OrdinalsOf
    <3>2. Fresh' = Fresh
      BY <2>2 DEF Fresh
    <3>3. QED
      BY <3>1, <3>2 DEF Uncounted, OrdinalsOf
  <2>7. Taken \notin pending
    BY <2>3 DEF OneTryPerOrdinal
  <2>8. \A f \in pending \cup Requeued' : f.ordinal # Taken.ordinal
    BY <2>3, <2>7 DEF OneTryPerOrdinal
  <2>9. cursor \in Nat /\ Taken.ordinal < cursor
    BY <2>3 DEF OneTryPerOrdinal, TypeOK
  <2>10. QED
    BY <2>2, <2>3, <2>5, <2>6, <2>7, <2>8, <2>9
<1>6. QED
  BY <1>4, <1>5

LEMMA RequeuedType ==
    ASSUME TypeOK
    PROVE  Requeued \subseteq Entries
<1>1. DOMAIN requeued = 1 .. Len(requeued)
  BY LenProperties DEF TypeOK
<1>2. QED
  BY <1>1, ElementOfSeq DEF Requeued, Range, TypeOK

\* A try that comes back is requeued under its own ordinal, or its ordinal counts.
LEMMA SettlePlaces ==
    ASSUME TypeInv, OneTryPerOrdinal, NEW e \in Entries, NextFinished(e)
    PROVE  /\ OneTryPerOrdinal'
           /\ e.ordinal \in Uncounted
           /\ attempts[e].state = "requeued" =>
                /\ Requeued' = Requeued \cup {Again(e)}
                /\ Uncounted' = Uncounted
           /\ attempts[e].state # "requeued" =>
                /\ Requeued' = Requeued
                /\ Uncounted' = Uncounted \ {e.ordinal}
<1> USE DEF TypeInv
<1>1. /\ pending' = pending \ {e} /\ e \in pending /\ cursor' = cursor
      /\ pending \subseteq Entries /\ Requeued \subseteq Entries /\ cursor \in Nat
  BY RequeuedType DEF NextFinished, Settle, TypeOK
<1>2. e.ordinal \in OrdinalsOf(pending) /\ e.ordinal \in Uncounted
  BY <1>1 DEF OrdinalsOf, Uncounted
<1>3. e.ordinal < cursor /\ e.ordinal \in Nat
  BY <1>1 DEF OneTryPerOrdinal, Entries, Ordinals
<1>4. \A f \in (pending \cup Requeued) \ {e} : f.ordinal # e.ordinal
  BY <1>1 DEF OneTryPerOrdinal
<1>5. Fresh' = Fresh /\ e.ordinal \notin Fresh
  BY <1>1, <1>3 DEF Fresh
<1>6. CASE attempts[e].state = "requeued"
  <2>1. Again(e) \in Entries /\ Again(e).ordinal = e.ordinal /\ requeued' = Append(requeued, Again(e))
    BY <1>6, AgainType DEF NextFinished, Settle, RepeatsAllowed, Again, Entries
  <2>2. e \notin Requeued
    BY <1>1 DEF OneTryPerOrdinal
  <2>3. Again(e) \notin Requeued /\ Again(e) \notin pending'
    BY <1>1, <1>4, <2>1, <2>2
  <2>4. Requeued' = Requeued \cup {Again(e)} /\ Injective(requeued')
    BY <2>1, <2>3, AppendToInjective DEF Requeued, OneTryPerOrdinal, Injective, TypeOK
  <2>5. \A f, g \in pending' \cup Requeued' : f.ordinal = g.ordinal => f = g
    BY <1>1, <1>4, <2>1, <2>2, <2>4 DEF OneTryPerOrdinal
  <2>6. pending' \cap Requeued' = {}
    BY <1>1, <2>3, <2>4 DEF OneTryPerOrdinal
  <2>7. \A f \in pending' \cup Requeued' : f.ordinal < cursor'
    BY <1>1, <1>3, <2>1, <2>4 DEF OneTryPerOrdinal
  <2>8. OneTryPerOrdinal'
    BY <2>4, <2>5, <2>6, <2>7 DEF OneTryPerOrdinal, Injective
  <2>9. /\ OrdinalsOf(pending) = OrdinalsOf(pending') \cup {e.ordinal}
        /\ OrdinalsOf(Requeued') = OrdinalsOf(Requeued) \cup {e.ordinal}
    BY <1>1, <2>1, <2>4 DEF OrdinalsOf
  <2>10. Uncounted' = Uncounted
    BY <1>5, <2>9 DEF Uncounted, OrdinalsOf
  <2>11. QED
    BY <1>2, <1>6, <2>4, <2>8, <2>10
<1>7. CASE attempts[e].state # "requeued"
  <2>1. requeued' = requeued /\ Requeued' = Requeued
    BY <1>7 DEF NextFinished, Settle, Requeued
  <2>2. OneTryPerOrdinal'
    BY <1>1, <2>1 DEF OneTryPerOrdinal
  <2>3. e \notin Requeued
    BY <1>1 DEF OneTryPerOrdinal
  <2>4. e.ordinal \notin OrdinalsOf(pending') /\ e.ordinal \notin OrdinalsOf(Requeued)
    BY <1>1, <1>4, <2>3 DEF OrdinalsOf
  <2>5. OrdinalsOf(pending) = OrdinalsOf(pending') \cup {e.ordinal}
    BY <1>1 DEF OrdinalsOf
  <2>6. Uncounted' = Uncounted \ {e.ordinal}
    BY <1>5, <2>1, <2>4, <2>5 DEF Uncounted, OrdinalsOf
  <2>7. QED
    BY <1>2, <1>7, <2>1, <2>2, <2>6
<1>8. QED
  BY <1>6, <1>7

LEMMA PlacesStep ==
    TypeInv /\ EachAttemptCountedOnce /\ [Next]_vars => EachAttemptCountedOnce'
<1> SUFFICES ASSUME TypeInv, EachAttemptCountedOnce, [Next]_vars
             PROVE  EachAttemptCountedOnce'
  OBVIOUS
<1> USE DEF EachAttemptCountedOnce
<1>1. CASE Launch
  <2>1. OneTryPerOrdinal' /\ Uncounted' = Uncounted
    BY <1>1, LaunchPlaces
  <2>2. done' = done
    BY <1>1 DEF Launch
  <2>3. QED
    BY <2>1, <2>2 DEF Counted
<1>2. CASE \E e \in Entries : NextFinished(e)
  <2> PICK e \in Entries : NextFinished(e)
    BY <1>2
  <2>1. OneTryPerOrdinal' /\ e.ordinal \in Uncounted /\ e.ordinal \in Ordinals
    BY SettlePlaces DEF Entries
  <2>2. IsFiniteSet(Counted)
    <3>1. IsFiniteSet(Ordinals)
      BY FS_Interval DEF Ordinals
    <3>2. QED
      BY <3>1, FS_Subset DEF Counted
  <2>3. CASE attempts[e].state = "requeued"
    <3>1. Counted' = Counted /\ done' = done
      BY <2>3, SettlePlaces DEF Counted, NextFinished, Settle
    <3>2. QED
      BY <2>1, <3>1
  <2>4. CASE attempts[e].state # "requeued"
    <3>1. Uncounted' = Uncounted \ {e.ordinal} /\ done' = done + 1
      BY <2>4, SettlePlaces DEF NextFinished, Settle
    <3>2. Counted' = Counted \cup {e.ordinal} /\ e.ordinal \notin Counted
      BY <2>1, <3>1 DEF Counted
    <3>3. Cardinality(Counted') = Cardinality(Counted) + 1
      BY <2>2, <3>2, FS_AddElement
    <3>4. QED
      BY <2>1, <3>1, <3>3
  <2>5. QED
    BY <2>3, <2>4
<1>3. CASE UNCHANGED <<queueVars, pending>>
  BY <1>3 DEF queueVars, OneTryPerOrdinal, Counted, Uncounted, Fresh, Requeued, OrdinalsOf
<1>4. FillEnds \/ Approve \/ Driven \/ (\E e \in Entries : AttemptStep(e)) \/ UNCHANGED vars
        => UNCHANGED <<queueVars, pending>>
  BY DEF FillEnds, Approve, Driven, AttemptStep, OpenAttempt, SubjectEnds, CloseAttempt,
     AttemptRaises, vars
<1>5. QED
  BY <1>1, <1>2, <1>3, <1>4 DEF Next, SeriesStep

LEMMA InitPlaces == Init => EachAttemptCountedOnce /\ Counted = {}
<1> SUFFICES ASSUME Init PROVE EachAttemptCountedOnce /\ Counted = {}
  OBVIOUS
<1>1. Requeued = {}
  BY DEF Init, Requeued, Range
<1>2. Fresh = Ordinals
  BY DEF Init, Fresh, Ordinals
<1>3. Counted = {}
  BY <1>2 DEF Counted, Uncounted
<1>4. QED
  BY <1>1, <1>3, FS_EmptySet DEF Init, EachAttemptCountedOnce, OneTryPerOrdinal

(* Every ordinal of the plan is in one place, and `done` counts those that have
   left the queue and the window for good: the loop loses no attempt and counts
   none twice, for every plan, width and number of tries. *)
THEOREM CountedOnce == Spec => []EachAttemptCountedOnce
<1>1. Init => TypeInv /\ EachAttemptCountedOnce
  BY InitTypes, InitPlaces
<1>2. QED
  BY <1>1, TypeInvStep, PlacesStep, PTL DEF Spec

-----------------------------------------------------------------------------
(* What has become of the attempts *)

\* A try the loop may still enqueue: of a fresh ordinal, requeued, or later than those.
StillToCome(f) ==
    \/ f.ordinal >= cursor
    \/ \E e \in Requeued : e.ordinal = f.ordinal /\ e.tries <= f.tries
    \/ \E e \in pending : e.ordinal = f.ordinal /\ e.tries < f.tries

UnusedTries == \A f \in Entries : StillToCome(f) => attempts[f].state = "none"

InFlightIsPending ==
    \A e \in Entries : attempts[e].state \in {"enqueued", "open", "judging"} => e \in pending

ClosedHasRow ==
    \A e \in Entries : attempts[e].state = "closed" => rows[e.ordinal].state = "finished"

AttemptInv ==
    /\ UnusedTries
    /\ InFlightIsPending
    /\ ClosedHasRow
    /\ CountedAttemptsHaveRows

LoopInv == TypeInv /\ EachAttemptCountedOnce /\ AttemptInv

\* The workflow of the try that a launch takes was never used.
LEMMA LaunchIsNew ==
    ASSUME LoopInv, Launch
    PROVE  Taken \in Entries /\ attempts[Taken].state = "none"
<1>1. Taken \in Entries
  BY TakenType DEF Launch, MayLaunch, Room, LoopInv, TypeInv
<1>2. Taken.ordinal >= cursor \/ Taken \in Requeued
  BY LaunchPlaces DEF LoopInv, EachAttemptCountedOnce
<1>3. Taken.tries <= Taken.tries
  BY <1>1 DEF Entries, FirstTry
<1>4. StillToCome(Taken)
  BY <1>2, <1>3 DEF StillToCome
<1>5. QED
  BY <1>1, <1>4 DEF LoopInv, AttemptInv, UnusedTries

\* A step of an attempt changes the state of that attempt alone, and never takes a row back.
LEMMA AttemptStepEffect ==
    ASSUME TypeInv, NEW e \in Entries, AttemptStep(e)
    PROVE  /\ UNCHANGED <<queueVars, pending>>
           /\ attempts[e].state \in {"enqueued", "open", "judging"}
           /\ \A f \in Entries \ {e} : attempts'[f] = attempts[f]
           /\ attempts'[e].state = "closed" => rows'[e.ordinal].state = "finished"
           /\ \A o \in Ordinals : rows[o].state = "finished" => rows'[o].state = "finished"
<1> USE DEF TypeInv, TypeOK, Attempts
<1>1. CASE OpenAttempt(e)
  BY <1>1 DEF OpenAttempt, Entries, Rows
<1>2. CASE SubjectEnds(e)
  <2> PICK cost \in RunCosts(attempts[e].limit), rateLimited \in BOOLEAN :
         attempts' = [attempts EXCEPT ![e] =
            IF rateLimited /\ e.tries < RateLimitTries
            THEN [@ EXCEPT !.state = "requeued", !.cost = cost, !.spend = cost]
            ELSE [@ EXCEPT !.state = "judging", !.cost = cost]]
    BY <1>2 DEF SubjectEnds
  <2>1. QED
    BY <1>2 DEF SubjectEnds
<1>3. CASE CloseAttempt(e)
  <2> PICK checks \in Costs :
         LET spend == attempts[e].cost + checks IN
         /\ attempts' = [attempts EXCEPT ![e].state = "closed", ![e].spend = spend]
         /\ rows' = [rows EXCEPT ![e.ordinal] =
                       [state |-> "finished", tries |-> e.tries, spend |-> spend]]
    BY <1>3 DEF CloseAttempt
  <2>1. e.ordinal \in Ordinals
    BY DEF Entries
  <2>2. rows'[e.ordinal].state = "finished"
    BY <2>1
  <2>3. QED
    BY <1>3, <2>1, <2>2 DEF CloseAttempt
<1>4. CASE AttemptRaises(e)
  <2> PICK more \in {0} \cup Costs :
         attempts' = [attempts EXCEPT ![e].state = "failed",
                                      ![e].spend = attempts[e].cost + more]
    BY <1>4 DEF AttemptRaises
  <2>1. QED
    BY <1>4 DEF AttemptRaises
<1>5. QED
  BY <1>1, <1>2, <1>3, <1>4 DEF AttemptStep

LEMMA AttemptInvStep ==
    LoopInv /\ [Next]_vars => AttemptInv'
<1> SUFFICES ASSUME LoopInv, [Next]_vars PROVE AttemptInv'
  OBVIOUS
<1> USE DEF LoopInv
<1>a. /\ pending \subseteq Entries /\ Requeued \subseteq Entries /\ cursor \in Nat
      /\ attempts \in [Entries -> Attempts] /\ rows \in [Ordinals -> Rows]
      /\ \A e \in Entries : e.ordinal \in Ordinals /\ e.ordinal \in Nat /\ e.tries \in Nat
      /\ OneTryPerOrdinal
  BY RequeuedType DEF TypeInv, TypeOK, Entries, Ordinals, FirstTry, EachAttemptCountedOnce
<1>1. CASE Launch
  <2>1. Taken \in Entries /\ attempts[Taken].state = "none"
    BY <1>1, LaunchIsNew
  <2>2. /\ Uncounted' = Uncounted
        /\ Taken.ordinal >= cursor \/ Taken \in Requeued
        /\ Requeued' \subseteq Requeued
        /\ \A f \in pending \cup Requeued' : f.ordinal # Taken.ordinal
        /\ cursor <= cursor' /\ Taken.ordinal < cursor'
        /\ cursor' # cursor => cursor' = cursor + 1 /\ Taken.ordinal = cursor
    BY <1>1, <1>a, LaunchPlaces
  <2>3. /\ attempts'[Taken].state = "enqueued"
        /\ \A f \in Entries \ {Taken} : attempts'[f] = attempts[f]
        /\ pending' = pending \cup {Taken} /\ rows' = rows
    BY <1>1, <1>a, <2>1 DEF Launch, NoAttempt, Attempts
  <2>4. ASSUME NEW f \in Entries, StillToCome(f)'
        PROVE  f # Taken /\ StillToCome(f)
    <3>0. cursor' \in Nat
      BY <1>a, <2>2
    <3>1. CASE f.ordinal >= cursor'
      BY <1>a, <2>2, <3>0, <3>1 DEF StillToCome
    <3>2. CASE \E e \in Requeued' : e.ordinal = f.ordinal /\ e.tries <= f.tries
      BY <2>2, <3>2 DEF StillToCome
    <3>3. CASE \E e \in pending' : e.ordinal = f.ordinal /\ e.tries < f.tries
      <4>1. PICK e \in pending' : e.ordinal = f.ordinal /\ e.tries < f.tries
        BY <3>3
      <4>2. CASE e = Taken
        BY <1>a, <2>1, <2>2, <4>1, <4>2 DEF StillToCome
      <4>3. CASE e # Taken
        BY <2>2, <2>3, <4>1, <4>3 DEF StillToCome
      <4>4. QED
        BY <4>2, <4>3
    <3>4. QED
      BY <2>4, <3>1, <3>2, <3>3 DEF StillToCome
  <2>5. UnusedTries'
    BY <2>3, <2>4 DEF UnusedTries, AttemptInv
  <2>6. InFlightIsPending'
    BY <2>1, <2>3 DEF InFlightIsPending, AttemptInv
  <2>7. ClosedHasRow'
    BY <2>3 DEF ClosedHasRow, AttemptInv
  <2>8. CountedAttemptsHaveRows'
    BY <2>2, <2>3 DEF CountedAttemptsHaveRows, AttemptInv, Counted
  <2>9. QED
    BY <2>5, <2>6, <2>7, <2>8 DEF AttemptInv
<1>2. CASE \E e \in Entries : NextFinished(e)
  <2> PICK e \in Entries : NextFinished(e)
    BY <1>2
  <2>1. /\ pending' = pending \ {e} /\ cursor' = cursor /\ attempts' = attempts
        /\ e \in pending /\ attempts[e].state \in {"closed", "requeued", "failed"}
    BY DEF NextFinished, Settle
  <2>2. ASSUME NEW f \in Entries, StillToCome(f)'
        PROVE  StillToCome(f)
    <3>1. CASE \E g \in Requeued' : g.ordinal = f.ordinal /\ g.tries <= f.tries
      <4>1. PICK g \in Requeued' : g.ordinal = f.ordinal /\ g.tries <= f.tries
        BY <3>1
      <4>2. CASE g \in Requeued
        BY <4>1, <4>2 DEF StillToCome
      <4>3. CASE g \notin Requeued
        <5>1. g = Again(e)
          BY <1>a, <4>1, <4>3, SettlePlaces
        <5>2. g.ordinal = e.ordinal /\ g.tries = e.tries + 1
          BY <5>1 DEF Again, Entries
        <5>3. e.ordinal = f.ordinal /\ e.tries < f.tries
          BY <1>a, <4>1, <5>2
        <5>4. QED
          BY <2>1, <5>3 DEF StillToCome
      <4>4. QED
        BY <4>2, <4>3
    <3>2. CASE ~(\E g \in Requeued' : g.ordinal = f.ordinal /\ g.tries <= f.tries)
      BY <2>1, <2>2, <3>2 DEF StillToCome
    <3>3. QED
      BY <3>1, <3>2
  <2>3. UnusedTries'
    BY <2>1, <2>2 DEF UnusedTries, AttemptInv
  <2>4. InFlightIsPending'
    BY <2>1 DEF InFlightIsPending, AttemptInv
  <2>5. /\ \A o \in Ordinals : rows[o].state = "finished" => rows'[o].state = "finished"
        /\ attempts[e].state = "failed" => rows'[e.ordinal].state = "finished"
    BY <1>a DEF NextFinished, FailedRow
  <2>6. ClosedHasRow'
    BY <1>a, <2>1, <2>5 DEF ClosedHasRow, AttemptInv
  <2>7. CountedAttemptsHaveRows'
    <3>1. CASE attempts[e].state = "requeued"
      BY <1>a, <2>5, <3>1, SettlePlaces DEF CountedAttemptsHaveRows, AttemptInv, Counted
    <3>2. CASE attempts[e].state # "requeued"
      <4>1. Counted' \subseteq Counted \cup {e.ordinal}
        BY <1>a, <3>2, SettlePlaces DEF Counted
      <4>2. rows'[e.ordinal].state = "finished"
        BY <1>a, <2>1, <2>5, <3>2 DEF ClosedHasRow, AttemptInv
      <4>3. QED
        BY <2>5, <4>1, <4>2 DEF CountedAttemptsHaveRows, AttemptInv, Counted
    <3>3. QED
      BY <3>1, <3>2
  <2>8. QED
    BY <2>3, <2>4, <2>6, <2>7 DEF AttemptInv
<1>3. CASE FillEnds \/ Approve \/ Driven \/ UNCHANGED vars
  <2>1. UNCHANGED <<queueVars, pending, attempts, rows>>
    BY <1>3 DEF FillEnds, Approve, Driven, vars
  <2>2. QED
    BY <2>1 DEF queueVars, AttemptInv, UnusedTries, StillToCome, InFlightIsPending,
       ClosedHasRow, CountedAttemptsHaveRows, Counted, Uncounted, Fresh, Requeued, OrdinalsOf
<1>4. ASSUME NEW e \in Entries, AttemptStep(e)
      PROVE  AttemptInv'
  <2>1. /\ UNCHANGED <<queueVars, pending>>
        /\ attempts[e].state \in {"enqueued", "open", "judging"}
        /\ \A f \in Entries \ {e} : attempts'[f] = attempts[f]
        /\ attempts'[e].state = "closed" => rows'[e.ordinal].state = "finished"
        /\ \A o \in Ordinals : rows[o].state = "finished" => rows'[o].state = "finished"
    BY <1>4, AttemptStepEffect
  <2>2. UnusedTries'
    BY <2>1 DEF queueVars, UnusedTries, AttemptInv, StillToCome, Requeued
  <2>3. InFlightIsPending'
    BY <2>1 DEF InFlightIsPending, AttemptInv
  <2>4. ClosedHasRow'
    BY <1>a, <2>1 DEF ClosedHasRow, AttemptInv
  <2>5. CountedAttemptsHaveRows'
    BY <2>1 DEF queueVars, CountedAttemptsHaveRows, AttemptInv, Counted, Uncounted, Fresh,
       Requeued, OrdinalsOf
  <2>6. QED
    BY <2>2, <2>3, <2>4, <2>5 DEF AttemptInv
<1>5. QED
  BY <1>1, <1>2, <1>3, <1>4 DEF Next, SeriesStep

LEMMA LoopInvHolds == Spec => []LoopInv
<1>1. Init => LoopInv
  <2> SUFFICES ASSUME Init PROVE AttemptInv
    BY InitTypes, InitPlaces DEF LoopInv
  <2>1. Counted = {} /\ \A e \in Entries : attempts[e].state = "none"
    BY InitPlaces DEF Init, NoAttempt
  <2>2. QED
    BY <2>1 DEF AttemptInv, UnusedTries, InFlightIsPending, ClosedHasRow, CountedAttemptsHaveRows
<1>2. LoopInv /\ [Next]_vars => LoopInv'
  BY TypeInvStep, PlacesStep, AttemptInvStep DEF LoopInv
<1>3. QED
  BY <1>1, <1>2, PTL DEF Spec

(* No try is enqueued under a workflow id that was used before, so a repeated
   attempt runs again instead of returning an earlier try's result. *)
THEOREM NewWorkflowPerTry == Spec => TriesNeverReuseAWorkflow
<1>1. LoopInv /\ [Next]_vars
        => [pending' \ pending \subseteq {e \in Entries : attempts[e].state = "none"}]_vars
  <2> SUFFICES ASSUME LoopInv, Next
               PROVE  pending' \ pending \subseteq {e \in Entries : attempts[e].state = "none"}
    OBVIOUS
  <2>1. CASE Launch
    BY <2>1, LaunchIsNew DEF Launch
  <2>2. CASE ~Launch
    <3>1. pending' \subseteq pending
      BY <2>2 DEF Next, SeriesStep, NextFinished, FillEnds, Driven, Approve, AttemptStep,
         OpenAttempt, SubjectEnds, CloseAttempt, AttemptRaises
    <3>2. QED
      BY <3>1
  <2>3. QED
    BY <2>1, <2>2
<1>2. QED
  BY <1>1, LoopInvHolds, PTL DEF Spec, TriesNeverReuseAWorkflow

(* Every attempt that has counted has a finished row, failed and repeated ones
   included: the analysis never meets a counted attempt without its result. *)
THEOREM CountedHaveRows == Spec => []CountedAttemptsHaveRows
<1>1. LoopInv => CountedAttemptsHaveRows
  BY DEF LoopInv, AttemptInv
<1>2. QED
  BY <1>1, LoopInvHolds, PTL

-----------------------------------------------------------------------------
(* The window, the gate and the end of the loop *)

\* The gate is entered with an empty window and work waiting, and nothing moves behind it.
GateInv ==
    /\ ProbeRunsAlone
    /\ PauseIsNearTheCap
    /\ pc = "driven" => ~Active

LEMMA GateInvStep ==
    LoopInv /\ GateInv /\ [Next]_vars => GateInv'
<1> SUFFICES ASSUME LoopInv, GateInv, [Next]_vars PROVE GateInv'
  OBVIOUS
<1> USE DEF LoopInv, GateInv
<1>a. /\ IsFiniteSet(pending) /\ Cardinality(pending) \in Nat /\ done \in Nat
      /\ ledger \in Ledgers
  BY FS_CardinalityType DEF TypeInv, TypeOK
<1>1. CASE Launch
  <2>1. Taken \notin pending /\ pending' = pending \cup {Taken}
    BY <1>1, LaunchPlaces DEF EachAttemptCountedOnce, Launch
  <2>2. Cardinality(pending') = Cardinality(pending) + 1
    BY <1>a, <2>1, FS_AddElement
  <2>3. Cardinality(pending) < Width /\ done' = done /\ pc = "fill" /\ pc' = "fill"
    BY <1>1 DEF Launch, MayLaunch, Room
  <2>4. ProbeRunsAlone'
    BY <1>a, <2>2, <2>3 DEF ProbeRunsAlone, Width
  <2>5. QED
    BY <2>3, <2>4 DEF PauseIsNearTheCap
<1>2. CASE FillEnds
  <2>1. UNCHANGED <<ledger, cursor, requeued, done, pending>> /\ pc' \in {"gate", "wait"}
    BY <1>2 DEF FillEnds, queueVars
  <2>2. ProbeRunsAlone'
    BY <2>1 DEF ProbeRunsAlone
  <2>3. ASSUME pc' = "gate"
        PROVE  Waiting /\ pending = {} /\ ledger.spent * 10 >= ledger.cap * 9
    <3>1. pending = {} /\ Active /\ ~MayLaunch
      BY <1>2, <2>3 DEF FillEnds
    <3>2. Waiting
      BY <3>1 DEF Active
    <3>3. Cardinality(pending) = 0
      BY <3>1, FS_EmptySet
    <3>4. Room
      BY <1>a, <3>2, <3>3 DEF Room, Width
    <3>5. ~OpenFor(ledger, 0)
      BY <3>1, <3>3, <3>4 DEF MayLaunch
    <3>6. Committed(ledger, 0) = ledger.spent
      BY <1>a DEF Committed, Ledgers
    <3>7. QED
      BY <1>a, <3>1, <3>2, <3>5, <3>6 DEF OpenFor, Ledgers
  <2>4. QED
    BY <2>1, <2>2, <2>3 DEF PauseIsNearTheCap, Waiting
<1>3. CASE Approve
  BY <1>3 DEF Approve, queueVars, ProbeRunsAlone, PauseIsNearTheCap
<1>4. CASE \E e \in Entries : NextFinished(e)
  <2> PICK e \in Entries : NextFinished(e)
    BY <1>4
  <2>1. pending' = pending \ {e} /\ pc' = "fill" /\ (done' = done \/ done' = done + 1)
    BY DEF NextFinished, Settle
  <2>2. /\ IsFiniteSet(pending')
        /\ Cardinality(pending') = IF e \in pending THEN Cardinality(pending) - 1
                                                     ELSE Cardinality(pending)
    BY <1>a, <2>1, FS_RemoveElement
  <2>3. Cardinality(pending') \in Nat
    BY <2>2, FS_CardinalityType
  <2>4. Cardinality(pending') <= Cardinality(pending)
    BY <1>a, <2>2
  <2>5. QED
    BY <1>a, <2>1, <2>3, <2>4 DEF ProbeRunsAlone, PauseIsNearTheCap
<1>5. CASE Driven
  BY <1>5 DEF Driven, queueVars, ProbeRunsAlone, PauseIsNearTheCap, Active, Waiting
<1>6. CASE (\E e \in Entries : AttemptStep(e)) \/ UNCHANGED vars
  <2>1. UNCHANGED <<pc, ledger, cursor, requeued, done, pending>>
    BY <1>6 DEF AttemptStep, OpenAttempt, SubjectEnds, CloseAttempt, AttemptRaises, vars, queueVars
  <2>2. QED
    BY <2>1 DEF ProbeRunsAlone, PauseIsNearTheCap, Active, Waiting
<1>7. QED
  BY <1>1, <1>2, <1>3, <1>4, <1>5, <1>6 DEF Next, SeriesStep

LEMMA GateInvHolds == Spec => [](LoopInv /\ GateInv)
<1>1. Init => GateInv
  BY FS_EmptySet DEF Init, GateInv, ProbeRunsAlone, PauseIsNearTheCap
<1>2. QED
  BY <1>1, LoopInvHolds, GateInvStep, PTL DEF Spec

(* The window never exceeds its lookahead, and until an attempt has counted only
   the probe runs, however often the probe is requeued. *)
THEOREM ProbeFirst == Spec => []ProbeRunsAlone
<1>1. GateInv => ProbeRunsAlone
  BY DEF GateInv
<1>2. QED
  BY <1>1, GateInvHolds, PTL

(* A series pauses only with work waiting, nothing running and 90% of its cap
   spent: a reserve alone, with nothing running, never stops it. *)
THEOREM PausesNearTheCap == Spec => []PauseIsNearTheCap
<1>1. GateInv => PauseIsNearTheCap
  BY DEF GateInv
<1>2. QED
  BY <1>1, GateInvHolds, PTL

(* When the loop is left, every attempt of the plan has counted and no attempt
   workflow is still enqueued or running. *)
THEOREM DrivenCompletes == Spec => []DrivenIsComplete
<1>1. LoopInv /\ GateInv => DrivenIsComplete
  <2> SUFFICES ASSUME LoopInv, GateInv, pc = "driven"
               PROVE  Counted = Ordinals
                      /\ \A e \in Entries : attempts[e].state = "none" \/ Returned(e)
    BY DEF DrivenIsComplete
  <2>1. ~(cursor < Total) /\ requeued = <<>> /\ pending = {}
    BY DEF GateInv, Active, Waiting
  <2>2. cursor \in Nat /\ attempts \in [Entries -> Attempts]
    BY DEF LoopInv, TypeInv, TypeOK
  <2>3. Fresh = {} /\ Requeued = {} /\ OrdinalsOf(pending) = {} /\ OrdinalsOf(Requeued) = {}
    BY <2>1, <2>2 DEF Fresh, Requeued, Range, OrdinalsOf
  <2>4. Counted = Ordinals
    BY <2>3 DEF Counted, Uncounted
  <2>5. \A e \in Entries : attempts[e].state \in AttemptStates \ {"enqueued", "open", "judging"}
    BY <2>1, <2>2 DEF LoopInv, AttemptInv, InFlightIsPending, Attempts, AttemptStates
  <2>6. QED
    BY <2>4, <2>5 DEF Returned, AttemptStates
<1>2. QED
  BY <1>1, GateInvHolds, PTL

(* No try is enqueued once 90% of the cap is spent, and no step lowers the cap. *)
THEOREM ThresholdHolds == Spec => NoLaunchAtTheThreshold
<1> DEFINE Step ==
      /\ (\E e \in Entries : attempts[e].state = "none" /\ attempts'[e].state # "none")
           => ledger.spent * 10 < ledger.cap * 9
      /\ ledger'.cap >= ledger.cap
<1>1. LoopInv /\ [Next]_vars => [Step]_vars
  <2> SUFFICES ASSUME LoopInv, Next PROVE Step
    OBVIOUS
  <2>a. /\ ledger \in Ledgers /\ attempts \in [Entries -> Attempts]
        /\ Cardinality(pending) \in Nat /\ TypeInv
    BY FS_CardinalityType DEF LoopInv, TypeInv, TypeOK
  <2>1. CASE Launch
    <3>1. OpenFor(ledger, Cardinality(pending))
      BY <2>1 DEF Launch, MayLaunch
    <3>2. ledger.reserve * Cardinality(pending) \in Nat
      BY <2>a DEF Ledgers
    <3>3. ledger.spent * 10 < ledger.cap * 9
      BY <2>a, <3>1, <3>2 DEF OpenFor, Committed, Ledgers
    <3>4. QED
      BY <2>1, <2>a, <3>3 DEF Launch, Ledgers
  <2>2. CASE FillEnds \/ Driven
    BY <2>2, <2>a DEF FillEnds, Driven, Ledgers
  <2>3. CASE Approve
    BY <2>3, <2>a DEF Approve, Ledgers
  <2>4. CASE \E e \in Entries : NextFinished(e)
    BY <2>4, <2>a DEF NextFinished, AddSpend, Ledgers
  <2>5. ASSUME NEW e \in Entries, AttemptStep(e)
        PROVE  Step
    <3>1. ledger' = ledger
      BY <2>5 DEF AttemptStep, OpenAttempt, SubjectEnds, CloseAttempt, AttemptRaises
    <3>2. \A f \in Entries : attempts[f].state = "none" => attempts'[f] = attempts[f]
      BY <2>5, <2>a, AttemptStepEffect
    <3>3. QED
      BY <2>a, <3>1, <3>2 DEF Ledgers
  <2>6. QED
    BY <2>1, <2>2, <2>3, <2>4, <2>5 DEF Next, SeriesStep
<1>2. QED
  BY <1>1, LoopInvHolds, PTL DEF Spec, NoLaunchAtTheThreshold

-----------------------------------------------------------------------------
(* The probe *)

\* The one probe runs under what is left of the cap, and a requeued try passed its limit
\* by no more than a run may.
ProbeInv ==
    /\ \A e \in Entries : attempts[e].state = "requeued" =>
          attempts[e].spend <= Lives * Overspent(attempts[e].limit)
    /\ done = 0 =>
          /\ ledger.spent <= Lives * Overspent(ledger.cap)
          /\ \A e \in pending : attempts[e].limit + ledger.spent <= ledger.cap

\* A cap that is raised leaves more room.
LEMMA RoomGrows ==
    ASSUME NEW c \in Nat, NEW d \in Nat, c <= d
    PROVE  /\ Overspent(c) \in Nat /\ Lives * Overspent(c) \in Nat
           /\ Lives * Overspent(c) <= Lives * Overspent(d)
<1> DEFINE p == Parallel * CallMax
<1>1. p \in Nat /\ Lives \in Nat
  BY CostAssumption
<1>2. Overspent(c) = c + p /\ Overspent(d) = d + p
  BY DEF Overspent
<1> HIDE DEF p
<1>3. Lives * (d + p) = Lives * (c + p) + Lives * (d - c) /\ Lives * (d - c) >= 0
      /\ Lives * (c + p) \in Nat
  BY <1>1
<1>4. QED
  BY <1>1, <1>2, <1>3

\* What was spent before a run takes from its limit at least as much as it adds.
LEMMA SpentIsTakenOff ==
    ASSUME NEW limit \in Nat, NEW spent \in Nat, NEW cap \in Nat, NEW spend \in Nat,
           limit + spent <= cap, spend <= Lives * Overspent(limit)
    PROVE  spent + spend <= Lives * Overspent(cap)
<1> DEFINE p == Parallel * CallMax
<1>1. p \in Nat /\ Lives \in Nat \ {0}
  BY CostAssumption
<1>2. Overspent(limit + spent) = limit + p + spent /\ Overspent(limit) = limit + p
  BY <1>1 DEF Overspent
<1> HIDE DEF p
<1>3. Lives * (limit + p + spent) = Lives * (limit + p) + Lives * spent
  BY <1>1
<1>4. Lives * spent >= spent
  <2>1. Lives * spent = spent + (Lives - 1) * spent /\ (Lives - 1) * spent >= 0
    BY <1>1
  <2>2. QED
    BY <1>1, <2>1
<1>5. Lives * (limit + p) \in Nat /\ Lives * spent \in Nat
  BY <1>1
<1>6. spent + spend <= Lives * Overspent(limit + spent)
  BY <1>2, <1>3, <1>4, <1>5
<1>7. Lives * Overspent(limit + spent) <= Lives * Overspent(cap) /\ limit + spent \in Nat
      /\ Lives * Overspent(limit + spent) \in Nat /\ Lives * Overspent(cap) \in Nat
  BY RoomGrows
<1>8. QED
  BY <1>6, <1>7

LEMMA ProbeInvStep ==
    ASSUME ProbeWidth = 1
    PROVE  LoopInv /\ GateInv /\ ProbeInv /\ [Next]_vars => ProbeInv'
<1> SUFFICES ASSUME LoopInv, GateInv, ProbeInv, [Next]_vars PROVE ProbeInv'
  OBVIOUS
<1>a. /\ IsFiniteSet(pending) /\ Cardinality(pending) \in Nat /\ done \in Nat
      /\ ledger \in Ledgers /\ attempts \in [Entries -> Attempts]
      /\ pending \subseteq Entries /\ TypeInv
      /\ done = 0 => Cardinality(pending) <= 1
  BY FS_CardinalityType DEF LoopInv, TypeInv, TypeOK, GateInv, ProbeRunsAlone
<1> USE DEF ProbeInv
<1>1. CASE Launch
  <2>1. Taken \in Entries /\ attempts[Taken].state = "none"
    BY <1>1, LaunchIsNew
  <2> DEFINE limit == LimitMicros(ledger, Cardinality(pending))
  <2>2. /\ pending' = pending \cup {Taken} /\ ledger' = ledger /\ done' = done
        /\ attempts'[Taken].state = "enqueued" /\ attempts'[Taken].limit = limit
        /\ \A f \in Entries \ {Taken} : attempts'[f] = attempts[f]
    BY <1>1, <1>a, <2>1 DEF Launch, NoAttempt, Attempts
  <2>3. ASSUME done = 0
        PROVE  pending = {} /\ limit + ledger.spent <= ledger.cap
    <3>1. Cardinality(pending) < 1
      BY <1>1, <2>3 DEF Launch, MayLaunch, Room, Width
    <3>2. Cardinality(pending) = 0 /\ pending = {}
      BY <1>a, <3>1, FS_EmptySet
    <3>3. Committed(ledger, 0) = ledger.spent
      BY <1>a DEF Committed, Ledgers
    <3>4. ledger.spent * 10 < ledger.cap * 9
      BY <1>1, <3>2, <3>3 DEF Launch, MayLaunch, OpenFor
    <3>5. QED
      BY <1>a, <3>2, <3>3, <3>4 DEF LimitMicros, Headroom, Ledgers
  <2>4. QED
    BY <1>a, <2>1, <2>2, <2>3
<1>2. CASE Approve
  <2>1. /\ ledger'.spent = ledger.spent /\ ledger'.cap \in Nat /\ ledger'.cap > ledger.cap
        /\ UNCHANGED <<attempts, pending, done>>
    BY <1>a, <1>2, CapAssumption DEF Approve, queueVars, Ledgers
  <2>2. /\ Lives * Overspent(ledger.cap) <= Lives * Overspent(ledger'.cap)
        /\ Lives * Overspent(ledger.cap) \in Nat /\ Lives * Overspent(ledger'.cap) \in Nat
    BY <1>a, <2>1, RoomGrows DEF Ledgers
  <2>3. QED
    BY <1>a, <2>1, <2>2 DEF Ledgers, Attempts
<1>3. CASE \E e \in Entries : NextFinished(e)
  <2> PICK e \in Entries : NextFinished(e)
    BY <1>3
  <2>1. /\ pending' = pending \ {e} /\ e \in pending /\ attempts' = attempts
        /\ ledger' = AddSpend(ledger, attempts[e].spend)
        /\ done' = IF attempts[e].state = "requeued" THEN done ELSE done + 1
    BY DEF NextFinished, Settle
  <2>2. ASSUME done' = 0
        PROVE  /\ attempts[e].state = "requeued" /\ done = 0
               /\ pending' = {}
    <3>1. attempts[e].state = "requeued" /\ done = 0
      BY <1>a, <2>1, <2>2
    <3>2. IsFiniteSet(pending') /\ Cardinality(pending') = Cardinality(pending) - 1
      BY <1>a, <2>1, FS_RemoveElement
    <3>3. Cardinality(pending') \in Nat
      BY <3>2, FS_CardinalityType
    <3>4. Cardinality(pending') = 0
      BY <1>a, <3>1, <3>2, <3>3
    <3>5. QED
      BY <3>1, <3>2, <3>4, FS_EmptySet
  <2>3. ledger'.spent = ledger.spent + attempts[e].spend /\ ledger'.cap = ledger.cap
    BY <1>a, <2>1 DEF AddSpend, Ledgers
  <2>4. ASSUME done' = 0
        PROVE  ledger'.spent <= Lives * Overspent(ledger'.cap)
    <3>1. /\ attempts[e].limit + ledger.spent <= ledger.cap
          /\ attempts[e].spend <= Lives * Overspent(attempts[e].limit)
      BY <2>1, <2>2, <2>4
    <3>2. ledger.spent + attempts[e].spend <= Lives * Overspent(ledger.cap)
      BY <1>a, <3>1, SpentIsTakenOff DEF Ledgers, Attempts
    <3>3. QED
      BY <2>3, <3>2
  <2>5. QED
    BY <2>1, <2>2, <2>4
<1>4. CASE FillEnds \/ Driven \/ UNCHANGED vars
  BY <1>4 DEF FillEnds, Driven, vars, queueVars
<1>5. ASSUME NEW e \in Entries, AttemptStep(e)
      PROVE  ProbeInv'
  <2>1. /\ UNCHANGED <<ledger, done, pending>>
        /\ \A f \in Entries \ {e} : attempts'[f] = attempts[f]
    BY <1>5, <1>a, AttemptStepEffect DEF queueVars, AttemptStep, OpenAttempt, SubjectEnds,
       CloseAttempt, AttemptRaises
  <2>2. /\ attempts'[e].limit = attempts[e].limit
        /\ attempts'[e].state = "requeued" =>
             attempts'[e].spend <= Lives * Overspent(attempts'[e].limit)
    <3> USE DEF Attempts
    <3>1. CASE OpenAttempt(e)
      BY <1>a, <3>1 DEF OpenAttempt
    <3>2. CASE SubjectEnds(e)
      <4> PICK cost \in RunCosts(attempts[e].limit), rateLimited \in BOOLEAN :
             attempts' = [attempts EXCEPT ![e] =
                IF rateLimited /\ e.tries < RateLimitTries
                THEN [@ EXCEPT !.state = "requeued", !.cost = cost, !.spend = cost]
                ELSE [@ EXCEPT !.state = "judging", !.cost = cost]]
        BY <3>2 DEF SubjectEnds
      <4>1. cost <= Lives * Overspent(attempts[e].limit)
        BY DEF RunCosts
      <4>2. QED
        BY <1>a, <4>1
    <3>3. CASE CloseAttempt(e)
      BY <1>a, <3>3 DEF CloseAttempt
    <3>4. CASE AttemptRaises(e)
      BY <1>a, <3>4 DEF AttemptRaises
    <3>5. QED
      BY <1>5, <3>1, <3>2, <3>3, <3>4 DEF AttemptStep
  <2>3. QED
    BY <1>a, <2>1, <2>2
<1>6. QED
  BY <1>1, <1>2, <1>3, <1>4, <1>5 DEF Next, SeriesStep

(* With one probe at a time, as PROBE_WIDTH has it, a series that has counted no
   attempt yet has spent at most its cap and the calls one run has under way
   together, once for every life of the process a run spans, however often its
   probe was rate limited and requeued. *)
THEOREM ProbeWithinCap == ASSUME ProbeWidth = 1 PROVE Spec => []ProbeStaysWithinCap
<1>1. Init => ProbeInv
  <2>1. Lives * Overspent(Cap0) \in Nat
    BY CapAssumption, RoomGrows
  <2>2. QED
    BY <2>1 DEF Init, ProbeInv, NoAttempt
<1>2. ProbeInv => ProbeStaysWithinCap
  BY DEF ProbeInv, ProbeStaysWithinCap
<1>3. QED
  BY <1>1, <1>2, ProbeInvStep, GateInvHolds, PTL DEF Spec

-----------------------------------------------------------------------------
(* The refinement: SeriesDrive implements AttemptBoard *)

TryOf(o, t) == [ordinal |-> o, tries |-> t]
Used(o) == {t \in FirstTry .. RateLimitTries : attempts[TryOf(o, t)].state # "none"}

\* The tries before a requeued one were enqueued, and so was a pending one.
UsedTries ==
    /\ \A e \in pending : \A t \in FirstTry .. e.tries :
          attempts[TryOf(e.ordinal, t)].state # "none"
    /\ \A e \in Requeued : \A t \in FirstTry .. e.tries - 1 :
          attempts[TryOf(e.ordinal, t)].state # "none"

BoardInv == LoopInv /\ UsedTries

LEMMA EntryTypes ==
    ASSUME LoopInv
    PROVE  /\ pending \subseteq Entries /\ Requeued \subseteq Entries /\ cursor \in Nat
           /\ attempts \in [Entries -> Attempts] /\ OneTryPerOrdinal
           /\ \A e \in Entries : e.ordinal \in Ordinals /\ e.tries \in FirstTry .. RateLimitTries
           /\ \A e \in Entries : e = TryOf(e.ordinal, e.tries)
           /\ \A o \in Ordinals, t \in FirstTry .. RateLimitTries : TryOf(o, t) \in Entries
BY RequeuedType DEF LoopInv, TypeInv, TypeOK, EachAttemptCountedOnce, Entries, TryOf

\* The tries of an ordinal that were enqueued, by where the ordinal is.
LEMMA UsedByPlace ==
    ASSUME BoardInv
    PROVE  /\ \A o \in Ordinals : o >= cursor => Used(o) = {}
           /\ \A e \in pending : Used(e.ordinal) = FirstTry .. e.tries
           /\ \A e \in Requeued : Used(e.ordinal) = FirstTry .. e.tries - 1
<1> USE DEF BoardInv, LoopInv, AttemptInv, UnusedTries
<1>a. /\ pending \subseteq Entries /\ Requeued \subseteq Entries /\ cursor \in Nat
      /\ \A e \in Entries : e.ordinal \in Ordinals /\ e.tries \in FirstTry .. RateLimitTries
      /\ \A o \in Ordinals, t \in FirstTry .. RateLimitTries : TryOf(o, t) \in Entries
  BY EntryTypes
<1>1. ASSUME NEW o \in Ordinals, o >= cursor
      PROVE  Used(o) = {}
  BY <1>1, <1>a DEF Used, StillToCome, TryOf
<1>2. ASSUME NEW e \in pending
      PROVE  Used(e.ordinal) = FirstTry .. e.tries
  <2>1. e \in Entries /\ e.ordinal \in Ordinals /\ e.tries \in FirstTry .. RateLimitTries
    BY <1>a
  <2>2. ASSUME NEW t \in FirstTry .. RateLimitTries, t > e.tries
        PROVE  attempts[TryOf(e.ordinal, t)].state = "none"
    <3>1. TryOf(e.ordinal, t) \in Entries /\ StillToCome(TryOf(e.ordinal, t))
      BY <1>a, <2>1, <2>2 DEF StillToCome, TryOf
    <3>2. QED
      BY <3>1
  <2>3. \A t \in FirstTry .. e.tries : t \in FirstTry .. RateLimitTries
    BY <2>1 DEF FirstTry
  <2>4. \A t \in FirstTry .. RateLimitTries : t > e.tries \/ t \in FirstTry .. e.tries
    BY <2>1 DEF FirstTry
  <2>5. QED
    BY <2>2, <2>3, <2>4 DEF Used, UsedTries
<1>3. ASSUME NEW e \in Requeued
      PROVE  Used(e.ordinal) = FirstTry .. e.tries - 1
  <2>1. e \in Entries /\ e.ordinal \in Ordinals /\ e.tries \in FirstTry .. RateLimitTries
    BY <1>a
  <2>2. ASSUME NEW t \in FirstTry .. RateLimitTries, t >= e.tries
        PROVE  attempts[TryOf(e.ordinal, t)].state = "none"
    <3>1. TryOf(e.ordinal, t) \in Entries /\ StillToCome(TryOf(e.ordinal, t))
      BY <1>a, <2>1, <2>2 DEF StillToCome, TryOf, FirstTry
    <3>2. QED
      BY <3>1
  <2>3. \A t \in FirstTry .. e.tries - 1 : t \in FirstTry .. RateLimitTries
    BY <2>1 DEF FirstTry
  <2>4. \A t \in FirstTry .. RateLimitTries : t >= e.tries \/ t \in FirstTry .. e.tries - 1
    BY <2>1 DEF FirstTry
  <2>5. QED
    BY <2>2, <2>3, <2>4 DEF Used, UsedTries
<1>4. QED
  BY <1>1, <1>2, <1>3

\* What a launch takes is the next try of its ordinal.
LEMMA TakenIsNextTry ==
    ASSUME BoardInv, Launch
    PROVE  /\ Taken \in Entries /\ attempts[Taken].state = "none"
           /\ Used(Taken.ordinal) = FirstTry .. Taken.tries - 1
<1>1. Taken \in Entries /\ attempts[Taken].state = "none"
  BY LaunchIsNew DEF BoardInv
<1>2. Taken.ordinal \in Ordinals
  BY <1>1 DEF Entries
<1>3. CASE cursor < Total
  <2>1. Taken.ordinal >= cursor /\ Taken.tries = FirstTry
    BY <1>3, EntryTypes DEF Taken, BoardInv
  <2>2. FirstTry .. FirstTry - 1 = {}
    BY DEF FirstTry
  <2>3. QED
    BY <1>1, <1>2, <2>1, <2>2, UsedByPlace
<1>4. CASE ~(cursor < Total)
  <2>1. Taken.ordinal < cursor
    BY <1>2, <1>4, EntryTypes DEF Ordinals, BoardInv
  <2>2. Taken \in Requeued
    BY <1>2, <2>1, LaunchPlaces, EntryTypes DEF BoardInv, LoopInv, Ordinals
  <2>3. QED
    BY <1>1, <2>2, UsedByPlace
<1>5. QED
  BY <1>3, <1>4

\* A step of an attempt neither enqueues a try nor takes one back.
LEMMA AttemptStepUses ==
    ASSUME TypeInv, NEW e \in Entries, AttemptStep(e)
    PROVE  \A f \in Entries : attempts'[f].state = "none" <=> attempts[f].state = "none"
<1>1. /\ attempts[e].state \in {"enqueued", "open", "judging"}
      /\ \A f \in Entries \ {e} : attempts'[f] = attempts[f]
  BY AttemptStepEffect
<1>2. attempts'[e].state # "none"
  <2> USE DEF TypeInv, TypeOK, Attempts
  <2>1. CASE OpenAttempt(e)
    BY <2>1 DEF OpenAttempt
  <2>2. CASE SubjectEnds(e)
    BY <2>2 DEF SubjectEnds
  <2>3. CASE CloseAttempt(e)
    BY <2>3 DEF CloseAttempt
  <2>4. CASE AttemptRaises(e)
    BY <2>4 DEF AttemptRaises
  <2>5. QED
    BY <2>1, <2>2, <2>3, <2>4 DEF AttemptStep
<1>3. QED
  BY <1>1, <1>2

LEMMA UsedTriesStep ==
    BoardInv /\ [Next]_vars => UsedTries'
<1> SUFFICES ASSUME BoardInv, [Next]_vars PROVE UsedTries'
  OBVIOUS
<1> USE DEF BoardInv
<1>a. LoopInv /\ TypeInv /\ OneTryPerOrdinal
  BY EntryTypes DEF LoopInv
<1>1. CASE Launch
  <2>1. /\ Taken \in Entries /\ attempts[Taken].state = "none"
        /\ Used(Taken.ordinal) = FirstTry .. Taken.tries - 1
    BY <1>1, TakenIsNextTry
  <2>2. Requeued' \subseteq Requeued /\ pending' = pending \cup {Taken}
    BY <1>1, <1>a, LaunchPlaces DEF Launch
  <2>3. \A f \in Entries : attempts[f].state # "none" \/ f = Taken => attempts'[f].state # "none"
    BY <1>1, <2>1, EntryTypes DEF Launch, NoAttempt, Attempts
  <2>4. ASSUME NEW e \in Requeued', NEW t \in FirstTry .. e.tries - 1
        PROVE  attempts'[TryOf(e.ordinal, t)].state # "none"
    <3>1. e \in Requeued /\ TryOf(e.ordinal, t) \in Entries
      BY <2>2, EntryTypes DEF FirstTry
    <3>2. QED
      BY <2>3, <3>1 DEF UsedTries
  <2>5. ASSUME NEW e \in pending', NEW t \in FirstTry .. e.tries
        PROVE  attempts'[TryOf(e.ordinal, t)].state # "none"
    <3>1. e \in Entries /\ TryOf(e.ordinal, t) \in Entries
      BY <2>1, <2>2, EntryTypes DEF FirstTry
    <3>2. CASE e \in pending
      BY <2>3, <3>1, <3>2 DEF UsedTries
    <3>3. CASE e = Taken /\ t = e.tries
      BY <2>3, <3>1, <3>3, EntryTypes
    <3>4. CASE e = Taken /\ t # e.tries
      <4>1. t \in Used(Taken.ordinal)
        BY <2>1, <3>1, <3>4, EntryTypes DEF FirstTry
      <4>2. QED
        BY <2>3, <3>1, <3>4, <4>1 DEF Used
    <3>5. QED
      BY <2>2, <3>2, <3>3, <3>4
  <2>6. QED
    BY <2>4, <2>5 DEF UsedTries
<1>2. CASE \E e \in Entries : NextFinished(e)
  <2> PICK e \in Entries : NextFinished(e)
    BY <1>2
  <2>1. pending' = pending \ {e} /\ e \in pending /\ attempts' = attempts
    BY DEF NextFinished
  <2>2. Requeued' \subseteq Requeued \cup {Again(e)}
    BY <1>a, SettlePlaces
  <2>3. Again(e).ordinal = e.ordinal /\ Again(e).tries - 1 = e.tries
    BY EntryTypes DEF Again, Entries, FirstTry
  <2>4. QED
    BY <2>1, <2>2, <2>3 DEF UsedTries
<1>3. CASE FillEnds \/ Approve \/ Driven \/ UNCHANGED vars
  <2>1. UNCHANGED <<requeued, pending, attempts>>
    BY <1>3 DEF FillEnds, Approve, Driven, vars, queueVars
  <2>2. QED
    BY <2>1 DEF UsedTries, Requeued
<1>4. ASSUME NEW e \in Entries, AttemptStep(e)
      PROVE  UsedTries'
  <2>1. UNCHANGED <<requeued, pending>>
    BY <1>4, <1>a, AttemptStepEffect DEF queueVars
  <2>2. \A f \in Entries : attempts'[f].state = "none" <=> attempts[f].state = "none"
    BY <1>4, <1>a, AttemptStepUses
  <2>3. \A f \in pending : \A t \in FirstTry .. f.tries : TryOf(f.ordinal, t) \in Entries
    BY EntryTypes DEF FirstTry
  <2>4. \A f \in Requeued : \A t \in FirstTry .. f.tries - 1 : TryOf(f.ordinal, t) \in Entries
    BY EntryTypes DEF FirstTry
  <2>5. QED
    BY <2>1, <2>2, <2>3, <2>4 DEF UsedTries, Requeued
<1>5. QED
  BY <1>1, <1>2, <1>3, <1>4 DEF Next, SeriesStep

LEMMA BoardInvHolds == Spec => []BoardInv
<1>1. Init => UsedTries
  BY DEF Init, UsedTries, Requeued, Range
<1>2. BoardInv /\ [Next]_vars => BoardInv'
  <2>1. LoopInv /\ [Next]_vars => LoopInv'
    BY TypeInvStep, PlacesStep, AttemptInvStep DEF LoopInv
  <2>2. QED
    BY <2>1, UsedTriesStep DEF BoardInv
<1>3. QED
  BY <1>1, <1>2, LoopInvHolds, UsedTriesStep, PTL DEF Spec, BoardInv

-----------------------------------------------------------------------------
(* The step simulation *)

placeBar == [o \in Ordinals |-> PlaceOf(o)]
triesBar == [o \in Ordinals |-> TriesOf(o)]

LEMMA TriesAreUsed == \A o \in Ordinals : TriesOf(o) = Cardinality(Used(o))
BY DEF TriesOf, Used, TryOf

LEMMA UsedIsFinite == \A o \in Ordinals : IsFiniteSet(Used(o))
<1>1. IsFiniteSet(FirstTry .. RateLimitTries)
  BY FS_Interval DEF FirstTry
<1>2. QED
  BY <1>1, FS_Subset DEF Used

LEMMA CountOfTries ==
    ASSUME NEW n \in Nat
    PROVE  Cardinality(FirstTry .. n) = n
BY FS_Interval DEF FirstTry

\* Where an ordinal is decides its place on the board.
LEMMA PlaceCases ==
    ASSUME BoardInv, NEW o \in Ordinals
    PROVE  /\ o >= cursor => PlaceOf(o) = "fresh"
           /\ o < cursor /\ o \in OrdinalsOf(pending) => PlaceOf(o) = "trying"
           /\ o < cursor /\ o \notin OrdinalsOf(pending) /\ o \in OrdinalsOf(Requeued)
                => PlaceOf(o) = "again"
           /\ o < cursor /\ o \notin OrdinalsOf(pending) /\ o \notin OrdinalsOf(Requeued)
                => PlaceOf(o) = "counted"
<1>1. o \in Nat /\ cursor \in Nat
  BY EntryTypes DEF BoardInv, Ordinals
<1>2. QED
  BY <1>1 DEF PlaceOf

\* Launch is Try.
LEMMA LaunchTries ==
    ASSUME BoardInv, BoardInv', Launch
    PROVE  \E a \in Ordinals : Board!Try(a)
<1>0. PICK k \in Entries : k = Taken
  BY TakenIsNextTry
<1>b. PICK a \in Ordinals : a = k.ordinal
  BY DEF Entries
<1>1. /\ attempts[k].state = "none"
      /\ Used(a) = FirstTry .. k.tries - 1
      /\ a \in Nat /\ k.tries \in FirstTry .. RateLimitTries
      /\ k = TryOf(a, k.tries)
  BY <1>0, <1>b, TakenIsNextTry, EntryTypes DEF BoardInv, Ordinals
<1>2. /\ a >= cursor \/ k \in Requeued
      /\ Requeued' \subseteq Requeued
      /\ \A f \in pending \cup Requeued' : f.ordinal # a
      /\ cursor <= cursor' /\ a < cursor'
      /\ cursor' # cursor => cursor' = cursor + 1 /\ a = cursor
      /\ Uncounted' = Uncounted
  BY <1>0, <1>b, LaunchPlaces, EntryTypes DEF BoardInv, LoopInv
<1>3. pending' = pending \cup {k}
  BY <1>0 DEF Launch
<1>4. cursor \in Nat /\ cursor' \in Nat /\ \A o \in Ordinals : o \in Nat
  BY EntryTypes DEF BoardInv, LoopInv, TypeInv, TypeOK, Ordinals
<1>5. PlaceOf(a) \in {"fresh", "again"}
  <2>1. a \notin OrdinalsOf(pending)
    BY <1>2 DEF OrdinalsOf
  <2>2. a >= cursor \/ a \in OrdinalsOf(Requeued)
    BY <1>b, <1>2 DEF OrdinalsOf
  <2>3. QED
    BY <1>1, <1>4, <2>1, <2>2, PlaceCases
<1>6. PlaceOf(a)' = "trying"
  <2>1. a \in OrdinalsOf(pending') /\ a < cursor'
    BY <1>b, <1>2, <1>3 DEF OrdinalsOf
  <2>2. QED
    BY <1>1, <1>4, <2>1 DEF PlaceOf
<1>7. ASSUME NEW o \in Ordinals, o # a
      PROVE  PlaceOf(o)' = PlaceOf(o)
  <2>1. o >= cursor' <=> o >= cursor
    BY <1>1, <1>2, <1>4, <1>7
  <2>2. o \in OrdinalsOf(pending') <=> o \in OrdinalsOf(pending)
    BY <1>b, <1>3, <1>7 DEF OrdinalsOf
  <2>3. o >= cursor \/ o \in OrdinalsOf(pending) \/
          (o \in OrdinalsOf(Requeued') <=> o \in OrdinalsOf(Requeued))
    <3>1. OrdinalsOf(Requeued') \subseteq OrdinalsOf(Requeued)
      BY <1>2 DEF OrdinalsOf
    <3>2. ASSUME o < cursor, o \notin OrdinalsOf(pending), o \in OrdinalsOf(Requeued)
          PROVE  o \in OrdinalsOf(Requeued')
      <4>1. o \in Uncounted'
        BY <1>2, <3>2 DEF Uncounted
      <4>2. o \notin Fresh' /\ o \notin OrdinalsOf(pending')
        BY <1>4, <2>1, <2>2, <3>2 DEF Fresh
      <4>3. QED
        BY <4>1, <4>2 DEF Uncounted
    <3>3. QED
      BY <1>4, <3>1, <3>2
  <2>4. QED
    BY <2>1, <2>2, <2>3 DEF PlaceOf
<1>8. placeBar' = [placeBar EXCEPT ![a] = "trying"]
  BY <1>1, <1>6, <1>7 DEF placeBar
<1>9. /\ attempts'[k].state # "none"
      /\ \A f \in Entries \ {k} : attempts'[f] = attempts[f]
  BY <1>0, <1>1, EntryTypes DEF BoardInv, Launch, NoAttempt, Attempts
<1>10. Used(a)' = Used(a) \cup {k.tries} /\ k.tries \notin Used(a)
  <2>1. \A t \in FirstTry .. RateLimitTries :
          TryOf(a, t) \in Entries /\ (t # k.tries => TryOf(a, t) # k)
    BY <1>1, EntryTypes DEF BoardInv, TryOf
  <2>2. QED
    BY <1>1, <1>9, <2>1 DEF Used
<1>11. TriesOf(a)' = TriesOf(a) + 1
  <2>1. Cardinality(Used(a) \cup {k.tries}) = Cardinality(Used(a)) + 1
    BY <1>1, <1>10, UsedIsFinite, FS_AddElement
  <2>2. TriesOf(a)' = Cardinality(Used(a)')
    BY DEF TriesOf, Used, TryOf
  <2>3. QED
    BY <1>1, <1>10, <2>1, <2>2, TriesAreUsed
<1>12. TriesOf(a) < RateLimitTries
  <2>1. TriesOf(a) = k.tries - 1
    BY <1>1, TriesAreUsed, CountOfTries DEF FirstTry
  <2>2. QED
    BY <1>1, <2>1 DEF FirstTry
<1>13. ASSUME NEW o \in Ordinals, o # a
       PROVE  TriesOf(o)' = TriesOf(o)
  <2>1. \A t \in FirstTry .. RateLimitTries : TryOf(o, t) \in Entries /\ TryOf(o, t) # k
    BY <1>1, <1>13, EntryTypes DEF BoardInv, TryOf
  <2>2. Used(o)' = Used(o)
    BY <1>9, <2>1 DEF Used
  <2>3. TriesOf(o)' = Cardinality(Used(o)')
    BY DEF TriesOf, Used, TryOf
  <2>4. QED
    BY <2>2, <2>3, TriesAreUsed
<1>14. triesBar' = [triesBar EXCEPT ![a] = @ + 1]
  BY <1>1, <1>11, <1>13 DEF triesBar
<1>15. QED
  BY <1>1, <1>5, <1>8, <1>12, <1>14 DEF Board!Try, placeBar, triesBar

\* A try that comes back leaves what was enqueued alone.
LEMMA FinishedKeepsTries ==
    ASSUME UNCHANGED attempts
    PROVE  triesBar' = triesBar
<1>1. \A o \in Ordinals : TriesOf(o)' = TriesOf(o)
  BY DEF TriesOf
<1>2. QED
  BY <1>1 DEF triesBar

\* NextFinished is PutBack when the try is requeued, and Count when it is not.
LEMMA FinishedSettles ==
    ASSUME BoardInv, BoardInv', NEW e \in Entries, NextFinished(e)
    PROVE  \E a \in Ordinals : Board!PutBack(a) \/ Board!Count(a)
<1>b. PICK a \in Ordinals : a = e.ordinal
  BY DEF Entries
<1>1. /\ pending' = pending \ {e} /\ e \in pending /\ cursor' = cursor
      /\ UNCHANGED attempts
  BY DEF NextFinished, Settle
<1>2. /\ OneTryPerOrdinal /\ OneTryPerOrdinal' /\ TypeInv
      /\ cursor \in Nat /\ \A o \in Ordinals : o \in Nat
      /\ pending \subseteq Entries /\ Requeued \subseteq Entries
  BY EntryTypes DEF BoardInv, LoopInv, EachAttemptCountedOnce, Ordinals
<1>3. /\ attempts[e].state = "requeued" => Requeued' = Requeued \cup {Again(e)}
      /\ attempts[e].state # "requeued" => Requeued' = Requeued
  BY <1>2, SettlePlaces
<1>4. a < cursor /\ a \in OrdinalsOf(pending) /\ a \notin OrdinalsOf(pending')
      /\ a \notin OrdinalsOf(Requeued)
  BY <1>b, <1>1, <1>2 DEF OneTryPerOrdinal, OrdinalsOf
<1>5. PlaceOf(a) = "trying"
  BY <1>2, <1>4 DEF PlaceOf
<1>6. ASSUME NEW o \in Ordinals, o # a
      PROVE  PlaceOf(o)' = PlaceOf(o)
  <2>1. o \in OrdinalsOf(pending') <=> o \in OrdinalsOf(pending)
    BY <1>b, <1>1, <1>6 DEF OrdinalsOf
  <2>2. Again(e).ordinal = e.ordinal
    BY DEF Again, Entries
  <2>3. o \in OrdinalsOf(Requeued') <=> o \in OrdinalsOf(Requeued)
    BY <1>b, <1>3, <1>6, <2>2 DEF OrdinalsOf
  <2>4. QED
    BY <1>1, <2>1, <2>3 DEF PlaceOf
<1>7. triesBar' = triesBar
  BY <1>1, FinishedKeepsTries
<1>8. CASE attempts[e].state = "requeued"
  <2>1. Again(e).ordinal = e.ordinal
    BY DEF Again, Entries
  <2>2. a \in OrdinalsOf(Requeued')
    BY <1>b, <1>3, <1>8, <2>1 DEF OrdinalsOf
  <2>3. PlaceOf(a)' = "again"
    BY <1>1, <1>2, <1>4, <2>2 DEF PlaceOf
  <2>4. placeBar' = [placeBar EXCEPT ![a] = "again"]
    BY <1>6, <2>3 DEF placeBar
  <2>5. e.tries < RateLimitTries /\ e.tries \in Nat
    BY <1>2, <1>8 DEF TypeInv, RepeatsAllowed, Entries, FirstTry
  <2>6. TriesOf(a) = e.tries
    <3>1. Used(a) = FirstTry .. e.tries
      BY <1>b, <1>1, UsedByPlace
    <3>2. QED
      BY <2>5, <3>1, TriesAreUsed, CountOfTries
  <2>7. Board!PutBack(a)
    BY <1>5, <1>7, <2>4, <2>5, <2>6 DEF Board!PutBack, placeBar, triesBar
  <2>8. QED
    BY <2>7
<1>9. CASE attempts[e].state # "requeued"
  <2>1. a \notin OrdinalsOf(Requeued')
    BY <1>3, <1>4, <1>9
  <2>2. PlaceOf(a)' = "counted"
    BY <1>1, <1>2, <1>4, <2>1 DEF PlaceOf
  <2>3. placeBar' = [placeBar EXCEPT ![a] = "counted"]
    BY <1>6, <2>2 DEF placeBar
  <2>4. Board!Count(a)
    BY <1>5, <1>7, <2>3 DEF Board!Count, placeBar, triesBar
  <2>5. QED
    BY <2>4
<1>10. QED
  BY <1>8, <1>9

\* No other step moves an attempt on the board.
LEMMA OthersStutter ==
    ASSUME BoardInv,
           \/ FillEnds \/ Approve \/ Driven \/ UNCHANGED vars
           \/ \E e \in Entries : AttemptStep(e)
    PROVE  UNCHANGED <<placeBar, triesBar>>
<1>1. UNCHANGED <<cursor, requeued, pending>>
      /\ \A f \in Entries : attempts'[f].state = "none" <=> attempts[f].state = "none"
  <2>1. CASE FillEnds \/ Approve \/ Driven \/ UNCHANGED vars
    BY <2>1 DEF FillEnds, Approve, Driven, vars, queueVars
  <2>2. CASE \E e \in Entries : AttemptStep(e)
    BY <2>2, AttemptStepEffect, AttemptStepUses DEF queueVars, BoardInv, LoopInv
  <2>3. QED
    BY <2>1, <2>2
<1>2. placeBar' = placeBar
  <2>1. \A o \in Ordinals : PlaceOf(o)' = PlaceOf(o)
    BY <1>1 DEF PlaceOf, OrdinalsOf, Requeued
  <2>2. QED
    BY <2>1 DEF placeBar
<1>3. triesBar' = triesBar
  <2>1. ASSUME NEW o \in Ordinals
        PROVE  TriesOf(o)' = TriesOf(o)
    <3>1. \A t \in FirstTry .. RateLimitTries : TryOf(o, t) \in Entries
      BY EntryTypes DEF BoardInv
    <3>2. QED
      BY <1>1, <3>1 DEF TriesOf, TryOf
  <2>2. QED
    BY <2>1 DEF triesBar
<1>4. QED
  BY <1>2, <1>3

LEMMA InitMaps == Init => Board!BoardInit
<1> SUFFICES ASSUME Init PROVE Board!BoardInit
  OBVIOUS
<1>1. \A o \in Ordinals : o >= cursor
  BY DEF Init, Ordinals
<1>2. \A o \in Ordinals : PlaceOf(o) = "fresh"
  BY <1>1 DEF PlaceOf
<1>3. \A o \in Ordinals : TriesOf(o) = 0
  <2>1. ASSUME NEW o \in Ordinals
        PROVE  Used(o) = {}
    BY DEF Init, Used, TryOf, Entries, NoAttempt
  <2>2. QED
    BY <2>1, TriesAreUsed, FS_EmptySet
<1>4. QED
  BY <1>2, <1>3 DEF Board!BoardInit, Board!Attempt, Ordinals

(* The drive implements the board for every plan, window, cap and price: each
   attempt is tried at most RATE_LIMIT_TRIES times, one try at a time, and
   counted once, after its last try. *)
THEOREM DriveImplementsBoard == Spec => ImplementsBoard
<1>1. Init => Board!BoardInit
  BY InitMaps
<1>2. BoardInv /\ BoardInv' /\ [Next]_vars => [Board!BoardNext]_(Board!boardVars)
  <2> SUFFICES ASSUME BoardInv, BoardInv', [Next]_vars
               PROVE  Board!BoardNext \/ UNCHANGED <<placeBar, triesBar>>
    BY DEF Board!boardVars, placeBar, triesBar
  <2>1. CASE Launch
    BY <2>1, LaunchTries DEF Board!BoardNext, Board!Attempt, Ordinals
  <2>2. CASE \E e \in Entries : NextFinished(e)
    BY <2>2, FinishedSettles DEF Board!BoardNext, Board!Attempt, Ordinals
  <2>3. CASE \/ FillEnds \/ Approve \/ Driven \/ UNCHANGED vars
             \/ \E e \in Entries : AttemptStep(e)
    BY <2>3, OthersStutter
  <2>4. QED
    BY <2>1, <2>2, <2>3 DEF Next, SeriesStep
<1>3. QED
  BY <1>1, <1>2, BoardInvHolds, PTL DEF Spec, ImplementsBoard, Board!BoardSpec

-----------------------------------------------------------------------------
(* The spend of a series *)

SpendInv == LoopInv /\ WindowStaysInBudget /\ PlannedSpendFits

\* What the ledger has committed with one attempt more in the window.
LEMMA CommittedNext ==
    ASSUME NEW l \in Ledgers, NEW n \in Nat
    PROVE  /\ Committed(l, n) \in Nat
           /\ Committed(l, n + 1) = Committed(l, n) + l.reserve
           /\ l.spent <= Committed(l, n)
           /\ Committed(l, 0) = l.spent
<1>1. l.reserve \in Nat /\ l.spent \in Nat
  BY DEF Ledgers
<1>2. l.reserve * n \in Nat
  BY <1>1
<1>3. l.reserve * (n + 1) = l.reserve * n + l.reserve
  BY <1>1
<1>4. l.reserve * 0 = 0
  BY <1>1
<1>5. QED
  BY <1>1, <1>2, <1>3, <1>4 DEF Committed

\* A step that leaves the window alone surprises nobody.
LEMMA QuietStep ==
    ASSUME SpendNext, pending' = pending
    PROVE  surprised' <=> surprised
<1>1. pending' \ pending = {} /\ pending \ pending' = {}
  OBVIOUS
<1>2. ~Dearer
  BY <1>1 DEF Dearer
<1>3. surprised' = (surprised \/ (Dearer /\ pending' # {}))
  BY <1>1 DEF SpendNext
<1>4. QED
  BY <1>2, <1>3

LEMMA SpendInvStep ==
    SpendInv /\ [SpendNext]_spendVars => (WindowStaysInBudget /\ PlannedSpendFits)'
<1> SUFFICES ASSUME SpendInv, [SpendNext]_spendVars
             PROVE  (WindowStaysInBudget /\ PlannedSpendFits)'
  OBVIOUS
<1> USE DEF SpendInv
<1>a. /\ ledger \in Ledgers /\ ledger' \in Ledgers /\ attempts \in [Entries -> Attempts]
      /\ pending \subseteq Entries /\ IsFiniteSet(pending) /\ IsFiniteSet(pending')
      /\ Cardinality(pending) \in Nat /\ Cardinality(pending') \in Nat /\ TypeInv
  <2>1. TypeInv /\ TypeInv'
    BY TypeInvStep DEF LoopInv, SpendNext, spendVars
  <2>2. QED
    BY <2>1, FS_CardinalityType DEF TypeInv, TypeOK
<1>1. CASE Launch /\ SpendNext
  <2>1. Taken \notin pending /\ pending' = pending \cup {Taken} /\ ledger' = ledger
    BY <1>1, LaunchPlaces DEF Launch, LoopInv, EachAttemptCountedOnce
  <2>2. Cardinality(pending') - 1 = Cardinality(pending)
    BY <1>a, <2>1, FS_AddElement
  <2>3. OpenFor(ledger, Cardinality(pending))
    BY <1>1 DEF Launch, MayLaunch
  <2>4. Committed(ledger, Cardinality(pending)) \in Nat
        /\ ledger.spent <= Committed(ledger, Cardinality(pending))
    BY <1>a, CommittedNext
  <2>5. PlannedSpendFits'
    BY <2>1, <2>2, <2>3 DEF PlannedSpendFits, OpenFor
  <2>6. WindowStaysInBudget'
    BY <1>a, <2>1, <2>3, <2>4 DEF WindowStaysInBudget, OpenFor, Ledgers
  <2>7. QED
    BY <2>5, <2>6
<1>2. CASE (\E e \in Entries : NextFinished(e)) /\ SpendNext
  <2> PICK e \in Entries : NextFinished(e)
    BY <1>2
  <2> DEFINE usd == attempts[e].spend
             n == Cardinality(pending)
  <2>1. /\ e \in pending /\ pending' = pending \ {e} /\ ledger' = AddSpend(ledger, usd)
        /\ usd \in Nat
    BY <1>a DEF NextFinished, Attempts
  <2>2. n \in Nat \ {0} /\ Cardinality(pending') = n - 1
    <3>1. Cardinality(pending') = n - 1
      BY <1>a, <2>1, FS_RemoveElement
    <3>2. QED
      BY <1>a, <3>1
  <2>3. /\ ledger'.cap = ledger.cap /\ ledger'.spent = ledger.spent + usd
        /\ ledger'.reserve = IF usd > ledger.reserve THEN usd ELSE ledger.reserve
    BY <1>a, <2>1 DEF AddSpend, Ledgers
  <2>4. pending' \ pending = {} /\ pending \ pending' = {e}
    BY <2>1
  <2>5. surprised' = (surprised \/ (usd > ledger.reserve /\ pending' # {}))
    BY <1>2, <2>4 DEF SpendNext, Dearer
  <2> SUFFICES ASSUME ~surprised'
               PROVE  (WindowStaysInBudget /\ PlannedSpendFits)'
    BY DEF WindowStaysInBudget, PlannedSpendFits
  <2>6. Committed(ledger, n - 1) * 10 < ledger.cap * 9
    BY <2>1, <2>5 DEF PlannedSpendFits
  <2>7. Committed(ledger, n - 1) \in Nat /\ ledger.spent <= Committed(ledger, n - 1)
    BY <1>a, <2>2, CommittedNext
  <2>8. WindowStaysInBudget'
    BY <1>a, <2>1, <2>3, <2>6, <2>7 DEF WindowStaysInBudget, Ledgers
  <2>9. PlannedSpendFits'
    <3> SUFFICES ASSUME pending' # {}
                 PROVE  Committed(ledger', Cardinality(pending') - 1) * 10 < ledger'.cap * 9
      BY DEF PlannedSpendFits
    <3>1. ~(usd > ledger.reserve)
      BY <2>5
    <3>2. n - 2 \in Nat
      <4>1. Cardinality(pending') # 0
        BY <1>a, FS_EmptySet
      <4>2. QED
        BY <2>2, <4>1
    <3>3. Committed(ledger, (n - 2) + 1) = Committed(ledger, n - 2) + ledger.reserve
          /\ Committed(ledger, n - 2) \in Nat
      BY <1>a, <3>2, CommittedNext
    <3>4. (n - 2) + 1 = n - 1
      BY <2>2
    <3>5. Committed(ledger', n - 2) = Committed(ledger, n - 2) + usd
      <4>1. ledger'.reserve = ledger.reserve
        BY <2>3, <3>1
      <4>2. ledger.reserve * (n - 2) \in Nat
        BY <1>a, <3>2 DEF Ledgers
      <4>3. QED
        BY <1>a, <2>1, <2>3, <4>1, <4>2 DEF Committed, Ledgers
    <3>6. Cardinality(pending') - 1 = n - 2
      BY <2>2
    <3>7. Committed(ledger', n - 2) <= Committed(ledger, n - 1)
      BY <1>a, <2>1, <3>1, <3>3, <3>4, <3>5 DEF Ledgers
    <3>8. Committed(ledger', n - 2) \in Nat
      BY <1>a, <3>2, CommittedNext
    <3>9. Committed(ledger', n - 2) * 10 < ledger'.cap * 9
      BY <1>a, <2>3, <2>6, <2>7, <3>7, <3>8 DEF Ledgers
    <3>10. QED
      BY <3>6, <3>9
  <2>10. QED
    BY <2>8, <2>9
<1>3. CASE Approve /\ SpendNext
  <2>1. /\ pending' = pending /\ ledger'.spent = ledger.spent
        /\ ledger'.reserve = ledger.reserve /\ ledger'.cap > ledger.cap
    BY <1>3, <1>a DEF Approve, Ledgers
  <2>2. surprised' <=> surprised
    BY <1>3, <2>1, QuietStep
  <2>3. \A k : Committed(ledger', k) = Committed(ledger, k)
    BY <2>1 DEF Committed
  <2>4. WindowStaysInBudget'
    BY <1>a, <2>1, <2>2 DEF WindowStaysInBudget, Ledgers
  <2>5. PlannedSpendFits'
    <3> SUFFICES ASSUME ~surprised, pending # {}
                 PROVE  Committed(ledger, Cardinality(pending) - 1) * 10 < ledger'.cap * 9
      BY <2>1, <2>2, <2>3 DEF PlannedSpendFits
    <3>1. Cardinality(pending) - 1 \in Nat
      BY <1>a, FS_EmptySet
    <3>2. Committed(ledger, Cardinality(pending) - 1) \in Nat
      BY <1>a, <3>1, CommittedNext
    <3>3. QED
      BY <1>a, <2>1, <3>2 DEF PlannedSpendFits, Ledgers
  <2>6. QED
    BY <2>4, <2>5
<1>4. CASE UNCHANGED <<ledger, pending>> /\ (surprised' <=> surprised)
  BY <1>4 DEF WindowStaysInBudget, PlannedSpendFits, Committed
<1>5. CASE (FillEnds \/ Driven \/ \E e \in Entries : AttemptStep(e)) /\ SpendNext
  <2>1. UNCHANGED <<ledger, pending>>
    BY <1>5 DEF FillEnds, Driven, AttemptStep, OpenAttempt, SubjectEnds, CloseAttempt, AttemptRaises
  <2>2. surprised' <=> surprised
    BY <1>5, <2>1, QuietStep
  <2>3. QED
    BY <1>4, <2>1, <2>2
<1>6. CASE UNCHANGED spendVars
  BY <1>4, <1>6 DEF spendVars, vars
<1>7. QED
  BY <1>1, <1>2, <1>3, <1>5, <1>6 DEF SpendNext, Next, SeriesStep

LEMMA SpendInvHolds == SpendSpec => []SpendInv
<1>1. SpendInit => Init /\ WindowStaysInBudget /\ PlannedSpendFits
  BY DEF SpendInit, Init, WindowStaysInBudget, PlannedSpendFits
<1>2. [SpendNext]_spendVars => [Next]_vars
  BY DEF SpendNext, spendVars
<1>3. SpendSpec => Spec
  BY <1>1, <1>2, PTL DEF SpendSpec, Spec
<1>4. QED
  BY <1>1, <1>3, LoopInvHolds, SpendInvStep, PTL DEF SpendSpec, SpendInv

(* Unless an attempt came back dearer than every one before it while others ran,
   the series has spent at most 90% of its cap and one attempt as dear as the
   dearest: the overshoot is one attempt, whatever the width of the window. *)
THEOREM SpendStaysInBudget == SpendSpec => []WindowStaysInBudget
<1>1. SpendInv => WindowStaysInBudget
  BY DEF SpendInv
<1>2. QED
  BY <1>1, SpendInvHolds, PTL

(* What has been spent and what is set aside for all running attempts but one
   stays under 90% of the cap. *)
THEOREM PlannedSpendStaysInBudget == SpendSpec => []PlannedSpendFits
<1>1. SpendInv => PlannedSpendFits
  BY DEF SpendInv
<1>2. QED
  BY <1>1, SpendInvHolds, PTL
=============================================================================
