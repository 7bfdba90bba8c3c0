----------------------------- MODULE SeriesSpend -----------------------------
(****************************************************************************)
(* How far a series may pass its cap. SeriesDrive with one history variable  *)
(* that no action reads: whether, since the last try was enqueued, an        *)
(* attempt came back dearer than the reserve while others were running. The  *)
(* ledger had set aside the reserve for each of those, so only such a        *)
(* surprise can take the spend further than the ledger planned for.          *)
(****************************************************************************)
EXTENDS SeriesDrive

VARIABLE surprised

spendVars == <<vars, surprised>>

SpendInit == Init /\ surprised = FALSE

Dearer == \E e \in pending \ pending' : attempts[e].spend > ledger.reserve

SpendNext ==
    /\ Next
    /\ surprised' = IF pending' \ pending # {} THEN FALSE
                    ELSE surprised \/ (Dearer /\ pending' # {})

SpendSpec == SpendInit /\ [][SpendNext]_spendVars

(* Without a surprise the series never spends more than 90% of its cap and one
   attempt as dear as the dearest so far: the window opens only while the spend
   and the reserves of all running attempts fit (SpendLedger.open_for), and an
   attempt that comes back turns its reserve into spend. *)
WindowStaysInBudget ==
    ~surprised => ledger.spent * 10 <= ledger.cap * 9 + ledger.reserve * 10

(* The same for the attempts still running: all of them but one fit. *)
PlannedSpendFits ==
    ~surprised /\ pending # {} =>
        Committed(ledger, Cardinality(pending) - 1) * 10 < ledger.cap * 9
=============================================================================
