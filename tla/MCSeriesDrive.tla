---------------------------- MODULE MCSeriesDrive ----------------------------
(* SeriesDrive for TLC: the drive with the history of SeriesSpend, against the
   board of attempts. *)
EXTENDS SeriesDriveRefinement, SeriesSpend

FairSpendSpec == SpendSpec /\ Fairness
=============================================================================
