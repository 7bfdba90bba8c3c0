------------------------ MODULE SeriesDriveRefinement ------------------------
(****************************************************************************)
(* SeriesDrive implements AttemptBoard: the place of an attempt is read off  *)
(* the queue and the window, its tries off the workflows that were enqueued. *)
(****************************************************************************)
EXTENDS SeriesDrive

PlaceOf(o) ==
    IF o >= cursor THEN "fresh"
    ELSE IF o \in OrdinalsOf(pending) THEN "trying"
    ELSE IF o \in OrdinalsOf(Requeued) THEN "again"
    ELSE "counted"

TriesOf(o) ==
    Cardinality({t \in FirstTry .. RateLimitTries :
                    attempts[[ordinal |-> o, tries |-> t]].state # "none"})

Board == INSTANCE AttemptBoard WITH
    place <- [o \in Ordinals |-> PlaceOf(o)],
    tries <- [o \in Ordinals |-> TriesOf(o)]

(* Every step of the drive is a step of the board, or leaves it as it is: an
   attempt is tried at most RATE_LIMIT_TRIES times, one try at a time, and
   counted once (AttemptQueue, requeues). *)
ImplementsBoard == Board!BoardSpec
=============================================================================
