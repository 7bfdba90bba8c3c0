----------------------------- MODULE AttemptBoard -----------------------------
(****************************************************************************)
(* What a series promises about its attempts, whatever its window, its       *)
(* ledger and its queue do: every attempt of the plan is tried, at most      *)
(* RateLimitTries times and one try at a time, and it is counted once, after *)
(* its last try. SeriesDrive implements this specification.                  *)
(****************************************************************************)
EXTENDS Integers

CONSTANTS Total, RateLimitTries

VARIABLES
    place,  \* where each attempt is
    tries   \* how often each attempt was tried

boardVars == <<place, tries>>

Attempt == 0 .. Total - 1
Places == {"fresh", "trying", "again", "counted"}

BoardInit ==
    /\ place = [a \in Attempt |-> "fresh"]
    /\ tries = [a \in Attempt |-> 0]

Try(a) ==
    /\ place[a] \in {"fresh", "again"}
    /\ tries[a] < RateLimitTries
    /\ place' = [place EXCEPT ![a] = "trying"]
    /\ tries' = [tries EXCEPT ![a] = @ + 1]

PutBack(a) ==
    /\ place[a] = "trying"
    /\ tries[a] < RateLimitTries
    /\ place' = [place EXCEPT ![a] = "again"]
    /\ UNCHANGED tries

Count(a) ==
    /\ place[a] = "trying"
    /\ place' = [place EXCEPT ![a] = "counted"]
    /\ UNCHANGED tries

BoardNext == \E a \in Attempt : Try(a) \/ PutBack(a) \/ Count(a)

BoardSpec == BoardInit /\ [][BoardNext]_boardVars

AllCounted == \A a \in Attempt : place[a] = "counted"
=============================================================================
