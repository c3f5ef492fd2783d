---------------------------- MODULE BoundedTask ----------------------------
(***************************************************************************)
(* What an agent daemon promises of a task: it is attempted a bounded      *)
(* number of times, one attempt after the other; once it is finished, or   *)
(* once somebody else was asked to take it over, nobody attempts it again; *)
(* and it is handed over only when every attempt has been used up.         *)
(***************************************************************************)
EXTENDS Naturals

CONSTANT Limit

VARIABLES
    attempts,   \* attempts begun
    trying,     \* an attempt is under way
    finished,   \* an attempt succeeded
    handed      \* how often the task was handed over

vars == <<attempts, trying, finished, handed>>

Init ==
    /\ attempts = 0
    /\ trying = FALSE
    /\ finished = FALSE
    /\ handed = 0

Try ==
    /\ ~trying /\ ~finished /\ handed = 0
    /\ attempts < Limit
    /\ attempts' = attempts + 1
    /\ trying' = TRUE
    /\ UNCHANGED <<finished, handed>>

Finish ==
    /\ trying
    /\ finished' = TRUE
    /\ trying' = FALSE
    /\ UNCHANGED <<attempts, handed>>

\* The attempt failed, or whoever made it died.
Stop ==
    /\ trying
    /\ trying' = FALSE
    /\ UNCHANGED <<attempts, finished, handed>>

HandOver ==
    /\ trying
    /\ attempts = Limit
    /\ handed' = handed + 1
    /\ trying' = FALSE
    /\ UNCHANGED <<attempts, finished>>

Next == Try \/ Finish \/ Stop \/ HandOver

Spec == Init /\ [][Next]_vars
=============================================================================
