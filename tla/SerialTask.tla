----------------------------- MODULE SerialTask -----------------------------
(***************************************************************************)
(* What the dispatch guard promises of a task that is delivered several    *)
(* times: one delivery works on it at a time, and none begins as long as   *)
(* the note that it is finished is fresh; such a note is made by the one   *)
(* who works, and is neither lost nor replaced before it grows stale.      *)
(***************************************************************************)
EXTENDS Integers

CONSTANTS
    Attempts,
    Ttl         \* how long a note is fresh

VARIABLES
    clock,
    working,    \* the deliveries that are being worked on
    notes       \* the notes that the task is finished, each with its time

vars == <<clock, working, notes>>

Fresh == \E note \in notes : clock - note.at <= Ttl

Init ==
    /\ clock = 0
    /\ working = {}
    /\ notes = {}

Begin(a) ==
    /\ working = {}
    /\ ~Fresh
    /\ working' = {a}
    /\ UNCHANGED <<clock, notes>>

Finish(a) ==
    /\ working = {a}
    /\ ~Fresh
    /\ notes' = {[claim |-> a, at |-> clock]}
    /\ UNCHANGED <<clock, working>>

\* The work ends, with a note or without, or whoever did it died.
End ==
    /\ working # {}
    /\ working' = {}
    /\ UNCHANGED <<clock, notes>>

Forget ==
    /\ ~Fresh
    /\ notes' = {}
    /\ UNCHANGED <<clock, working>>

Tick ==
    /\ clock' = clock + 1
    /\ UNCHANGED <<working, notes>>

Next ==
    \/ \E a \in Attempts : Begin(a) \/ Finish(a)
    \/ End
    \/ Forget
    \/ Tick

Spec == Init /\ [][Next]_vars
=============================================================================
