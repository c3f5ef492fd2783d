-------------------------- MODULE DependencyOrder --------------------------
(***************************************************************************)
(* What the executor of a work graph promises: a unit starts once, and not *)
(* before everything it depends on has finished; it succeeds only with     *)
(* every unit finished, and starts nothing new that way or after.          *)
(***************************************************************************)
CONSTANTS Units

VARIABLES
    needs,      \* [Units -> SUBSET Units]: the dependencies
    started,
    finished,
    verdict     \* "open", "succeeded" or "failed"

vars == <<needs, started, finished, verdict>>

Init ==
    /\ needs \in [Units -> SUBSET Units]
    /\ started = {}
    /\ finished = {}
    /\ verdict = "open"

\* Some units finish and some others, whose dependencies had finished, start.
Advance(ending, starting) ==
    /\ verdict # "succeeded"
    /\ ending \subseteq started \ finished
    /\ starting \cap started = {}
    /\ \A u \in starting : needs[u] \subseteq finished
    /\ finished' = finished \cup ending
    /\ started' = started \cup starting
    /\ UNCHANGED <<needs, verdict>>

Succeed ==
    /\ verdict = "open"
    /\ finished = Units
    /\ verdict' = "succeeded"
    /\ UNCHANGED <<needs, started, finished>>

Fail ==
    /\ verdict = "open"
    /\ verdict' = "failed"
    /\ UNCHANGED <<needs, started, finished>>

Next ==
    \/ \E ending, starting \in SUBSET Units : Advance(ending, starting)
    \/ Succeed
    \/ Fail

Spec == Init /\ [][Next]_vars
=============================================================================
