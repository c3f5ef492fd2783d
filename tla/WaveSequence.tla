---------------------------- MODULE WaveSequence ----------------------------
(***************************************************************************)
(* What crew-lead promises of a pipeline: it goes through its waves one    *)
(* after the other, each once, and two more may be inserted behind the     *)
(* wave it has just left; it is complete after the last wave and not       *)
(* before; once it has ended, or was lost, it never goes on.               *)
(***************************************************************************)
EXTENDS Naturals

VARIABLES
    wave,       \* the wave that has been reached, 0 when there is none
    count,      \* how many waves there are
    verdict     \* what the user was told

vars == <<wave, count, verdict>>

Init ==
    /\ wave = 0
    /\ count = 0
    /\ verdict = "none"

Begin ==
    /\ verdict = "none"
    /\ wave' = 1
    /\ count' \in Nat \ {0}
    /\ verdict' = "running"

Advance ==
    /\ wave # 0
    /\ \/ wave < count /\ count' = count
       \/ count' = count + 2
    /\ wave' = wave + 1
    /\ UNCHANGED verdict

\* Nothing is left of the pipeline.
Ended ==
    /\ wave # 0
    /\ wave' = 0
    /\ count' = 0

Complete ==
    /\ wave = count
    /\ Ended
    /\ verdict' = "completed"

GiveUp ==
    /\ Ended
    /\ verdict' \in {"halted", "cancelled", "dropped"}

\* The pipeline in memory dies after its file was thrown away.
Lose ==
    /\ Ended
    /\ UNCHANGED verdict

Next ==
    \/ Begin
    \/ Advance
    \/ Complete
    \/ GiveUp
    \/ Lose

Spec == Init /\ [][Next]_vars
=============================================================================
