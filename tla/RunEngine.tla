----------------------------- MODULE RunEngine -----------------------------
(***************************************************************************)
(* The run of one task by crew-cli's engine (crew-cli/src/engine/          *)
(* run-engine.ts and run-state.ts), as executor/agentic-executor.ts drives *)
(* it: turns of a model that calls tools, gates that force it to edit and  *)
(* to verify, and at the end the verification commands with turns to fix   *)
(* what they found.  One step is what runs between two awaits.             *)
(*                                                                         *)
(* The project is abstracted to the commands that would pass in it; an     *)
(* edit changes that in any way.  What the model answers is free.          *)
(***************************************************************************)
EXTENDS Integers, Sequences, FiniteSets

CONSTANTS
    Commands,   \* the shell commands of the run
    Kind,       \* [Commands -> ...]: "test", "lint", "build" in a command, or "other"
    MaxTurns,   \* maxTurns
    MaxCycles,  \* maxVerificationCycles
    GateTurns,  \* maxVerificationGateTurns
    StaleLimit, \* DEFAULT_REPEAT_THRESHOLD
    MaxCalls    \* bound: the tool calls of one turn

ASSUME KindAssumption == Kind \in [Commands -> {"test", "lint", "build", "other"}] /\ "edit" \notin Commands
ASSUME LimitsAssumption ==
    /\ MaxTurns \in Nat \ {0} /\ MaxCycles \in Nat \ {0} /\ StaleLimit \in Nat \ {0}
    /\ GateTurns \in Nat /\ MaxCalls \in Nat

VARIABLES
    cfg,        \* the request, fixed
    phase,      \* state.phase
    pc,         \* what is awaited, or the head of the loop
    turn, gates, stale,
    calls,      \* the tool calls of the turn that are left
    cycle,      \* the verification cycle
    todo,       \* its commands that are left
    allPassed,
    failures,   \* state.failures: the commands on record as failed
    proven,     \* the commands whose goal is proven
    edited,     \* an edit is in the history
    good,       \* the commands that would pass in the project as it is
    aborted,    \* the caller's abort signal
    asked       \* how often the model was asked (history)

vars == <<cfg, phase, pc, turn, gates, stale, calls, cycle, todo, allPassed,
          failures, proven, edited, good, aborted, asked>>
loop == <<turn, gates, stale>>
qa == <<cycle, todo, allPassed>>
world == <<failures, proven, edited, good>>

\* verify: the verification commands.  taskGoal: the words test, lint or build in
\* the task make a goal of their own.  mutation: the task's mode asks for edits.
Requests == [verify : SUBSET Commands, taskGoal : BOOLEAN, mutation : BOOLEAN, budget : BOOLEAN]
Phases == {"planned", "executing", "qa", "complete", "failed", "aborted"}
Calls == Commands \cup {"edit"}
Over == phase \in {"complete", "failed", "aborted"}

TypeOK ==
    /\ cfg \in Requests
    /\ phase \in Phases
    /\ pc \in {"head", "thinking", "compacted", "tools", "verifying", "fixing", "fixTools", "over"}
    /\ turn \in 0 .. MaxTurns /\ gates \in 0 .. GateTurns /\ stale \in 0 .. StaleLimit
    /\ calls \in Seq(Calls)
    /\ cycle \in 0 .. MaxCycles /\ todo \in SUBSET Commands /\ allPassed \in BOOLEAN
    /\ failures \subseteq Commands /\ proven \subseteq Commands /\ good \subseteq Commands
    /\ edited \in BOOLEAN /\ aborted \in BOOLEAN
    /\ asked \in Nat

Init ==
    /\ cfg \in Requests
    /\ phase = "planned" /\ pc = "head"
    /\ turn = 0 /\ gates = 0 /\ stale = 0
    /\ calls = <<>>
    /\ cycle = 0 /\ todo = {} /\ allPassed = FALSE
    /\ failures = {} /\ proven = {} /\ edited = FALSE
    /\ good \in SUBSET Commands
    /\ aborted = FALSE
    /\ asked = 0

Goto(step) == pc' = step /\ UNCHANGED phase
End(verdict) == phase' = verdict /\ pc' = "over"
Ask(step) == Goto(step) /\ asked' = asked + 1

-----------------------------------------------------------------------------
(* A goal of a command is pending until a command like it has passed.  The *)
(* goals taken from the task begin with a capital letter, which no search  *)
(* for "test", "lint" or "build" finds: they stay pending.                 *)
Unproven == cfg.taskGoal \/ cfg.verify \ proven # {}

Like(c) ==
    {d \in cfg.verify : d = c \/ (Kind[d] = Kind[c] /\ Kind[c] # "other")}

StartCycle(n) == cycle' = n /\ todo' = cfg.verify /\ allPassed' = TRUE

(* The loop is left: the verification phase, or its verdict at once when   *)
(* there are no commands.                                                  *)
LeaveLoop ==
    \/ /\ cfg.verify # {}
       /\ phase' = "qa" /\ pc' = "verifying"
       /\ StartCycle(1)
    \/ /\ cfg.verify = {}
       /\ End(IF cfg.taskGoal THEN "failed" ELSE "complete")
       /\ UNCHANGED qa

(* The head of a turn: the signal is looked at only while turns are left.  *)
BeginTurn ==
    /\ pc = "head"
    /\ \/ turn < MaxTurns /\ aborted /\ End("aborted") /\ UNCHANGED <<qa, turn, asked>>
       \/ /\ turn = MaxTurns \/ (~aborted /\ cfg.budget)
          /\ LeaveLoop /\ UNCHANGED <<turn, asked>>
       \/ /\ turn < MaxTurns /\ ~aborted
          /\ turn' = turn + 1
          /\ phase' = "executing" /\ pc' = "thinking" /\ asked' = asked + 1
          /\ UNCHANGED qa
    /\ UNCHANGED <<cfg, gates, stale, calls, world, aborted>>

\* Mutant: the compacted history may be compacted again.
ModelThrowsCompactingAgain ==
    /\ pc \in {"thinking", "compacted"}
    /\ \/ Ask("compacted")
       \/ End("failed") /\ UNCHANGED asked
    /\ UNCHANGED <<cfg, loop, calls, qa, world, aborted>>

(* The call of the model fails; when the context was too long it is tried  *)
(* once more with a compacted history.                                     *)
ModelThrows ==
    /\ pc \in {"thinking", "compacted"}
    /\ \/ pc = "thinking" /\ Ask("compacted")
       \/ End("failed") /\ UNCHANGED asked
    /\ UNCHANGED <<cfg, loop, calls, qa, world, aborted>>

(* The model says that it is done: the edit gate, the verification gate.   *)
Completes ==
    LET forced == gates < GateTurns /\ ((cfg.mutation /\ ~edited) \/ Unproven)
    IN  /\ gates' = IF forced THEN gates + 1 ELSE gates
        /\ \/ forced /\ Goto("head") /\ UNCHANGED qa
           \/ ~forced /\ LeaveLoop

(* The model answers, with the text of its last answer or another, and     *)
(* perhaps calls tools.  The same answer too often ends the loop.          *)
ModelReturns ==
    /\ pc \in {"thinking", "compacted"}
    /\ \E same \in BOOLEAN, n \in 0 .. MaxCalls : \E cs \in [1 .. n -> Calls] :
          /\ stale' = IF same THEN stale + 1 ELSE 0
          /\ \/ stale' = StaleLimit /\ LeaveLoop /\ UNCHANGED <<gates, calls>>
             \/ stale' < StaleLimit /\ n = 0 /\ Completes /\ UNCHANGED calls
             \/ /\ stale' < StaleLimit /\ n > 0
                /\ Goto("tools") /\ calls' = cs
                /\ UNCHANGED <<gates, qa>>
    /\ UNCHANGED <<cfg, turn, world, aborted, asked>>

(* A command passes and proves some goals, or throws and is recorded as    *)
(* failed; an edit fails or changes the project.                           *)
Run(call, proves) ==
    \/ /\ call \in good
       /\ proven' = proven \cup proves
       /\ UNCHANGED <<failures, edited, good>>
    \/ /\ call \in Commands \ good
       /\ failures' = failures \cup {call}
       /\ UNCHANGED <<proven, edited, good>>
    \/ /\ call = "edit"
       /\ \/ UNCHANGED world
          \/ good' \in SUBSET Commands /\ edited' = TRUE /\ UNCHANGED <<failures, proven>>

\* Mutant: the signal is looked at by the head of the next turn only.
RunToolUnasked ==
    /\ pc = "tools"
    /\ \/ /\ calls = <<>>
          /\ Goto("head") /\ UNCHANGED <<calls, world>>
       \/ /\ calls # <<>>
          /\ \/ calls[1] \notin failures /\ Run(calls[1], Like(calls[1]))
             \/ calls[1] \in failures /\ UNCHANGED world
          /\ calls' = Tail(calls) /\ UNCHANGED <<phase, pc>>
    /\ UNCHANGED <<cfg, loop, qa, aborted, asked>>

\* Mutant: a command that is skipped stays the next one.
RunToolStuck ==
    /\ pc = "tools"
    /\ \/ /\ calls = <<>> \/ aborted
          /\ Goto("head") /\ calls' = <<>> /\ UNCHANGED world
       \/ /\ calls # <<>> /\ ~aborted
          /\ calls[1] \notin failures /\ Run(calls[1], Like(calls[1]))
          /\ calls' = Tail(calls) /\ UNCHANGED <<phase, pc>>
    /\ UNCHANGED <<cfg, loop, qa, aborted, asked>>

(* The calls of a turn, one batch each: an abort drops the rest, a command *)
(* that has failed in this run is skipped.                                 *)
RunTool ==
    /\ pc = "tools"
    /\ \/ /\ calls = <<>> \/ aborted
          /\ Goto("head") /\ calls' = <<>> /\ UNCHANGED world
       \/ /\ calls # <<>> /\ ~aborted
          /\ \/ calls[1] \notin failures /\ Run(calls[1], Like(calls[1]))
             \/ calls[1] \in failures /\ UNCHANGED world
          /\ calls' = Tail(calls) /\ UNCHANGED <<phase, pc>>
    /\ UNCHANGED <<cfg, loop, qa, aborted, asked>>

-----------------------------------------------------------------------------
\* Mutant: the last command decides.
VerifyLast ==
    /\ pc = "verifying" /\ todo # {}
    /\ \E c \in todo :
          /\ Run(c, {c})
          /\ todo' = todo \ {c}
          /\ allPassed' = (c \in good)
    /\ UNCHANGED <<cfg, phase, pc, loop, calls, cycle, aborted, asked>>

(* runVerificationCycle: every command runs, whatever has failed before.   *)
Verify ==
    /\ pc = "verifying" /\ todo # {}
    /\ \E c \in todo :
          /\ Run(c, {c})
          /\ todo' = todo \ {c}
          /\ allPassed' = (allPassed /\ c \in good)
    /\ UNCHANGED <<cfg, phase, pc, loop, calls, cycle, aborted, asked>>

\* Mutant: one cycle too many.
EndCycleOnceMore ==
    /\ pc = "verifying" /\ todo = {}
    /\ \/ allPassed /\ End("complete") /\ UNCHANGED asked
       \/ ~allPassed /\ cycle > MaxCycles /\ End("failed") /\ UNCHANGED asked
       \/ ~allPassed /\ cycle <= MaxCycles /\ Ask("fixing")
    /\ UNCHANGED <<cfg, loop, calls, qa, world, aborted>>

EndCycle ==
    /\ pc = "verifying" /\ todo = {}
    /\ \/ allPassed /\ End("complete") /\ UNCHANGED asked
       \/ ~allPassed /\ cycle = MaxCycles /\ End("failed") /\ UNCHANGED asked
       \/ ~allPassed /\ cycle < MaxCycles /\ Ask("fixing")
    /\ UNCHANGED <<cfg, loop, calls, qa, world, aborted>>

(* The turn to fix: an error of the model is ignored, its tool calls run   *)
(* without a look at the failures or at the signal; the next cycle begins. *)
FixReturns ==
    /\ pc = "fixing"
    /\ \E n \in 0 .. MaxCalls : \E cs \in [1 .. n -> Calls] : calls' = cs
    /\ Goto("fixTools")
    /\ UNCHANGED <<cfg, loop, qa, world, aborted, asked>>

FixTool ==
    /\ pc = "fixTools"
    /\ \/ /\ calls = <<>>
          /\ Goto("verifying") /\ StartCycle(cycle + 1)
          /\ UNCHANGED <<calls, world>>
       \/ /\ calls # <<>>
          /\ Run(calls[1], {})
          /\ calls' = Tail(calls)
          /\ UNCHANGED <<phase, pc, qa>>
    /\ UNCHANGED <<cfg, loop, aborted, asked>>

(* The caller's signal (Ctrl-C in the REPL).                               *)
Abort ==
    /\ ~Over /\ ~aborted
    /\ aborted' = TRUE
    /\ UNCHANGED <<cfg, phase, pc, loop, calls, qa, world, asked>>

Step == BeginTurn \/ ModelThrows \/ ModelReturns \/ RunTool \/ Verify \/ EndCycle \/ FixReturns \/ FixTool
Next == Step \/ Abort \/ (Over /\ UNCHANGED vars)

Spec == Init /\ [][Next]_vars

\* Calls of the model and of the tools have timeouts.
FairSpec == Spec /\ WF_vars(Step)

-----------------------------------------------------------------------------
(* A run is complete only when its verification commands pass in the       *)
(* project as the run leaves it, whatever was proven, skipped or edited    *)
(* before.                                                                 *)
CompleteIsVerified == phase = "complete" => cfg.verify \subseteq good

(* The gates, the compaction and the turns to fix do not add up: the model *)
(* is asked at most twice a turn and once between two cycles.              *)
AskedBounded == asked <= 2 * MaxTurns + MaxCycles - 1

(* After the signal the loop starts no tool: the project stays as it is    *)
(* until the verification phase, which does not look at the signal.        *)
AbortStopsTools ==
    [][aborted /\ phase = "executing" => good' = good /\ failures' = failures /\ proven' = proven]_vars

(* Every run comes to a verdict.                                           *)
EventuallyOver == <>Over
=============================================================================
