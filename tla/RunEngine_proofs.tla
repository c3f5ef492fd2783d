-------------------------- MODULE RunEngine_proofs --------------------------
(***************************************************************************)
(* Proofs about RunEngine: its types, the bound on the questions to the    *)
(* model, and that a complete run is a verified one, for any commands and  *)
(* limits.                                                                 *)
(***************************************************************************)
EXTENDS RunEngine, TLAPS

\* What a turn of the model may have cost so far, by what is awaited.
Asking ==
  /\ pc \in {"head", "tools", "compacted"} => asked <= 2 * turn
  /\ pc = "thinking" => asked <= 2 * turn - 1
  /\ pc = "verifying" => cycle >= 1 /\ asked <= 2 * turn + cycle - 1
  /\ pc \in {"fixing", "fixTools"} => cycle >= 1 /\ cycle < MaxCycles /\ asked <= 2 * turn + cycle
  /\ asked <= 2 * MaxTurns + MaxCycles - 1

\* The commands a cycle has run so far pass as long as none has failed.
Verifying ==
  /\ todo \subseteq cfg.verify
  /\ pc = "verifying" /\ allPassed => cfg.verify \ todo \subseteq good

\* Where the engine is in each phase.
Located ==
  /\ Over <=> pc = "over"
  /\ pc \in {"verifying", "fixing", "fixTools"} <=> phase = "qa"

IInv == TypeOK /\ Located /\ Asking /\ Verifying /\ CompleteIsVerified

-----------------------------------------------------------------------------
(* A tool call leaves the types alone, and a command the project.          *)
LEMMA RunTypes ==
  ASSUME TypeOK, NEW call \in Calls, NEW proves \in SUBSET Commands, Run(call, proves)
  PROVE  /\ failures' \subseteq Commands /\ proven' \subseteq Commands
         /\ good' \subseteq Commands /\ edited' \in BOOLEAN
         /\ call \in Commands => good' = good
<1>1. CASE call \in good
  BY <1>1, KindAssumption DEF Run, TypeOK, world
<1>2. CASE call \in Commands \ good
  BY <1>2, KindAssumption DEF Run, TypeOK, world
<1>3. CASE call = "edit"
  BY <1>3, KindAssumption DEF Run, TypeOK, world
<1> QED BY <1>1, <1>2, <1>3 DEF Calls

LEMMA LikeCommands == ASSUME TypeOK, NEW c PROVE Like(c) \in SUBSET Commands
BY DEF Like, TypeOK, Requests

(* The limits of the code are positive numbers.                            *)
LEMMA Limits ==
  /\ MaxTurns \in Nat /\ MaxTurns > 0 /\ MaxCycles \in Nat /\ MaxCycles > 0
  /\ StaleLimit \in Nat /\ StaleLimit > 0 /\ GateTurns \in Nat /\ MaxCalls \in Nat
BY LimitsAssumption

THEOREM InitInvariant == Init => IInv
<1> SUFFICES ASSUME Init PROVE IInv
  OBVIOUS
<1>1. TypeOK
  <2>1. calls \in Seq(Calls)
    BY DEF Init
  <2>2. turn \in 0 .. MaxTurns /\ gates \in 0 .. GateTurns /\ stale \in 0 .. StaleLimit /\ cycle \in 0 .. MaxCycles
    BY Limits DEF Init
  <2> QED BY <2>1, <2>2 DEF Init, TypeOK, Phases
<1>2. Located /\ Verifying /\ CompleteIsVerified
  BY DEF Init, Located, Over, Verifying, CompleteIsVerified
<1>3. Asking
  BY Limits DEF Init, Asking
<1> QED BY <1>1, <1>2, <1>3 DEF IInv

(* Leaving the loop: the verification phase or a verdict.                  *)
LEMMA LoopLeft ==
  ASSUME IInv, LeaveLoop
  PROVE  \/ /\ phase' = "qa" /\ pc' = "verifying"
            /\ cycle' = 1 /\ todo' = cfg.verify /\ allPassed' = TRUE
         \/ /\ pc' = "over" /\ phase' \in {"complete", "failed"}
            /\ cfg.verify = {} /\ UNCHANGED qa
<1>1. CASE cfg.verify # {}
  BY <1>1 DEF LeaveLoop, StartCycle
<1>2. CASE cfg.verify = {}
  BY <1>2 DEF LeaveLoop, End
<1> QED BY <1>1, <1>2

(* It keeps the invariant when the loop's own variables keep their types.  *)
LEMMA LeavingKeeps ==
  ASSUME IInv, LeaveLoop, pc \in {"head", "thinking", "compacted"},
         turn' = turn, asked' = asked, cfg' = cfg, UNCHANGED world, aborted' = aborted,
         gates' \in 0 .. GateTurns, stale' \in 0 .. StaleLimit, calls' \in Seq(Calls)
  PROVE  IInv'
<1>0. TypeOK /\ Asking /\ cfg.verify \subseteq Commands
  BY DEF IInv, TypeOK, Requests
<1>1. CASE phase' = "qa" /\ pc' = "verifying" /\ cycle' = 1 /\ todo' = cfg.verify /\ allPassed' = TRUE
  <2>1. TypeOK'
    BY <1>0, <1>1, Limits DEF TypeOK, Phases, world
  <2>2. Asking'
    BY <1>0, <1>1, Limits DEF Asking, TypeOK
  <2>3. Located' /\ Verifying' /\ CompleteIsVerified'
    BY <1>1 DEF Located, Over, Verifying, CompleteIsVerified
  <2> QED BY <2>1, <2>2, <2>3 DEF IInv
<1>2. CASE pc' = "over" /\ phase' \in {"complete", "failed"} /\ cfg.verify = {} /\ UNCHANGED qa
  <2>1. TypeOK'
    BY <1>0, <1>2 DEF TypeOK, Phases, world, qa
  <2>2. Asking'
    BY <1>0, <1>2 DEF Asking, TypeOK
  <2>3. Located' /\ Verifying' /\ CompleteIsVerified'
    BY <1>2 DEF IInv, Located, Over, Verifying, CompleteIsVerified, qa
  <2> QED BY <2>1, <2>2, <2>3 DEF IInv
<1> QED BY <1>1, <1>2, LoopLeft

-----------------------------------------------------------------------------
LEMMA BeginTurnKeeps == ASSUME IInv, BeginTurn PROVE IInv'
<1>0. TypeOK /\ Asking /\ Located /\ Verifying /\ pc = "head"
  BY DEF IInv, BeginTurn
<1>1. CASE turn < MaxTurns /\ aborted /\ End("aborted") /\ UNCHANGED <<qa, turn, asked>>
  <2> USE <1>0, <1>1 DEF BeginTurn, End
  <2>1. TypeOK'
    BY DEF TypeOK, Phases, world, qa
  <2>2. Asking'
    BY DEF Asking, qa
  <2>3. Located' /\ Verifying' /\ CompleteIsVerified'
    BY DEF Located, Over, Verifying, CompleteIsVerified, qa
  <2> QED BY <2>1, <2>2, <2>3 DEF IInv
<1>2. CASE LeaveLoop /\ UNCHANGED <<turn, asked>>
  BY <1>0, <1>2, LeavingKeeps DEF BeginTurn, TypeOK
<1>3. CASE /\ turn < MaxTurns /\ ~aborted /\ turn' = turn + 1
           /\ phase' = "executing" /\ pc' = "thinking" /\ asked' = asked + 1
           /\ UNCHANGED qa
  <2> USE <1>0, <1>3 DEF BeginTurn
  <2>1. TypeOK'
    BY Limits DEF TypeOK, Phases, world, qa
  <2>2. Asking'
    BY Limits DEF Asking, TypeOK, qa
  <2>3. Located' /\ Verifying' /\ CompleteIsVerified'
    BY DEF Located, Over, Verifying, CompleteIsVerified, qa
  <2> QED BY <2>1, <2>2, <2>3 DEF IInv
<1> QED BY <1>1, <1>2, <1>3 DEF BeginTurn

LEMMA ModelThrowsKeeps == ASSUME IInv, ModelThrows PROVE IInv'
<1>0. TypeOK /\ Asking /\ Located /\ Verifying /\ pc \in {"thinking", "compacted"}
  BY DEF IInv, ModelThrows
<1> USE <1>0 DEF ModelThrows, End, Ask, Goto
<1>1. TypeOK'
  BY DEF TypeOK, Phases, world, qa, loop
<1>2. Asking'
  BY Limits DEF Asking, TypeOK, qa, loop
<1>3. Located' /\ Verifying' /\ CompleteIsVerified'
  BY DEF Located, Over, Verifying, CompleteIsVerified, qa
<1> QED BY <1>1, <1>2, <1>3 DEF IInv

LEMMA ModelReturnsKeeps == ASSUME IInv, ModelReturns PROVE IInv'
<1>0. /\ TypeOK /\ Asking /\ Located /\ Verifying /\ pc \in {"thinking", "compacted"}
      /\ UNCHANGED <<cfg, turn, world, aborted, asked>>
  BY DEF IInv, ModelReturns
<1>1. PICK same \in BOOLEAN, n \in 0 .. MaxCalls : \E cs \in [1 .. n -> Calls] :
          /\ stale' = IF same THEN stale + 1 ELSE 0
          /\ \/ stale' = StaleLimit /\ LeaveLoop /\ UNCHANGED <<gates, calls>>
             \/ stale' < StaleLimit /\ n = 0 /\ Completes /\ UNCHANGED calls
             \/ /\ stale' < StaleLimit /\ n > 0
                /\ Goto("tools") /\ calls' = cs
                /\ UNCHANGED <<gates, qa>>
  BY DEF ModelReturns
<1>2. PICK cs \in [1 .. n -> Calls] :
          /\ stale' = IF same THEN stale + 1 ELSE 0
          /\ \/ stale' = StaleLimit /\ LeaveLoop /\ UNCHANGED <<gates, calls>>
             \/ stale' < StaleLimit /\ n = 0 /\ Completes /\ UNCHANGED calls
             \/ /\ stale' < StaleLimit /\ n > 0
                /\ Goto("tools") /\ calls' = cs
                /\ UNCHANGED <<gates, qa>>
  BY <1>1
<1>3. stale' \in 0 .. StaleLimit /\ cs \in Seq(Calls) /\ calls \in Seq(Calls)
  BY <1>0, <1>2, Limits DEF TypeOK
<1>4. ASSUME Goto(pc'), UNCHANGED qa, calls' \in Seq(Calls), gates' \in 0 .. GateTurns,
             pc' \in {"head", "tools"}
      PROVE  IInv'
  <2>1. TypeOK'
    BY <1>0, <1>3, <1>4 DEF TypeOK, Goto, world, qa
  <2>2. Asking'
    BY <1>0, <1>4 DEF Asking, TypeOK, qa
  <2>3. Located' /\ Verifying' /\ CompleteIsVerified'
    BY <1>0, <1>4 DEF Located, Over, Verifying, CompleteIsVerified, qa, Goto
  <2> QED BY <2>1, <2>2, <2>3 DEF IInv
<1>5. CASE stale' = StaleLimit /\ LeaveLoop /\ UNCHANGED <<gates, calls>>
  BY <1>0, <1>3, <1>5, LeavingKeeps DEF TypeOK
<1>6. CASE Completes /\ UNCHANGED calls
  <2>1. gates' \in 0 .. GateTurns
    BY <1>0, <1>6, Limits DEF Completes, TypeOK
  <2>2. CASE LeaveLoop
    BY <1>0, <1>3, <1>6, <2>1, <2>2, LeavingKeeps
  <2>3. CASE Goto("head") /\ UNCHANGED qa
    BY <1>3, <1>4, <1>6, <2>1, <2>3 DEF Goto
  <2> QED BY <1>6, <2>2, <2>3 DEF Completes
<1>7. CASE Goto("tools") /\ calls' = cs /\ UNCHANGED <<gates, qa>>
  BY <1>0, <1>3, <1>4, <1>7 DEF Goto, TypeOK
<1> QED BY <1>2, <1>5, <1>6, <1>7

-----------------------------------------------------------------------------
(* One call of a turn is one of the calls there are.                       *)
LEMMA FirstCall ==
  ASSUME calls \in Seq(Calls), calls # <<>>
  PROVE  calls[1] \in Calls /\ Tail(calls) \in Seq(Calls)
OBVIOUS

LEMMA RunToolKeeps == ASSUME IInv, RunTool PROVE IInv'
<1>0. /\ TypeOK /\ Asking /\ Located /\ Verifying /\ pc = "tools"
      /\ UNCHANGED <<cfg, loop, qa, aborted, asked>>
  BY DEF IInv, RunTool
<1>1. ASSUME pc' \in {"head", "tools"}, UNCHANGED phase, calls' \in Seq(Calls),
             failures' \subseteq Commands, proven' \subseteq Commands,
             good' \subseteq Commands, edited' \in BOOLEAN
      PROVE  IInv'
  <2>1. TypeOK'
    BY <1>0, <1>1 DEF TypeOK, loop, qa
  <2>2. Asking'
    BY <1>0, <1>1 DEF Asking, TypeOK, qa, loop
  <2>3. Located' /\ Verifying' /\ CompleteIsVerified'
    BY <1>0, <1>1 DEF Located, Over, Verifying, CompleteIsVerified, qa
  <2> QED BY <2>1, <2>2, <2>3 DEF IInv
<1>2. CASE Goto("head") /\ calls' = <<>> /\ UNCHANGED world
  BY <1>0, <1>1, <1>2 DEF Goto, world, TypeOK
<1>3. CASE /\ calls # <<>>
           /\ \/ Run(calls[1], Like(calls[1]))
              \/ UNCHANGED world
           /\ calls' = Tail(calls) /\ UNCHANGED <<phase, pc>>
  <2>1. calls[1] \in Calls /\ calls' \in Seq(Calls)
    BY <1>0, <1>3, FirstCall DEF TypeOK
  <2>2. CASE Run(calls[1], Like(calls[1]))
    BY <1>0, <1>1, <1>3, <2>1, <2>2, RunTypes, LikeCommands
  <2>3. CASE UNCHANGED world
    BY <1>0, <1>1, <1>3, <2>1, <2>3 DEF world, TypeOK
  <2> QED BY <1>3, <2>2, <2>3
<1> QED BY <1>2, <1>3 DEF RunTool

LEMMA VerifyKeeps == ASSUME IInv, Verify PROVE IInv'
<1>0. /\ TypeOK /\ Asking /\ Located /\ Verifying /\ pc = "verifying"
      /\ UNCHANGED <<cfg, phase, pc, loop, calls, cycle, aborted, asked>>
  BY DEF IInv, Verify
<1>1. PICK c \in todo :
          /\ Run(c, {c})
          /\ todo' = todo \ {c}
          /\ allPassed' = (allPassed /\ c \in good)
  BY DEF Verify
<1>2. c \in Commands /\ c \in Calls /\ todo' \subseteq Commands
  BY <1>0, <1>1 DEF TypeOK, Calls
<1>3. /\ failures' \subseteq Commands /\ proven' \subseteq Commands
      /\ good' = good /\ good' \subseteq Commands /\ edited' \in BOOLEAN
  BY <1>0, <1>1, <1>2, RunTypes
<1>4. allPassed' \in BOOLEAN
  BY <1>1
<1>5. TypeOK'
  BY <1>0, <1>2, <1>3, <1>4 DEF TypeOK, loop
<1>6. Asking'
  BY <1>0 DEF Asking, loop
<1>7. Verifying'
  BY <1>0, <1>1, <1>3 DEF Verifying
<1>8. Located' /\ CompleteIsVerified'
  BY <1>0, <1>3 DEF IInv, Located, Over, CompleteIsVerified
<1> QED BY <1>5, <1>6, <1>7, <1>8 DEF IInv

LEMMA EndCycleKeeps == ASSUME IInv, EndCycle PROVE IInv'
<1>0. TypeOK /\ Asking /\ Located /\ Verifying /\ pc = "verifying" /\ todo = {}
  BY DEF IInv, EndCycle
<1> USE <1>0 DEF EndCycle, End, Ask, Goto
<1>1. TypeOK'
  BY DEF TypeOK, Phases, world, qa, loop
<1>2. Asking'
  BY Limits DEF Asking, TypeOK, qa, loop
<1>3. Located' /\ Verifying'
  BY DEF Located, Over, Verifying, qa
<1>4. CompleteIsVerified'
  BY DEF Verifying, CompleteIsVerified, Located, world, qa
<1> QED BY <1>1, <1>2, <1>3, <1>4 DEF IInv

LEMMA FixReturnsKeeps == ASSUME IInv, FixReturns PROVE IInv'
<1>0. TypeOK /\ Asking /\ Located /\ Verifying /\ pc = "fixing"
  BY DEF IInv, FixReturns
<1>1. calls' \in Seq(Calls)
  BY Limits DEF FixReturns
<1> USE <1>0 DEF FixReturns, Goto
<1>2. TypeOK'
  BY <1>1 DEF TypeOK, world, qa, loop
<1>3. Asking'
  BY DEF Asking, qa, loop
<1>4. Located' /\ Verifying' /\ CompleteIsVerified'
  BY DEF Located, Over, Verifying, CompleteIsVerified, qa
<1> QED BY <1>2, <1>3, <1>4 DEF IInv

LEMMA FixToolKeeps == ASSUME IInv, FixTool PROVE IInv'
<1>0. /\ TypeOK /\ Asking /\ Located /\ Verifying /\ pc = "fixTools"
      /\ UNCHANGED <<cfg, loop, aborted, asked>>
  BY DEF IInv, FixTool
<1>1. CASE Goto("verifying") /\ StartCycle(cycle + 1) /\ UNCHANGED <<calls, world>>
  <2>1. TypeOK'
    BY <1>0, <1>1, Limits DEF TypeOK, Asking, Requests, Goto, StartCycle, world, loop
  <2>2. Asking'
    BY <1>0, <1>1, Limits DEF Asking, TypeOK, Goto, StartCycle, loop
  <2>3. Located' /\ Verifying' /\ CompleteIsVerified'
    BY <1>0, <1>1 DEF Located, Over, Verifying, CompleteIsVerified, Goto, StartCycle
  <2> QED BY <2>1, <2>2, <2>3 DEF IInv
<1>2. CASE calls # <<>> /\ Run(calls[1], {}) /\ calls' = Tail(calls) /\ UNCHANGED <<phase, pc, qa>>
  <2>1. calls[1] \in Calls /\ calls' \in Seq(Calls)
    BY <1>0, <1>2, FirstCall DEF TypeOK
  <2>2. /\ failures' \subseteq Commands /\ proven' \subseteq Commands
        /\ good' \subseteq Commands /\ edited' \in BOOLEAN
    BY <1>0, <1>2, <2>1, RunTypes
  <2>3. TypeOK'
    BY <1>0, <1>2, <2>1, <2>2 DEF TypeOK, loop, qa
  <2>4. Asking'
    BY <1>0, <1>2 DEF Asking, loop, qa
  <2>5. Located' /\ Verifying' /\ CompleteIsVerified'
    BY <1>0, <1>2 DEF Located, Over, Verifying, CompleteIsVerified, qa
  <2> QED BY <2>3, <2>4, <2>5 DEF IInv
<1> QED BY <1>1, <1>2 DEF FixTool

LEMMA AbortKeeps == ASSUME IInv, Abort PROVE IInv'
<1> USE DEF Abort, IInv
<1>1. TypeOK'
  BY DEF TypeOK, world, qa, loop
<1>2. Asking'
  BY DEF Asking, qa, loop
<1>3. Located' /\ Verifying' /\ CompleteIsVerified'
  BY DEF Located, Over, Verifying, CompleteIsVerified, qa, world
<1> QED BY <1>1, <1>2, <1>3

THEOREM InvariantKept == IInv /\ [Next]_vars => IInv'
<1> SUFFICES ASSUME IInv, [Next]_vars PROVE IInv'
  OBVIOUS
<1>1. CASE UNCHANGED vars
  <2> USE <1>1 DEF vars, loop, qa, world, IInv
  <2>1. TypeOK'
    BY DEF TypeOK
  <2>2. Asking' /\ Located' /\ Verifying' /\ CompleteIsVerified'
    BY DEF Asking, Located, Over, Verifying, CompleteIsVerified
  <2> QED BY <2>1, <2>2
<1> QED BY <1>1, BeginTurnKeeps, ModelThrowsKeeps, ModelReturnsKeeps, RunToolKeeps, VerifyKeeps,
           EndCycleKeeps, FixReturnsKeeps, FixToolKeeps, AbortKeeps DEF Next, Step

(* The invariant that the theorems below rest on holds in every state.     *)
THEOREM Invariant == Spec => []IInv
BY InitInvariant, InvariantKept, PTL DEF Spec

(* The state keeps its types: turns, gates, repetitions and cycles stay    *)
(* within their limits.                                                    *)
THEOREM TypeCorrect == Spec => []TypeOK
BY Invariant, PTL DEF IInv

(* A complete run is one whose verification commands all pass in the       *)
(* project it leaves, for any commands and any tools of the model.         *)
THEOREM CompleteVerified == Spec => []CompleteIsVerified
BY Invariant, PTL DEF IInv

(* The model is asked at most twice a turn and once between two cycles.    *)
THEOREM QuestionsBounded == Spec => []AskedBounded
<1>1. IInv => AskedBounded
  BY DEF IInv, Asking, AskedBounded
<1> QED BY <1>1, Invariant, PTL

(* After the caller's signal the loop starts no tool.                      *)
THEOREM AbortStops == Spec => AbortStopsTools
<1>1. ASSUME IInv, [Next]_vars, aborted, phase = "executing"
      PROVE  good' = good /\ failures' = failures /\ proven' = proven
  <2>1. pc \notin {"verifying", "fixing", "fixTools", "over"}
    BY <1>1 DEF IInv, Located, Over
  <2> QED BY <1>1, <2>1 DEF Next, Step, vars, world, BeginTurn, ModelThrows, ModelReturns, RunTool,
             Verify, EndCycle, FixReturns, FixTool, Abort
<1>2. IInv /\ [Next]_vars
        => [aborted /\ phase = "executing" => good' = good /\ failures' = failures /\ proven' = proven]_vars
  BY <1>1
<1> QED BY <1>2, Invariant, PTL DEF Spec, AbortStopsTools
=============================================================================
