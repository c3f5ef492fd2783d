----------------------------- MODULE WorkGraph -----------------------------
(***************************************************************************)
(* The parallel executor of crew-cli's pipeline                            *)
(* (crew-cli/src/pipeline/unified.ts, l3ExecuteParallel): the units of a   *)
(* work graph run in batches, in dependency order, on a bounded number of  *)
(* lanes; each unit is an agentic worker whose tools edit files through    *)
(* the one Sandbox, is reviewed and perhaps fixed; at the end the pipeline *)
(* flushes the sandbox to disk.                                            *)
(*                                                                         *)
(* One step is what runs between two awaits.  What a worker writes is      *)
(* chosen freely; which tools it uses too.  Worktree isolation is not      *)
(* modelled: the published bundle is an ES module, where the require() of  *)
(* its availability test throws, so that every unit shares the sandbox.    *)
(***************************************************************************)
EXTENDS Sandbox

CONSTANTS
    Units,      \* the units of the plan
    Engine,     \* the pipeline itself, which flushes the sandbox
    Graphs,     \* the dependency graphs a planner may produce
    Caps,       \* the values of CREW_MAX_PARALLEL_WORKERS
    Shells,     \* whether the workers run shell commands
    MaxCycles,  \* CREW_L3_REVIEW_MAX_CYCLES
    MaxEdits    \* bound: the files one worker edits

ASSUME UnitsAssumption == IsFiniteSet(Units) /\ Engine \notin Units /\ Workers = Units \cup {Engine}
ASSUME GraphsAssumption == Graphs \subseteq [Units -> SUBSET Units]
ASSUME CapsAssumption == Caps \subseteq Nat \ {0} /\ Shells \subseteq BOOLEAN
ASSUME CyclesAssumption == MaxCycles \in Nat \ {0} /\ MaxEdits \in Nat

VARIABLES
    cfg,        \* the request and the environment, fixed
    outcome,    \* of the pipeline
    batched,    \* the units of the batches begun
    status,     \* [Units -> ...]
    cycle       \* [Units -> the review cycle a unit is in]

graphVars == <<cfg, outcome, batched, status, cycle>>
vars == <<sandboxVars, graphVars>>

Settings == [deps : Graphs, cap : Caps, shell : Shells, review : BOOLEAN, deferApply : BOOLEAN]
Statuses == {"planned", "queued", "working", "reviewing", "fixing", "finished", "threw"}
Outcomes == {"planned", "running", "flushing", "succeeded", "failed"}

TypeOK ==
    /\ SandboxTypeOK
    /\ cfg \in Settings
    /\ outcome \in Outcomes
    /\ batched \subseteq Units
    /\ status \in [Units -> Statuses]
    /\ cycle \in [Units -> 1 .. MaxCycles]

Finished == {u \in Units : status[u] = "finished"}
Queued == {u \in Units : status[u] = "queued"}
Working(u) == status[u] \in {"working", "fixing"}
Over == outcome \in {"succeeded", "failed"}

Init ==
    /\ SandboxInit
    /\ cfg \in Settings
    /\ outcome = "planned"
    /\ batched = {}
    /\ status = [u \in Units |-> "planned"]
    /\ cycle = [u \in Units |-> 1]

-----------------------------------------------------------------------------
(* topologicalSort throws when it comes back to a unit it is visiting.     *)
Cyclic(deps) ==
    \E S \in SUBSET Units : S # {} /\ \A u \in S : deps[u] \cap S # {}

(* getBatches: the units whose dependencies are all in earlier batches.    *)
NextBatch == {u \in Units \ batched : cfg.deps[u] \subseteq batched}

(* Every lane takes a unit at once; the rest of the batch is queued.       *)
BeginBatch ==
    /\ NextBatch # {}
    /\ batched' = batched \cup NextBatch
    /\ \E S \in SUBSET NextBatch :
          /\ \/ S = NextBatch /\ Cardinality(S) <= cfg.cap
             \/ Cardinality(S) = cfg.cap
          /\ status' = [u \in Units |-> IF u \in S THEN "working"
                                        ELSE IF u \in NextBatch THEN "queued"
                                        ELSE status[u]]
    /\ outcome' = "running"
    /\ UNCHANGED <<cfg, cycle>>

Fail == outcome' = "failed" /\ UNCHANGED <<cfg, batched, status, cycle>>

(* l3ExecuteParallel begins: the cost and artifact gates, then the sort.   *)
Execute ==
    /\ outcome = "planned"
    /\ \/ Fail
       \/ ~Cyclic(cfg.deps) /\ BeginBatch
    /\ UNCHANGED sandboxVars

\* Mutant: the batch is over once its workers have returned, reviewed or not.
EndBatchBeforeReview ==
    /\ outcome = "running"
    /\ \A u \in batched : status[u] \in {"reviewing", "fixing", "finished"}
    /\ \/ Fail
       \/ BeginBatch
       \/ /\ batched = Units
          /\ outcome' = "flushing"
          /\ UNCHANGED <<cfg, batched, status, cycle>>
    /\ UNCHANGED sandboxVars

\* Mutant: the batch is awaited with Promise.allSettled.
EndBatchAllSettled ==
    /\ outcome \in {"running", "failed"}
    /\ \A u \in batched : status[u] \in {"finished", "threw"}
    /\ \/ Fail
       \/ BeginBatch
       \/ /\ batched = Units
          /\ outcome' = "flushing"
          /\ UNCHANGED <<cfg, batched, status, cycle>>
    /\ UNCHANGED sandboxVars

(* Promise.all has resolved: the cost gate, then the next batch or the end.*)
EndBatch ==
    /\ outcome = "running"
    /\ batched \subseteq Finished
    /\ \/ Fail
       \/ BeginBatch
       \/ /\ batched = Units
          /\ outcome' = "flushing"
          /\ UNCHANGED <<cfg, batched, status, cycle>>
    /\ UNCHANGED sandboxVars

-----------------------------------------------------------------------------
(* runUnit returns; its lane takes the next unit of the queue in the same  *)
(* turn, whether or not another lane has thrown.                           *)
FinishUnit(u) ==
    \/ /\ Queued = {}
       /\ status' = [status EXCEPT ![u] = "finished"]
    \/ \E v \in Queued : status' = [status EXCEPT ![u] = "finished", ![v] = "working"]

\* Mutant: a fix does not count as a cycle.
WorkerReturnsUncounted(u) ==
    /\ Working(u)
    /\ op[u] = Idle
    /\ \/ /\ cfg.review
          /\ status' = [status EXCEPT ![u] = "reviewing"]
       \/ /\ ~cfg.review
          /\ FinishUnit(u)
    /\ UNCHANGED <<sandboxVars, cfg, outcome, batched, cycle>>

(* The worker's last turn: the review comes next when it is enabled; after *)
(* a fix the next review cycle begins.  A worker that gives up returns too.*)
WorkerReturns(u) ==
    /\ Working(u)
    /\ op[u] = Idle
    /\ \/ /\ cfg.review
          /\ status' = [status EXCEPT ![u] = "reviewing"]
          /\ cycle' = [cycle EXCEPT ![u] = IF status[u] = "fixing" THEN @ + 1 ELSE @]
       \/ /\ ~cfg.review
          /\ FinishUnit(u)
          /\ UNCHANGED cycle
    /\ UNCHANGED <<sandboxVars, cfg, outcome, batched>>

\* Mutant: one cycle too many.
ReviewReturnsOnceMore(u) ==
    /\ status[u] = "reviewing"
    /\ \/ FinishUnit(u)
       \/ /\ cycle[u] <= MaxCycles
          /\ status' = [status EXCEPT ![u] = "fixing"]
    /\ UNCHANGED <<sandboxVars, cfg, outcome, batched, cycle>>

(* The reviewer's verdict: approved, or rejected in the last cycle, ends   *)
(* the unit; rejected before that starts a fixer on the shared sandbox.    *)
ReviewReturns(u) ==
    /\ status[u] = "reviewing"
    /\ \/ FinishUnit(u)
       \/ /\ cycle[u] < MaxCycles
          /\ status' = [status EXCEPT ![u] = "fixing"]
    /\ UNCHANGED <<sandboxVars, cfg, outcome, batched, cycle>>

(* The worker or the reviewer throws: its lane ends and Promise.all        *)
(* rejects, which fails the pipeline; the other lanes are not stopped.     *)
UnitThrows(u) ==
    /\ status[u] \in {"working", "fixing", "reviewing"}
    /\ op[u] = Idle
    /\ status' = [status EXCEPT ![u] = "threw"]
    /\ outcome' = "failed"
    /\ UNCHANGED <<sandboxVars, cfg, batched, cycle>>

(* A tool call of a worker.  A shell command is preceded by apply().       *)
ToolCall(u) ==
    /\ Working(u)
    /\ \/ /\ Cardinality({f \in Files : u \in edited[f]}) < MaxEdits
          /\ \E f \in Files : EditStaged(u, f) \/ ReadFile(u, f) \/ WriteFile(u, f)
       \/ cfg.shell /\ StartApply(u)
    /\ UNCHANGED graphVars

ToolStep(u) ==
    /\ Working(u)
    /\ AddChange(u) \/ StoreChange(u) \/ WriteOne(u) \/ Rollback(u) \/ ApplyFails(u)
    /\ UNCHANGED graphVars

-----------------------------------------------------------------------------
(* flushSandbox: nothing to do, or left to the caller; else apply().       *)
FlushNothing ==
    /\ outcome = "flushing"
    /\ op[Engine] = Idle
    /\ Pending = {} \/ cfg.deferApply
    /\ outcome' = "succeeded"
    /\ UNCHANGED <<sandboxVars, cfg, batched, status, cycle>>

\* Mutant: deferApply is not looked at.
FlushStepAtOnce ==
    /\ outcome = "flushing"
    /\ StartApply(Engine) \/ WriteOne(Engine)
    /\ UNCHANGED graphVars

FlushStep ==
    /\ outcome = "flushing"
    /\ \/ ~cfg.deferApply /\ StartApply(Engine)
       \/ WriteOne(Engine)
    /\ UNCHANGED graphVars

FlushEnds ==
    /\ outcome = "flushing"
    /\ \/ Rollback(Engine) /\ outcome' = "succeeded"
       \/ ApplyFails(Engine) /\ outcome' = "failed"
    /\ UNCHANGED <<cfg, batched, status, cycle>>

UnitStep(u) ==
    WorkerReturns(u) \/ ReviewReturns(u) \/ UnitThrows(u) \/ ToolCall(u) \/ ToolStep(u)

\* Nothing is left to do: the pipeline is over and so is every unit begun.
Rest == /\ Over
        /\ \A u \in batched : status[u] \in {"finished", "threw", "queued"}
        /\ UNCHANGED vars

Next ==
    \/ Execute
    \/ EndBatch
    \/ \E u \in Units : UnitStep(u)
    \/ FlushNothing
    \/ FlushStep
    \/ FlushEnds
    \/ Rest

Spec == Init /\ [][Next]_vars

(* Node runs what is ready and a call of a model or of a tool has a        *)
(* timeout.  A worker has a bound on its turns (maxTurns), so that it      *)
(* returns at last even when it could call one more tool each time.        *)
Fairness ==
    /\ WF_vars(Execute \/ EndBatch \/ FlushNothing \/ FlushStep \/ FlushEnds)
    /\ \A u \in Units : /\ WF_vars(ToolStep(u))
                        /\ SF_vars(WorkerReturns(u) \/ ReviewReturns(u))

FairSpec == Spec /\ Fairness

-----------------------------------------------------------------------------
(* "Execute work units in dependency order with parallelization"           *)
(* (unified.ts:2368): the executor implements that promise with its        *)
(* batches, although a unit counts as completed before its review and a    *)
(* lane that threw leaves the others running.                              *)
Order == INSTANCE DependencyOrder
            WITH needs <- cfg.deps,
                 started <- {u \in Units : status[u] \notin {"planned", "queued"}},
                 finished <- Finished,
                 verdict <- IF Over THEN outcome ELSE "open"
InDependencyOrder == Order!Spec

(* No edit that a tool reported as done is lost when the workers run one   *)
(* at a time, through shell commands, failed writes, fixers and the final  *)
(* flush, except in a new file: the guard of writeFile looks for it on     *)
(* disk only.  Nor is one lost in parallel, as long as no shell command    *)
(* flushes the sandbox and no two workers edit the same file: the sandbox  *)
(* has no lock.                                                            *)
Editors(f) == edited[f] \cup {w \in Workers : op[w].at \in {"read", "storing"} /\ op[w].file = f}
Spared(f) == \/ cfg.cap = 1 /\ f \notin NewFiles
             \/ ~cfg.shell /\ Cardinality(Editors(f)) <= 1
NothingLost == \A f \in Files : Spared(f) => Kept(f)

(* Success means that every unit finished and that the flush left nothing  *)
(* staged, unless the caller asked to preview the changes first; what it   *)
(* previews is then not on disk already, unless a shell command ran.       *)
SuccessIsComplete ==
    outcome = "succeeded" =>
        /\ Finished = Units
        /\ cfg.deferApply \/ Pending = {}
        /\ cfg.deferApply /\ ~cfg.shell => \A f \in Files : disk[f] = {}

(* Once the pipeline has failed, it may still run what was queued in the   *)
(* batch, and never begins another batch.                                  *)
FailureStopsBatches == [][outcome = "failed" => batched' = batched /\ outcome' = "failed"]_vars

(* The pipeline comes to an end and its workers with it: an acyclic graph  *)
(* never leaves a batch empty, and no review goes on for ever.             *)
EventuallyOver == <>[](Over /\ \A u \in Units : ~Working(u) /\ status[u] # "reviewing")

(* flushSandbox says that the files workers stage "need to be flushed to   *)
(* disk after execution" (unified.ts:1166-1168): on success a file that    *)
(* one worker alone edited holds its edit.  A shell command of another     *)
(* worker breaks this: its apply() writes what was staged when it began    *)
(* and then drops the whole branch.                                        *)
EditsReachDisk ==
    outcome = "succeeded" /\ ~cfg.deferApply =>
        \A f \in Files : Cardinality(edited[f]) = 1 => edited[f] \subseteq disk[f]
=============================================================================
