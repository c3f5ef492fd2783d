-------------------------- MODULE WorkGraph_proofs --------------------------
(***************************************************************************)
(* Proofs about the executor of work graphs and its sandbox: the types,    *)
(* that a successful pipeline is complete, that a failed one begins no     *)
(* batch, and that the executor implements DependencyOrder; for any units, *)
(* graphs and files.                                                       *)
(***************************************************************************)
EXTENDS WorkGraph, FiniteSetTheorems, TLAPS

-----------------------------------------------------------------------------
(* The texts of a branch.                                                  *)
LEMMA BranchIntro ==
  ASSUME NEW S \in SUBSET Files, NEW b \in [S -> Texts]
  PROVE  b \in Branch
BY DEF Branch

LEMMA BranchElim ==
  ASSUME NEW b \in Branch
  PROVE  DOMAIN b \subseteq Files /\ b \in [DOMAIN b -> Texts]
BY DEF Branch

LEMMA EmptyBranchType == EmptyBranch \in Branch
<1>1. EmptyBranch \in [{} -> Texts]
  BY DEF EmptyBranch
<1> QED BY <1>1, BranchIntro

(* A call is what its place says.                                          *)
LEMMA OpForms ==
  ASSUME NEW o \in Ops
  PROVE  /\ o.at \in {"idle", "read", "storing", "applying"}
         /\ o.at = "read" => o.file \in Files /\ o.text \in Texts
         /\ o.at = "storing" => o \in [at : {"storing"}, file : Files, text : Texts, live : BOOLEAN]
         /\ o.at = "applying" => o.todo \in Branch /\ o = [at |-> "applying", todo |-> o.todo]
BY DEF Ops, Idle

LEMMA IdleType == Idle \in Ops /\ Idle.at = "idle"
BY DEF Idle, Ops

LEMMA StageTypes ==
  ASSUME SandboxTypeOK, NEW w \in Workers, NEW f \in Files, NEW text \in Texts, Stage(w, f, text)
  PROVE  SandboxTypeOK' /\ op' = [op EXCEPT ![w] = Idle] /\ disk' = disk
<1>1. staged' \in [Pending \cup {f} -> Texts]
  BY BranchElim DEF Stage, SandboxTypeOK, Pending
<1>2. staged' \in Branch
  BY <1>1, BranchElim, BranchIntro DEF SandboxTypeOK, Pending
<1>3. op' \in [Workers -> Ops]
  BY IdleType DEF Stage, SandboxTypeOK
<1>4. edited' \in [Files -> Texts]
  BY DEF Stage, SandboxTypeOK, Texts
<1> QED BY <1>2, <1>3, <1>4 DEF Stage, SandboxTypeOK

-----------------------------------------------------------------------------
(* The calls that edit: they keep the types and the disk, and never end up *)
(* in apply().                                                             *)
Editing(w) ==
  \/ \E f \in Files : EditStaged(w, f) \/ ReadFile(w, f) \/ WriteFile(w, f)
  \/ AddChange(w)
  \/ StoreChange(w)

LEMMA EditingTypes ==
  ASSUME SandboxTypeOK, NEW w \in Workers, Editing(w)
  PROVE  SandboxTypeOK' /\ disk' = disk
         /\ \E o \in Ops : o.at # "applying" /\ op' = [op EXCEPT ![w] = o]
<1>0. op \in [Workers -> Ops] /\ disk \in [Files -> Texts] /\ staged \in Branch
  BY DEF SandboxTypeOK
<1>a. ASSUME NEW f \in Files, NEW text \in Texts, Stage(w, f, text)
      PROVE  SandboxTypeOK' /\ disk' = disk
             /\ \E o \in Ops : o.at # "applying" /\ op' = [op EXCEPT ![w] = o]
  BY <1>a, StageTypes, IdleType
<1>b. ASSUME NEW o \in Ops, o.at # "applying", op' = [op EXCEPT ![w] = o], UNCHANGED <<disk, staged, edited>>
      PROVE  SandboxTypeOK' /\ disk' = disk
             /\ \E p \in Ops : p.at # "applying" /\ op' = [op EXCEPT ![w] = p]
  BY <1>b DEF SandboxTypeOK
<1>1. ASSUME NEW f \in Files, EditStaged(w, f) PROVE SandboxTypeOK' /\ disk' = disk
             /\ \E o \in Ops : o.at # "applying" /\ op' = [op EXCEPT ![w] = o]
  <2>1. staged[f] \cup {w} \in Texts
    BY <1>0, <1>1, BranchElim DEF EditStaged, Texts, Pending
  <2> QED BY <1>1, <1>a, <2>1 DEF EditStaged
<1>2. ASSUME NEW f \in Files, ReadFile(w, f) PROVE SandboxTypeOK' /\ disk' = disk
             /\ \E o \in Ops : o.at # "applying" /\ op' = [op EXCEPT ![w] = o]
  <2> DEFINE o == [at |-> "read", file |-> f, text |-> disk[f]]
  <2>1. o \in Ops /\ o.at # "applying"
    BY <1>0 DEF Ops
  <2> QED BY <1>2, <1>b, <2>1 DEF ReadFile
<1>3. ASSUME NEW f \in Files, WriteFile(w, f) PROVE SandboxTypeOK' /\ disk' = disk
             /\ \E o \in Ops : o.at # "applying" /\ op' = [op EXCEPT ![w] = o]
  <2> DEFINE o == [at |-> "storing", file |-> f, text |-> {w}, live |-> TRUE]
  <2>0. {w} \in Texts
    BY DEF Texts
  <2>1. o \in Ops /\ o.at # "applying"
    BY <2>0 DEF Ops
  <2>2. CASE Stage(w, f, {w})
    BY <1>a, <2>0, <2>2
  <2>3. CASE op' = [op EXCEPT ![w] = o] /\ UNCHANGED <<disk, staged, edited>>
    BY <1>b, <2>1, <2>3
  <2> QED BY <1>3, <2>2, <2>3 DEF WriteFile
<1>4. CASE AddChange(w)
  <2> DEFINE f == op[w].file
             text == op[w].text \cup {w}
             o == [at |-> "storing", file |-> f, text |-> text, live |-> TRUE]
  <2>0. f \in Files /\ text \in Texts
    BY <1>0, <1>4, OpForms DEF AddChange, Texts
  <2>1. o \in Ops /\ o.at # "applying"
    BY <2>0 DEF Ops
  <2>2. CASE Stage(w, f, text)
    BY <1>a, <2>0, <2>2
  <2>3. CASE op' = [op EXCEPT ![w] = o] /\ UNCHANGED <<disk, staged, edited>>
    BY <1>b, <2>1, <2>3
  <2> QED BY <1>4, <2>2, <2>3 DEF AddChange
<1>5. CASE StoreChange(w)
  <2>0. op[w].file \in Files /\ op[w].text \in Texts
    BY <1>0, <1>5, OpForms DEF StoreChange
  <2>1. CASE Stage(w, op[w].file, op[w].text)
    BY <1>a, <2>0, <2>1
  <2>2. CASE /\ edited' = [edited EXCEPT ![op[w].file] = @ \cup {w}]
             /\ op' = [op EXCEPT ![w] = Idle]
             /\ UNCHANGED <<disk, staged>>
    <3>1. edited' \in [Files -> Texts]
      BY <2>0, <2>2 DEF SandboxTypeOK, Texts
    <3>2. op' \in [Workers -> Ops]
      BY <1>0, <2>2, IdleType
    <3> QED BY <2>2, <3>1, <3>2, IdleType DEF SandboxTypeOK
  <2> QED BY <1>5, <2>1, <2>2 DEF StoreChange
<1> QED BY <1>1, <1>2, <1>3, <1>4, <1>5 DEF Editing

(* The steps of apply().                                                   *)
LEMMA StartApplyTypes ==
  ASSUME SandboxTypeOK, NEW w \in Workers, StartApply(w)
  PROVE  /\ SandboxTypeOK' /\ disk' = disk
         /\ \A v \in Workers \ {w} : op'[v] = op[v]
<1> DEFINE o == [at |-> "applying", todo |-> staged]
<1>1. o \in Ops
  BY DEF Ops, SandboxTypeOK
<1> QED BY <1>1 DEF StartApply, SandboxTypeOK

LEMMA WriteOneTypes ==
  ASSUME SandboxTypeOK, NEW w \in Workers, WriteOne(w)
  PROVE  SandboxTypeOK' /\ \A v \in Workers : op'[v].at = op[v].at
<1>0. op \in [Workers -> Ops] /\ disk \in [Files -> Texts] /\ op[w].at = "applying"
  BY DEF SandboxTypeOK, WriteOne
<1>1. PICK f \in DOMAIN op[w].todo :
          /\ disk' = [disk EXCEPT ![f] = op[w].todo[f]]
          /\ op' = [op EXCEPT ![w].todo = [g \in DOMAIN @ \ {f} |-> @[g]]]
  BY DEF WriteOne
<1> DEFINE todo == op[w].todo
           rest == [g \in DOMAIN todo \ {f} |-> todo[g]]
<1>2. todo \in Branch /\ op[w] = [at |-> "applying", todo |-> todo]
  BY <1>0, OpForms
<1>3. DOMAIN todo \subseteq Files /\ todo \in [DOMAIN todo -> Texts]
  BY <1>2, BranchElim
<1>4. rest \in Branch
  <2>1. rest \in [DOMAIN todo \ {f} -> Texts]
    BY <1>3
  <2> HIDE DEF rest
  <2> QED BY <1>3, <2>1, BranchIntro
<1>5. op' = [op EXCEPT ![w] = [at |-> "applying", todo |-> rest]]
  <2>1. op' = [op EXCEPT ![w] = [op[w] EXCEPT !.todo = rest]]
    BY <1>1
  <2>2. [op[w] EXCEPT !.todo = rest] = [at |-> "applying", todo |-> rest]
    BY <1>2
  <2> QED BY <2>1, <2>2
<1> HIDE DEF rest
<1>6. op' \in [Workers -> Ops]
  <2>1. [at |-> "applying", todo |-> rest] \in Ops
    BY <1>4 DEF Ops
  <2> QED BY <1>0, <1>5, <2>1
<1>7. disk' \in [Files -> Texts]
  BY <1>0, <1>1, <1>3
<1>8. SandboxTypeOK'
  BY <1>6, <1>7 DEF SandboxTypeOK, WriteOne
<1> QED BY <1>0, <1>5, <1>8

LEMMA RollbackTypes ==
  ASSUME SandboxTypeOK, NEW w \in Workers, Rollback(w)
  PROVE  /\ SandboxTypeOK' /\ disk' = disk /\ staged' = EmptyBranch
         /\ \A v \in Workers : op'[v].at = "applying" => op[v].at = "applying"
         /\ \A v \in Workers : op[v] = Idle => op'[v] = Idle
<1>0. op \in [Workers -> Ops]
  BY DEF SandboxTypeOK
<1>1. \A v \in Workers :
        op'[v] = IF v = w THEN Idle
                 ELSE IF op[v].at = "storing" THEN [op[v] EXCEPT !.live = FALSE]
                 ELSE op[v]
  BY DEF Rollback
<1>2. ASSUME NEW v \in Workers
      PROVE  /\ op'[v] \in Ops
             /\ op'[v].at = "applying" => op[v].at = "applying"
             /\ op[v] = Idle => op'[v] = Idle
  <2>1. CASE v = w
    BY <1>1, <2>1, IdleType
  <2>2. CASE v # w /\ op[v].at = "storing"
    <3>1. [op[v] EXCEPT !.live = FALSE] \in [at : {"storing"}, file : Files, text : Texts, live : BOOLEAN]
      BY <1>0, <2>2, OpForms
    <3>2. op'[v] \in [at : {"storing"}, file : Files, text : Texts, live : BOOLEAN]
      BY <1>1, <2>2, <3>1
    <3> QED BY <2>2, <3>2, IdleType DEF Ops
  <2>3. CASE v # w /\ op[v].at # "storing"
    BY <1>0, <1>1, <2>3
  <2> QED BY <2>1, <2>2, <2>3
<1>3. op' \in [Workers -> Ops]
  BY <1>2 DEF Rollback
<1> QED BY <1>2, <1>3, EmptyBranchType DEF Rollback, SandboxTypeOK

LEMMA ApplyFailsTypes ==
  ASSUME SandboxTypeOK, NEW w \in Workers, ApplyFails(w)
  PROVE  /\ SandboxTypeOK' /\ disk' = disk
         /\ \A v \in Workers : op'[v].at = "applying" => op[v].at = "applying"
BY IdleType DEF ApplyFails, SandboxTypeOK

-----------------------------------------------------------------------------
(* The executor's own types.                                               *)
GraphTypeOK ==
  /\ cfg \in Settings
  /\ outcome \in Outcomes
  /\ batched \subseteq Units
  /\ status \in [Units -> Statuses]
  /\ cycle \in [Units -> 1 .. MaxCycles]

\* Exactly the units of the batches begun have left "planned", and what they
\* depend on has finished; success and the flush come after the last unit.
\* A fix is never the last cycle.
Batches ==
  /\ \A u \in Units : status[u] = "planned" <=> u \notin batched
  /\ \A u \in batched : cfg.deps[u] \subseteq Finished
  /\ outcome = "planned" => batched = {}
  /\ outcome \in {"flushing", "succeeded"} => Finished = Units
  /\ \A u \in Units : status[u] = "fixing" => cycle[u] < MaxCycles

\* Only those who may flush the sandbox are in apply(); until somebody is,
\* nothing reaches the disk.
Flushers ==
  \A w \in Workers : op[w].at = "applying" => IF w = Engine THEN ~cfg.deferApply ELSE cfg.shell
Untouched == cfg.deferApply /\ ~cfg.shell => \A f \in Files : disk[f] = {}
Flushed == outcome = "succeeded" => cfg.deferApply \/ Pending = {}

IInv == SandboxTypeOK /\ GraphTypeOK /\ Batches /\ Flushers /\ Untouched /\ Flushed

(* What the invariant says of the types and of success.                    *)
LEMMA InvariantShows == IInv => TypeOK /\ SuccessIsComplete
BY DEF IInv, TypeOK, GraphTypeOK, Batches, Untouched, Flushed, SuccessIsComplete

LEMMA AreWorkers == Units \subseteq Workers /\ Engine \in Workers /\ Engine \notin Units
BY UnitsAssumption

THEOREM InitInvariant == Init => IInv
<1> SUFFICES ASSUME Init PROVE IInv
  OBVIOUS
<1>1. SandboxTypeOK
  BY EmptyBranchType, IdleType DEF Init, SandboxInit, SandboxTypeOK, Texts
<1>2. GraphTypeOK
  BY CyclesAssumption DEF Init, GraphTypeOK, Outcomes, Statuses
<1>3. Batches /\ Flushed
  BY DEF Init, Batches, Flushed
<1>4. Flushers /\ Untouched
  BY IdleType DEF Init, SandboxInit, Flushers, Untouched
<1> QED BY <1>1, <1>2, <1>3, <1>4 DEF IInv

-----------------------------------------------------------------------------
(* A batch begins after all the batches before it have finished.           *)
LEMMA BeginBatchKeeps ==
  ASSUME IInv, BeginBatch, batched \subseteq Finished, UNCHANGED sandboxVars
  PROVE  /\ IInv'
         /\ Finished' = Finished /\ outcome' = "running"
         /\ \A u \in Units : status[u] \notin {"planned", "queued"}
              => status'[u] \notin {"planned", "queued"}
         /\ \A u \in Units : status[u] \in {"planned", "queued"} /\ status'[u] \notin {"planned", "queued"}
              => cfg.deps[u] \subseteq Finished
<1>1. PICK S \in SUBSET NextBatch :
          status' = [u \in Units |-> IF u \in S THEN "working"
                                     ELSE IF u \in NextBatch THEN "queued"
                                     ELSE status[u]]
  BY DEF BeginBatch
<1>2. /\ NextBatch \subseteq Units \ batched
      /\ \A u \in NextBatch : cfg.deps[u] \subseteq Finished /\ status[u] = "planned"
      /\ batched' = batched \cup NextBatch
      /\ outcome' = "running" /\ UNCHANGED <<cfg, cycle>>
  BY DEF BeginBatch, NextBatch, IInv, Batches
<1>3. GraphTypeOK'
  BY <1>1, <1>2 DEF IInv, GraphTypeOK, Outcomes, Statuses
<1>4. Finished' = Finished
  BY <1>1, <1>2 DEF Finished
<1>5. Batches'
  <2>1. \A u \in Units : status'[u] = "planned" <=> u \notin batched'
    BY <1>1, <1>2 DEF IInv, Batches
  <2>2. \A u \in batched' : cfg'.deps[u] \subseteq Finished'
    BY <1>2, <1>4 DEF IInv, Batches
  <2>3. \A u \in Units : status'[u] = "fixing" => cycle'[u] < MaxCycles
    BY <1>1, <1>2 DEF IInv, Batches
  <2> QED BY <1>2, <2>1, <2>2, <2>3 DEF Batches
<1>6. SandboxTypeOK' /\ Flushers' /\ Untouched' /\ Flushed'
  BY <1>2 DEF IInv, SandboxTypeOK, Flushers, Untouched, Flushed, sandboxVars
<1>7. IInv'
  BY <1>3, <1>5, <1>6 DEF IInv
<1> QED BY <1>1, <1>2, <1>4, <1>7

(* A unit finishes and another one of the same batch may start.            *)
LEMMA FinishUnitKeeps ==
  ASSUME IInv, NEW u \in Units, status[u] \in {"working", "fixing", "reviewing"}, FinishUnit(u),
         UNCHANGED <<sandboxVars, cfg, outcome, batched, cycle>>
  PROVE  /\ IInv'
         /\ outcome \notin {"flushing", "succeeded"}
         /\ Finished' = Finished \cup {u}
         /\ \A v \in Units : status[v] \notin {"planned", "queued"}
              => status'[v] \notin {"planned", "queued"}
         /\ \A v \in Units : status[v] \in {"planned", "queued"} /\ status'[v] \notin {"planned", "queued"}
              => cfg.deps[v] \subseteq Finished
<1>0. status \in [Units -> Statuses] /\ u \in batched
  BY DEF IInv, GraphTypeOK, Batches
<1>1. PICK v \in {u} \cup Queued :
        status' = [w \in Units |-> IF w = u THEN "finished"
                                   ELSE IF w = v THEN "working" ELSE status[w]]
  <2>1. CASE status' = [status EXCEPT ![u] = "finished"]
    <3> WITNESS u \in {u} \cup Queued
    <3> QED BY <1>0, <2>1
  <2>2. CASE \E v \in Queued : status' = [status EXCEPT ![u] = "finished", ![v] = "working"]
    <3>1. PICK v \in Queued : status' = [status EXCEPT ![u] = "finished", ![v] = "working"]
      BY <2>2
    <3>2. v # u
      BY DEF Queued
    <3> WITNESS v \in {u} \cup Queued
    <3> QED BY <1>0, <3>1, <3>2
  <2> QED BY <2>1, <2>2 DEF FinishUnit
<1>2. /\ \A w \in Units \ {u, v} : status'[w] = status[w]
      /\ status'[u] = "finished"
      /\ v # u => v \in Units /\ status[v] = "queued" /\ status'[v] = "working" /\ v \in batched
      /\ status' \in [Units -> Statuses]
  <2>1. v # u => v \in Units /\ status[v] = "queued"
    BY <1>1 DEF Queued
  <2>2. status' \in [Units -> Statuses]
    BY <1>0, <1>1 DEF Statuses
  <2> QED BY <1>1, <2>1, <2>2 DEF IInv, Batches
<1>3. Finished' = Finished \cup {u}
  BY <1>2 DEF Finished
<1>4. outcome \notin {"flushing", "succeeded"}
  BY DEF IInv, Batches, Finished
<1>5. GraphTypeOK'
  BY <1>2 DEF IInv, GraphTypeOK
<1>6. Batches'
  <2>1. \A w \in Units : status'[w] = "planned" <=> w \notin batched'
    BY <1>0, <1>2 DEF IInv, Batches
  <2>2. \A w \in batched' : cfg'.deps[w] \subseteq Finished'
    BY <1>3 DEF IInv, Batches
  <2>3. \A w \in Units : status'[w] = "fixing" => cycle'[w] < MaxCycles
    BY <1>2 DEF IInv, Batches
  <2> QED BY <1>4, <2>1, <2>2, <2>3 DEF IInv, Batches
<1>7. SandboxTypeOK' /\ Flushers' /\ Untouched' /\ Flushed'
  BY DEF IInv, SandboxTypeOK, Flushers, Untouched, Flushed, sandboxVars, Pending
<1>8. IInv'
  BY <1>5, <1>6, <1>7 DEF IInv
<1>9. \A w \in Units : status[w] \in {"planned", "queued"} /\ status'[w] \notin {"planned", "queued"}
              => cfg.deps[w] \subseteq Finished
  BY <1>2 DEF IInv, Batches
<1> QED BY <1>2, <1>3, <1>4, <1>8, <1>9

(* A unit goes on, is reviewed, is fixed or throws: it has started before  *)
(* and has not finished.                                                   *)
LEMMA UnitGoesOn ==
  ASSUME IInv, NEW u \in Units, status[u] \in {"working", "fixing", "reviewing"},
         NEW s \in {"working", "fixing", "reviewing", "threw"},
         status' = [status EXCEPT ![u] = s],
         outcome' \in {outcome, "failed"},
         UNCHANGED <<sandboxVars, cfg, batched>>, cycle' \in [Units -> 1 .. MaxCycles],
         \A v \in Units \ {u} : cycle'[v] = cycle[v],
         s = "fixing" => cycle'[u] < MaxCycles
  PROVE  /\ IInv'
         /\ outcome \notin {"flushing", "succeeded"}
         /\ Finished' = Finished
         /\ \A v \in Units : status[v] \in {"planned", "queued"} <=> status'[v] \in {"planned", "queued"}
<1>0. status \in [Units -> Statuses] /\ status' \in [Units -> Statuses]
  BY DEF IInv, GraphTypeOK, Statuses
<1>1. Finished' = Finished
  BY <1>0 DEF Finished
<1>2. outcome \notin {"flushing", "succeeded"}
  BY DEF IInv, Batches, Finished
<1>3. GraphTypeOK'
  BY <1>0 DEF IInv, GraphTypeOK, Outcomes
<1>4. Batches'
  <2>1. \A w \in Units : status'[w] = "planned" <=> w \notin batched'
    BY <1>0 DEF IInv, Batches
  <2>2. \A w \in Units : status'[w] = "fixing" => cycle'[w] < MaxCycles
    BY <1>0 DEF IInv, Batches, GraphTypeOK
  <2> QED BY <1>1, <1>2, <2>1, <2>2 DEF IInv, Batches
<1>5. SandboxTypeOK' /\ Flushers' /\ Untouched'
  BY DEF IInv, SandboxTypeOK, Flushers, Untouched, sandboxVars
<1>6. Flushed'
  BY <1>2 DEF Flushed
<1>7. IInv'
  BY <1>3, <1>4, <1>5, <1>6 DEF IInv
<1> QED BY <1>0, <1>1, <1>2, <1>7

(* A tool call of a unit: the executor's state stays as it is.             *)
LEMMA ToolKeeps ==
  ASSUME IInv, NEW u \in Units, ToolCall(u) \/ ToolStep(u)
  PROVE  IInv'
<1>0. /\ SandboxTypeOK /\ GraphTypeOK /\ Batches /\ Flushers /\ Untouched
      /\ op \in [Workers -> Ops] /\ u \in Workers /\ u # Engine
      /\ UNCHANGED graphVars /\ Working(u)
  BY AreWorkers DEF IInv, SandboxTypeOK, ToolCall, ToolStep
<1>1. outcome \notin {"flushing", "succeeded"}
  BY <1>0 DEF Batches, Finished, Working
<1>2. GraphTypeOK' /\ Batches' /\ Flushed'
  BY <1>0, <1>1 DEF GraphTypeOK, Batches, Flushed, Finished, graphVars
<1>3. ASSUME SandboxTypeOK', Flushers', disk' = disk PROVE IInv'
  BY <1>0, <1>2, <1>3 DEF IInv, Untouched, graphVars
<1>4. CASE Editing(u)
  <2>1. PICK o \in Ops : o.at # "applying" /\ op' = [op EXCEPT ![u] = o]
    BY <1>0, <1>4, EditingTypes
  <2>2. Flushers'
    BY <1>0, <2>1 DEF Flushers, graphVars
  <2> QED BY <1>0, <1>3, <1>4, <2>2, EditingTypes
<1>5. CASE cfg.shell /\ StartApply(u)
  <2>1. Flushers'
    BY <1>0, <1>5, StartApplyTypes DEF Flushers, graphVars
  <2> QED BY <1>0, <1>3, <1>5, <2>1, StartApplyTypes
<1>6. CASE WriteOne(u)
  <2>1. SandboxTypeOK' /\ Flushers'
    BY <1>0, <1>6, WriteOneTypes DEF Flushers, graphVars
  <2>2. cfg.shell
    BY <1>0, <1>6 DEF Flushers, WriteOne
  <2>3. Untouched'
    BY <1>0, <2>2 DEF Untouched, graphVars
  <2> QED BY <1>2, <2>1, <2>3 DEF IInv
<1>7. CASE Rollback(u)
  <2>1. Flushers'
    BY <1>0, <1>7, RollbackTypes DEF Flushers, graphVars
  <2> QED BY <1>0, <1>3, <1>7, <2>1, RollbackTypes
<1>8. CASE ApplyFails(u)
  <2>1. Flushers'
    BY <1>0, <1>8, ApplyFailsTypes DEF Flushers, graphVars
  <2> QED BY <1>0, <1>3, <1>8, <2>1, ApplyFailsTypes
<1> QED BY <1>4, <1>5, <1>6, <1>7, <1>8 DEF ToolCall, ToolStep, Editing

-----------------------------------------------------------------------------
(* The flush at the end.                                                   *)
LEMMA FlushKeeps ==
  ASSUME IInv, FlushNothing \/ FlushStep \/ FlushEnds
  PROVE  IInv' /\ outcome = "flushing" /\ Finished = Units /\ UNCHANGED <<cfg, batched, status, cycle>>
<1>0. /\ SandboxTypeOK /\ GraphTypeOK /\ Batches /\ Flushers /\ Untouched
      /\ Engine \in Workers /\ outcome = "flushing" /\ Finished = Units
      /\ UNCHANGED <<cfg, batched, status, cycle>>
      /\ outcome' \in {"flushing", "succeeded", "failed"}
  BY AreWorkers DEF IInv, Batches, FlushNothing, FlushStep, FlushEnds, graphVars
<1>1. GraphTypeOK' /\ Batches'
  BY <1>0 DEF GraphTypeOK, Batches, Finished, Outcomes
<1>2. CASE FlushNothing
  <2>1. SandboxTypeOK' /\ Flushers' /\ Untouched' /\ Flushed'
    BY <1>0, <1>2 DEF FlushNothing, SandboxTypeOK, Flushers, Untouched, Flushed, sandboxVars, Pending
  <2> QED BY <1>0, <1>1, <2>1 DEF IInv
<1>3. CASE FlushStep
  <2>1. Flushed'
    BY <1>0, <1>3 DEF FlushStep, Flushed, graphVars
  <2>2. CASE ~cfg.deferApply /\ StartApply(Engine)
    <3>1. SandboxTypeOK' /\ Flushers' /\ Untouched'
      BY <1>0, <2>2, StartApplyTypes DEF Flushers, Untouched
    <3> QED BY <1>0, <1>1, <2>1, <3>1 DEF IInv
  <2>3. CASE WriteOne(Engine)
    <3>1. SandboxTypeOK' /\ Flushers'
      BY <1>0, <2>3, WriteOneTypes DEF Flushers
    <3>2. ~cfg.deferApply
      BY <1>0, <2>3 DEF Flushers, WriteOne
    <3>3. Untouched'
      BY <1>0, <3>2 DEF Untouched
    <3> QED BY <1>0, <1>1, <2>1, <3>1, <3>3 DEF IInv
  <2> QED BY <1>3, <2>2, <2>3 DEF FlushStep
<1>4. CASE Rollback(Engine)
  <2>1. SandboxTypeOK' /\ Flushers' /\ Untouched'
    BY <1>0, <1>4, RollbackTypes DEF Flushers, Untouched
  <2>2. Pending' = {}
    BY <1>0, <1>4, RollbackTypes DEF Pending, EmptyBranch
  <2> QED BY <1>0, <1>1, <2>1, <2>2 DEF IInv, Flushed
<1>5. CASE ApplyFails(Engine) /\ outcome' = "failed"
  <2>1. SandboxTypeOK' /\ Flushers' /\ Untouched' /\ Flushed'
    BY <1>0, <1>5, ApplyFailsTypes DEF Flushers, Untouched, Flushed
  <2> QED BY <1>0, <1>1, <2>1 DEF IInv
<1> QED BY <1>0, <1>2, <1>3, <1>4, <1>5 DEF FlushEnds

(* The pipeline gives up.                                                  *)
LEMMA FailKeeps ==
  ASSUME IInv, Fail, UNCHANGED sandboxVars
  PROVE  IInv'
<1>1. GraphTypeOK' /\ Batches'
  BY DEF IInv, Fail, GraphTypeOK, Batches, Finished, Outcomes
<1>2. SandboxTypeOK' /\ Flushers' /\ Untouched' /\ Flushed'
  BY DEF IInv, Fail, SandboxTypeOK, Flushers, Untouched, Flushed, sandboxVars
<1> QED BY <1>1, <1>2 DEF IInv

-----------------------------------------------------------------------------
\* The step of DependencyOrder that a step of the executor is.
Started == {u \in Units : status[u] \notin {"planned", "queued"}}
Verdict == IF Over THEN outcome ELSE "open"

LEMMA StartedShows ==
  /\ Order!vars = <<cfg.deps, Started, Finished, Verdict>>
  /\ Finished \subseteq Started
BY DEF Order!vars, Started, Finished, Verdict

(* Every step keeps the invariant, and is a step of DependencyOrder.       *)
LEMMA StartedMoves ==
  ASSUME NEW ending \in SUBSET Units, NEW starting \in SUBSET Units,
         Verdict # "succeeded", Verdict' = Verdict, UNCHANGED cfg,
         ending \subseteq Started \ Finished, starting \cap Started = {},
         \A u \in starting : cfg.deps[u] \subseteq Finished,
         Finished' = Finished \cup ending, Started' = Started \cup starting
  PROVE  Order!Next
BY DEF Order!Next, Order!Advance, Started, Verdict

\* What is proved of every step.
StepIsKept ==
  /\ IInv'
  /\ Order!Next \/ UNCHANGED Order!vars
  /\ outcome = "failed" => batched' = batched /\ outcome' = "failed"

LEMMA BatchStep ==
  ASSUME IInv, BeginBatch, batched \subseteq Finished, UNCHANGED sandboxVars,
         outcome \in {"planned", "running"}
  PROVE  StepIsKept
<1>1. /\ IInv' /\ Finished' = Finished /\ outcome' = "running" /\ UNCHANGED cfg
      /\ \A u \in Units : status[u] \notin {"planned", "queued"}
           => status'[u] \notin {"planned", "queued"}
      /\ \A u \in Units : status[u] \in {"planned", "queued"} /\ status'[u] \notin {"planned", "queued"}
           => cfg.deps[u] \subseteq Finished
  BY BeginBatchKeeps DEF BeginBatch
<1> DEFINE starting == Started' \ Started
<1>2. /\ starting \in SUBSET Units /\ starting \cap Started = {}
      /\ Started' = Started \cup starting
      /\ \A u \in starting : cfg.deps[u] \subseteq Finished
  BY <1>1 DEF Started
<1>3. Verdict # "succeeded" /\ Verdict' = Verdict
  BY <1>1 DEF Verdict, Over
<1> HIDE DEF starting
<1>4. Order!Next
  BY <1>1, <1>2, <1>3, StartedMoves
<1> QED BY <1>1, <1>4 DEF StepIsKept

LEMMA FinishStep ==
  ASSUME IInv, NEW u \in Units, status[u] \in {"working", "fixing", "reviewing"}, FinishUnit(u),
         UNCHANGED <<sandboxVars, cfg, outcome, batched, cycle>>
  PROVE  StepIsKept
<1>1. /\ IInv' /\ outcome \notin {"flushing", "succeeded"} /\ Finished' = Finished \cup {u}
      /\ \A v \in Units : status[v] \notin {"planned", "queued"}
           => status'[v] \notin {"planned", "queued"}
      /\ \A v \in Units : status[v] \in {"planned", "queued"} /\ status'[v] \notin {"planned", "queued"}
           => cfg.deps[v] \subseteq Finished
  BY FinishUnitKeeps
<1> DEFINE starting == Started' \ Started
<1>2. /\ starting \in SUBSET Units /\ starting \cap Started = {}
      /\ Started' = Started \cup starting
      /\ \A v \in starting : cfg.deps[v] \subseteq Finished
  BY <1>1 DEF Started
<1>3. Verdict # "succeeded" /\ Verdict' = Verdict
  BY <1>1 DEF Verdict, Over
<1>4. {u} \subseteq Started \ Finished
  BY DEF Started, Finished
<1> HIDE DEF starting
<1>5. Order!Next
  BY <1>1, <1>2, <1>3, <1>4, StartedMoves
<1> QED BY <1>1, <1>5 DEF StepIsKept

LEMMA GoesOnStep ==
  ASSUME IInv, NEW u \in Units, status[u] \in {"working", "fixing", "reviewing"},
         NEW s \in {"working", "fixing", "reviewing", "threw"},
         status' = [status EXCEPT ![u] = s],
         outcome' \in {outcome, "failed"},
         UNCHANGED <<sandboxVars, cfg, batched>>, cycle' \in [Units -> 1 .. MaxCycles],
         \A v \in Units \ {u} : cycle'[v] = cycle[v],
         s = "fixing" => cycle'[u] < MaxCycles
  PROVE  StepIsKept
<1>1. /\ IInv' /\ outcome \notin {"flushing", "succeeded"} /\ Finished' = Finished
      /\ \A v \in Units : status[v] \in {"planned", "queued"} <=> status'[v] \in {"planned", "queued"}
  BY UnitGoesOn
<1>2. Started' = Started
  BY <1>1 DEF Started
<1>3. CASE Verdict' = Verdict
  <2>1. UNCHANGED Order!vars
    BY <1>1, <1>2, <1>3 DEF Order!vars, Started, Verdict
  <2> QED BY <1>1, <2>1 DEF StepIsKept
<1>4. CASE Verdict' # Verdict
  <2>1. Verdict = "open" /\ Verdict' = "failed"
    BY <1>1, <1>4 DEF Verdict, Over
  <2>2. Order!Next
    BY <1>1, <1>2, <2>1 DEF Order!Next, Order!Fail, Started, Verdict
  <2> QED BY <1>1, <2>2 DEF StepIsKept
<1> QED BY <1>3, <1>4

LEMMA UnitStepKept == ASSUME IInv, NEW u \in Units, UnitStep(u) PROVE StepIsKept
<1>0. cycle \in [Units -> 1 .. MaxCycles] /\ MaxCycles \in Nat
  BY CyclesAssumption DEF IInv, GraphTypeOK
<1>1. CASE WorkerReturns(u)
  <2>1. status[u] \in {"working", "fixing", "reviewing"} /\ UNCHANGED <<sandboxVars, cfg, outcome, batched>>
    BY <1>1 DEF WorkerReturns, Working
  <2>2. CASE FinishUnit(u) /\ UNCHANGED cycle
    BY <1>0, <2>1, <2>2, FinishStep
  <2>3. CASE /\ status' = [status EXCEPT ![u] = "reviewing"]
             /\ cycle' = [cycle EXCEPT ![u] = IF status[u] = "fixing" THEN @ + 1 ELSE @]
    <3>1. status[u] = "fixing" => cycle[u] < MaxCycles
      BY DEF IInv, Batches
    <3>2. cycle' \in [Units -> 1 .. MaxCycles]
      BY <1>0, <2>3, <3>1
    <3> QED BY <2>1, <2>3, <3>2, GoesOnStep
  <2> QED BY <1>1, <2>2, <2>3 DEF WorkerReturns
<1>2. CASE ReviewReturns(u)
  <2>1. status[u] \in {"working", "fixing", "reviewing"} /\ UNCHANGED <<sandboxVars, cfg, outcome, batched, cycle>>
    BY <1>2 DEF ReviewReturns
  <2>2. CASE FinishUnit(u)
    BY <1>0, <2>1, <2>2, FinishStep
  <2>3. CASE cycle[u] < MaxCycles /\ status' = [status EXCEPT ![u] = "fixing"]
    BY <1>0, <2>1, <2>3, GoesOnStep
  <2> QED BY <1>2, <2>2, <2>3 DEF ReviewReturns
<1>3. CASE UnitThrows(u)
  BY <1>0, <1>3, GoesOnStep DEF UnitThrows
<1>4. CASE ToolCall(u) \/ ToolStep(u)
  <2>1. IInv' /\ UNCHANGED graphVars
    BY <1>4, ToolKeeps DEF ToolCall, ToolStep
  <2>2. UNCHANGED Order!vars
    BY <2>1 DEF graphVars, Order!vars, Finished, Over
  <2> QED BY <2>1, <2>2 DEF StepIsKept, graphVars
<1> QED BY <1>1, <1>2, <1>3, <1>4 DEF UnitStep

LEMMA FailStep ==
  ASSUME IInv, Fail, UNCHANGED sandboxVars, outcome \in {"planned", "running"}
  PROVE  StepIsKept
<1>1. Order!Next
  BY DEF Fail, Order!Next, Order!Fail, Over, Finished
<1> QED BY <1>1, FailKeeps DEF StepIsKept, Fail

LEMMA FlushStepKept ==
  ASSUME IInv, FlushNothing \/ FlushStep \/ FlushEnds
  PROVE  StepIsKept
<1>1. IInv' /\ outcome = "flushing" /\ Finished = Units /\ UNCHANGED <<cfg, batched, status, cycle>>
  BY FlushKeeps
<1>2. CASE outcome' = "flushing"
  BY <1>1, <1>2 DEF StepIsKept, Order!vars, Finished, Over
<1>3. CASE outcome' = "succeeded"
  BY <1>1, <1>3 DEF StepIsKept, Order!Next, Order!Succeed, Finished, Over
<1>4. CASE outcome' = "failed"
  BY <1>1, <1>4 DEF StepIsKept, Order!Next, Order!Fail, Finished, Over
<1> QED BY <1>1, <1>2, <1>3, <1>4 DEF FlushNothing, FlushStep, FlushEnds, graphVars

LEMMA EndsStep ==
  ASSUME IInv, outcome = "running", batched = Units, batched \subseteq Finished,
         outcome' = "flushing", UNCHANGED <<sandboxVars, cfg, batched, status, cycle>>
  PROVE  StepIsKept
<1>0. Finished' = Finished /\ Finished = Units
  BY DEF Finished
<1>1. GraphTypeOK' /\ Batches'
  BY <1>0 DEF IInv, GraphTypeOK, Batches, Outcomes
<1>2. SandboxTypeOK' /\ Flushers' /\ Untouched' /\ Flushed'
  BY DEF IInv, SandboxTypeOK, Flushers, Untouched, Flushed, sandboxVars
<1>3. UNCHANGED Order!vars
  BY DEF Order!vars, Finished, Over
<1> QED BY <1>1, <1>2, <1>3 DEF StepIsKept, IInv

THEOREM StepKept == IInv /\ [Next]_vars => StepIsKept
<1> SUFFICES ASSUME IInv, [Next]_vars PROVE StepIsKept
  OBVIOUS
<1>1. CASE UNCHANGED vars
  <2>1. SandboxTypeOK' /\ GraphTypeOK' /\ Batches'
    BY <1>1 DEF IInv, SandboxTypeOK, GraphTypeOK, Batches, Finished, vars, sandboxVars, graphVars
  <2>2. Flushers' /\ Untouched' /\ Flushed'
    BY <1>1 DEF IInv, Flushers, Untouched, Flushed, Pending, vars, sandboxVars, graphVars
  <2> QED BY <1>1, <2>1, <2>2 DEF StepIsKept, IInv, Order!vars, Finished, Over, vars, graphVars
<1>2. CASE Execute
  <2>1. batched \subseteq Finished
    BY <1>2 DEF Execute, IInv, Batches
  <2> QED BY <1>2, <2>1, FailStep, BatchStep DEF Execute
<1>3. CASE EndBatch
  BY <1>3, FailStep, BatchStep, EndsStep DEF EndBatch
<1> QED BY <1>1, <1>2, <1>3, UnitStepKept, FlushStepKept DEF Next, Rest

(* The invariant that the theorems below rest on holds in every state.     *)
THEOREM Invariant == Spec => []IInv
<1>1. IInv /\ [Next]_vars => IInv'
  BY StepKept DEF StepIsKept
<1> QED BY <1>1, InitInvariant, PTL DEF Spec

(* The sandbox and the executor keep their types: no review goes beyond    *)
(* the configured number of cycles.                                        *)
THEOREM TypeCorrect == Spec => []TypeOK
BY Invariant, InvariantShows, PTL

(* A pipeline that succeeds has finished every unit, has nothing left in   *)
(* the sandbox, and has not touched the disk when it was asked to preview. *)
THEOREM SuccessComplete == Spec => []SuccessIsComplete
BY Invariant, InvariantShows, PTL

(* A failed pipeline begins no batch and stays failed.                     *)
THEOREM FailureStops == Spec => FailureStopsBatches
<1>1. IInv /\ [Next]_vars => [outcome = "failed" => batched' = batched /\ outcome' = "failed"]_vars
  BY StepKept DEF StepIsKept
<1> QED BY <1>1, Invariant, PTL DEF Spec, FailureStopsBatches

(* The executor implements the promise of dependency order.                *)
THEOREM ImplementsOrder == Spec => InDependencyOrder
<1>1. Init => Order!Init
  BY GraphsAssumption DEF Init, Settings, Order!Init, Finished, Over
<1>2. IInv /\ [Next]_vars => [Order!Next]_(Order!vars)
  BY StepKept DEF StepIsKept
<1> QED BY <1>1, <1>2, Invariant, PTL DEF Spec, InDependencyOrder, Order!Spec

-----------------------------------------------------------------------------
(* The lanes.  A batch starts at most as many units as there are lanes,    *)
(* and a unit is taken from the queue only in the turn another one ends.   *)
Active(u) == status[u] \in {"working", "fixing", "reviewing"}
ActiveUnits == {u \in Units : Active(u)}
LanesBounded == Cardinality(ActiveUnits) <= cfg.cap

LEMMA WorkersFinite == IsFiniteSet(Units) /\ IsFiniteSet(Workers)
BY UnitsAssumption, FS_AddElement

LEMMA FewerUnits ==
  ASSUME NEW S \in SUBSET Units, NEW T \in SUBSET S
  PROVE  /\ IsFiniteSet(S) /\ IsFiniteSet(T)
         /\ Cardinality(S) \in Nat /\ Cardinality(T) \in Nat
         /\ Cardinality(T) <= Cardinality(S)
<1>1. IsFiniteSet(S)
  BY WorkersFinite, FS_Subset
<1>2. IsFiniteSet(T) /\ Cardinality(T) <= Cardinality(S)
  BY <1>1, FS_Subset
<1> QED BY <1>1, <1>2, FS_CardinalityType

LEMMA BeginBatchLanes ==
  ASSUME IInv, BeginBatch, batched \subseteq Finished
  PROVE  LanesBounded'
<1>1. PICK S \in SUBSET NextBatch :
          /\ \/ S = NextBatch /\ Cardinality(S) <= cfg.cap
             \/ Cardinality(S) = cfg.cap
          /\ status' = [u \in Units |-> IF u \in S THEN "working"
                                        ELSE IF u \in NextBatch THEN "queued"
                                        ELSE status[u]]
  BY DEF BeginBatch
<1>2. cfg.cap \in Nat /\ cfg' = cfg /\ S \subseteq Units
  BY CapsAssumption DEF IInv, GraphTypeOK, Settings, BeginBatch, NextBatch
<1>3. ActiveUnits' \subseteq S
  BY <1>1 DEF ActiveUnits, Active, IInv, Batches, Finished
<1>4. Cardinality(ActiveUnits') <= Cardinality(S) /\ Cardinality(S) \in Nat /\ Cardinality(ActiveUnits') \in Nat
  BY <1>2, <1>3, FewerUnits
<1>5. Cardinality(S) <= cfg.cap
  BY <1>1, <1>2
<1> QED BY <1>2, <1>4, <1>5 DEF LanesBounded

LEMMA FinishUnitLanes ==
  ASSUME IInv, LanesBounded, NEW u \in Units, Active(u), FinishUnit(u), cfg' = cfg
  PROVE  LanesBounded'
<1>0. status \in [Units -> Statuses] /\ u \in ActiveUnits /\ ActiveUnits \subseteq Units /\ cfg.cap \in Nat
  BY CapsAssumption DEF IInv, GraphTypeOK, Settings, ActiveUnits
<1> DEFINE A == ActiveUnits
           B == ActiveUnits \ {u}
<1>1. /\ IsFiniteSet(A) /\ IsFiniteSet(B)
      /\ Cardinality(A) \in Nat /\ Cardinality(B) = Cardinality(A) - 1
  BY <1>0, FewerUnits, FS_RemoveElement
<1>2. CASE status' = [status EXCEPT ![u] = "finished"]
  <2>1. ActiveUnits' = B
    BY <1>0, <1>2 DEF ActiveUnits, Active
  <2> HIDE DEF A, B
  <2> QED BY <1>0, <1>1, <2>1 DEF LanesBounded, A
<1>3. CASE \E v \in Queued : status' = [status EXCEPT ![u] = "finished", ![v] = "working"]
  <2>1. PICK v \in Queued : status' = [status EXCEPT ![u] = "finished", ![v] = "working"]
    BY <1>3
  <2>2. v \in Units /\ v \notin A
    BY DEF Queued, ActiveUnits, Active
  <2>3. ActiveUnits' = B \cup {v}
    BY <1>0, <2>1, <2>2 DEF ActiveUnits, Active
  <2>4. Cardinality(B \cup {v}) = Cardinality(B) + 1
    BY <1>1, <2>2, FS_AddElement
  <2> HIDE DEF A, B
  <2> QED BY <1>0, <1>1, <2>3, <2>4 DEF LanesBounded, A
<1> QED BY <1>2, <1>3 DEF FinishUnit

\* Whoever is active stays so or stops being so.
LEMMA NoNewLane ==
  ASSUME IInv, LanesBounded, ActiveUnits' \subseteq ActiveUnits, cfg' = cfg
  PROVE  LanesBounded'
<1>1. cfg.cap \in Nat /\ ActiveUnits \subseteq Units
  BY CapsAssumption DEF IInv, GraphTypeOK, Settings, ActiveUnits
<1>2. /\ Cardinality(ActiveUnits) \in Nat /\ Cardinality(ActiveUnits') \in Nat
      /\ Cardinality(ActiveUnits') <= Cardinality(ActiveUnits)
  BY <1>1, FewerUnits
<1> QED BY <1>1, <1>2 DEF LanesBounded

THEOREM LanesStep == IInv /\ LanesBounded /\ [Next]_vars => LanesBounded'
<1> SUFFICES ASSUME IInv, LanesBounded, [Next]_vars PROVE LanesBounded'
  OBVIOUS
<1>0. status \in [Units -> Statuses]
  BY DEF IInv, GraphTypeOK
<1>1. CASE UNCHANGED <<status, cfg>>
  BY <1>1 DEF LanesBounded, ActiveUnits, Active
<1>2. CASE Execute
  <2>1. batched \subseteq Finished
    BY <1>2 DEF Execute, IInv, Batches
  <2> QED BY <1>1, <1>2, <2>1, BeginBatchLanes DEF Execute, Fail
<1>3. CASE EndBatch
  BY <1>1, <1>3, BeginBatchLanes DEF EndBatch, Fail
<1>4. ASSUME NEW u \in Units, UnitStep(u) PROVE LanesBounded'
  <2>1. CASE FinishUnit(u) /\ cfg' = cfg /\ Active(u)
    BY <2>1, FinishUnitLanes
  <2>2. CASE /\ Active(u) /\ cfg' = cfg
             /\ \E s \in {"working", "fixing", "reviewing", "threw"} : status' = [status EXCEPT ![u] = s]
    <3>1. ActiveUnits' \subseteq ActiveUnits
      BY <1>0, <2>2 DEF ActiveUnits, Active
    <3> QED BY <2>2, <3>1, NoNewLane
  <2>3. CASE WorkerReturns(u)
    BY <2>1, <2>2, <2>3 DEF WorkerReturns, Working, Active
  <2>4. CASE ReviewReturns(u)
    BY <2>1, <2>2, <2>4 DEF ReviewReturns, Active
  <2>5. CASE UnitThrows(u)
    BY <2>2, <2>5 DEF UnitThrows, Active
  <2>6. CASE ToolCall(u) \/ ToolStep(u)
    BY <1>1, <2>6 DEF ToolCall, ToolStep, graphVars
  <2> QED BY <1>4, <2>3, <2>4, <2>5, <2>6 DEF UnitStep
<1>5. CASE FlushNothing \/ FlushStep \/ FlushEnds
  BY <1>1, <1>5, FlushKeeps
<1> QED BY <1>1, <1>2, <1>3, <1>4, <1>5 DEF Next, Rest, vars, graphVars

(* No more units are being worked on, reviewed or fixed at a time than     *)
(* CREW_MAX_PARALLEL_WORKERS says, whatever the lanes do after a failure.  *)
THEOREM LanesKept == Spec => []LanesBounded
<1>1. Init => LanesBounded
  <2> SUFFICES ASSUME Init PROVE LanesBounded
    OBVIOUS
  <2>1. ActiveUnits = {} /\ cfg.cap \in Nat
    BY CapsAssumption DEF Init, Settings, ActiveUnits, Active
  <2> QED BY <2>1, FS_EmptySet DEF LanesBounded
<1> QED BY <1>1, LanesStep, Invariant, PTL DEF Spec

-----------------------------------------------------------------------------
(* What becomes of the edits.  Undisturbed is where NothingLost promises   *)
(* something: one lane, or no shell command.                               *)
Undisturbed == cfg.cap = 1 \/ ~cfg.shell

\* Only a unit at work has a call under way, and the engine only in the flush.
Quiet ==
  /\ \A u \in Units : op[u] = Idle \/ Working(u)
  /\ op[Engine] = Idle \/ (op[Engine].at = "applying" /\ outcome = "flushing")

\* apply() still has to write what is staged, and has written the rest of it.
StillStaged(todo, branch, written) ==
  /\ DOMAIN todo \subseteq DOMAIN branch
  /\ \A f \in DOMAIN todo : todo[f] = branch[f]
  /\ \A f \in DOMAIN branch \ DOMAIN todo : written[f] = branch[f]

Matched == Undisturbed => \A w \in Workers : op[w].at = "applying" => StillStaged(op[w].todo, staged, disk)

\* What a call is about to store holds the caller's edit and, on one lane,
\* everybody's; the record it stores into is still the branch's.
Draft(w, o) ==
  /\ o.at = "storing" => w \in o.text /\ (Undisturbed => o.live)
  /\ o.at \in {"read", "storing"} /\ cfg.cap = 1 /\ o.file \notin NewFiles
       => edited[o.file] \subseteq o.text

Drafts == \A w \in Workers : Draft(w, op[w])

EditsInv == Quiet /\ Matched /\ Drafts /\ NothingLost

(* Of at most one editor, nobody is another one.                           *)
LEMMA FewEditors ==
  ASSUME NEW S \in SUBSET Workers, NEW T \in SUBSET S, Cardinality(S) <= 1
  PROVE  Cardinality(T) <= 1 /\ \A v, w \in S : v = w
<1>1. IsFiniteSet(S)
  BY WorkersFinite, FS_Subset
<1>2. IsFiniteSet(T) /\ Cardinality(T) <= Cardinality(S)
  BY <1>1, FS_Subset
<1>3. Cardinality(S) \in Nat /\ Cardinality(T) \in Nat
  BY <1>1, <1>2, FS_CardinalityType
<1>4. S = {} \/ \E x : S = {x}
  <2>1. Cardinality(S) = 0 \/ Cardinality(S) = 1
    BY <1>3
  <2> QED BY <1>1, <2>1, FS_EmptySet, FS_Singleton
<1> QED BY <1>2, <1>3, <1>4

LEMMA OneActive ==
  ASSUME IInv, LanesBounded, cfg.cap = 1, NEW u \in Units, NEW v \in Units, Active(u), Active(v)
  PROVE  u = v
<1>1. ActiveUnits \in SUBSET Workers /\ Cardinality(ActiveUnits) <= 1
  BY AreWorkers DEF ActiveUnits, LanesBounded
<1> QED BY <1>1, FewEditors DEF ActiveUnits

(* On one lane one call is under way at a time; the flush has the sandbox  *)
(* for itself.                                                             *)
LEMMA Solo ==
  ASSUME IInv, LanesBounded, Quiet
  PROVE  /\ \A u \in Units : Active(u) => op[Engine] = Idle
         /\ cfg.cap = 1 => \A v, w \in Workers : op[v] # Idle /\ op[w] # Idle => v = w
         /\ Undisturbed => \A w \in Workers : op[w].at = "applying"
                                => \A v \in Workers \ {w} : op[v] = Idle
         /\ ~cfg.shell => \A u \in Units : op[u].at # "applying"
<1>1. ASSUME NEW u \in Units, Active(u) PROVE op[Engine] = Idle
  BY <1>1 DEF IInv, Batches, Finished, Quiet, Active
<1>2. \A u \in Units : op[u] # Idle => Active(u)
  BY DEF Quiet, Working, Active
<1>3. \A w \in Workers : w = Engine \/ w \in Units
  BY UnitsAssumption
<1>4. cfg.cap = 1 => \A v, w \in Workers : op[v] # Idle /\ op[w] # Idle => v = w
  BY <1>1, <1>2, <1>3, OneActive
<1>5. ~cfg.shell => \A u \in Units : op[u].at # "applying"
  BY AreWorkers DEF IInv, Flushers
<1>6. \A w \in Workers : op[w].at = "applying" => op[w] # Idle
  BY IdleType
<1>7. ASSUME ~cfg.shell, NEW w \in Workers, op[w].at = "applying", NEW v \in Workers \ {w}
      PROVE  op[v] = Idle
  BY <1>1, <1>2, <1>3, <1>5, <1>6, <1>7
<1> QED BY <1>1, <1>4, <1>5, <1>6, <1>7 DEF Undisturbed

-----------------------------------------------------------------------------
(* A step that moves neither an edit nor what is seen of a file.           *)
LEMMA StillKept ==
  ASSUME SandboxTypeOK', NothingLost, edited' = edited, cfg' = cfg,
         \A f \in Files : Editors(f) \subseteq Editors(f)',
         \A f \in Files : Spared(f) => Visible(f)' = Visible(f)
  PROVE  NothingLost'
<1> SUFFICES ASSUME NEW f \in Files, Spared(f)' PROVE Kept(f)'
  BY DEF NothingLost
<1>1. Spared(f)
  <2>1. Editors(f)' \in SUBSET Workers
    BY DEF SandboxTypeOK, Editors, Texts
  <2>2. Cardinality(Editors(f)') <= 1 => Cardinality(Editors(f)) <= 1
    BY <2>1, FewEditors
  <2> QED BY <2>2 DEF Spared
<1>2. Kept(f)
  BY <1>1 DEF NothingLost
<1> QED BY <1>1, <1>2 DEF Kept

\* A text is staged for a worker whose call was about this file.
LEMMA StageKeeps ==
  ASSUME SandboxTypeOK, NEW w \in Workers, NEW f \in Files, NEW text \in Texts,
         Stage(w, f, text), cfg' = cfg, Drafts, NothingLost,
         cfg.cap = 1 => \A v \in Workers \ {w} : op[v] = Idle,
         op[w] = Idle \/ op[w].file = f,
         w \in text,
         cfg.cap = 1 /\ f \notin NewFiles => edited[f] \subseteq text
  PROVE  Drafts' /\ NothingLost'
<1>0. /\ op \in [Workers -> Ops] /\ edited \in [Files -> Texts] /\ SandboxTypeOK'
      /\ op' = [op EXCEPT ![w] = Idle] /\ disk' = disk
  BY StageTypes DEF SandboxTypeOK
<1>1. /\ edited' = [edited EXCEPT ![f] = @ \cup {w}]
      /\ staged' = [g \in Pending \cup {f} |-> IF g = f THEN text ELSE staged[g]]
  BY DEF Stage
<1>2. Drafts'
  <2> SUFFICES ASSUME NEW v \in Workers PROVE Draft(v, op[v])'
    BY DEF Drafts
  <2>1. CASE op'[v] = Idle
    BY <2>1, IdleType DEF Draft
  <2>2. CASE op'[v] # Idle
    <3>1. v # w /\ op'[v] = op[v] /\ cfg.cap # 1
      BY <1>0, <2>2
    <3> QED BY <3>1 DEF Drafts, Draft, Undisturbed
  <2> QED BY <2>1, <2>2
<1>3. ASSUME NEW g \in Files, Spared(g)' PROVE Kept(g)'
  <2>1. CASE g = f
    <3>1. edited'[f] = edited[f] \cup {w} /\ Visible(f)' = text
      BY <1>0, <1>1 DEF Visible, Pending
    <3>2. CASE cfg.cap = 1 /\ f \notin NewFiles
      BY <2>1, <3>1, <3>2 DEF Kept
    <3>3. CASE Cardinality(Editors(f)') <= 1
      <4>1. Editors(f)' \in SUBSET Workers /\ edited'[f] \subseteq Editors(f)' /\ w \in Editors(f)'
        BY <1>0, <3>1 DEF SandboxTypeOK, Editors, Texts
      <4>2. edited'[f] \subseteq {w}
        BY <3>3, <4>1, FewEditors
      <4> QED BY <2>1, <3>1, <4>2 DEF Kept
    <3> QED BY <1>3, <2>1, <3>2, <3>3 DEF Spared
  <2>2. CASE g # f
    <3>1. edited'[g] = edited[g]
      BY <1>0, <1>1, <2>2
    <3>2. Visible(g)' = Visible(g)
      BY <1>0, <1>1, <2>2 DEF Visible, Pending
    <3>3. Editors(g)' = Editors(g)
      BY <1>0, <2>2, <3>1, IdleType DEF Editors
    <3>4. Spared(g)
      BY <1>3, <3>3 DEF Spared
    <3> QED BY <3>1, <3>2, <3>4 DEF NothingLost, Kept
  <2> QED BY <2>1, <2>2
<1> QED BY <1>2, <1>3 DEF NothingLost

\* A call takes a text up, or goes on with it.
LEMMA DraftKeeps ==
  ASSUME SandboxTypeOK, SandboxTypeOK', NEW w \in Workers, NEW o \in Ops,
         op' = [op EXCEPT ![w] = o], UNCHANGED <<disk, staged, edited, cfg>>,
         Drafts, NothingLost,
         o.at \in {"read", "storing"},
         op[w] = Idle \/ op[w].file = o.file,
         Draft(w, o)
  PROVE  Drafts' /\ NothingLost'
<1>0. op \in [Workers -> Ops]
  BY DEF SandboxTypeOK
<1>1. Drafts'
  BY <1>0 DEF Drafts, Draft, Undisturbed
<1>2. \A f \in Files : Editors(f) \subseteq Editors(f)'
  BY <1>0, IdleType DEF Editors
<1>3. \A f \in Files : Visible(f)' = Visible(f)
  BY DEF Visible, Pending
<1> QED BY <1>1, <1>2, <1>3, StillKept

(* The calls that edit.                                                    *)
LEMMA EditingKeeps ==
  ASSUME SandboxTypeOK, NEW w \in Workers, Editing(w), cfg' = cfg, Drafts, NothingLost,
         cfg.cap = 1 => \A v \in Workers \ {w} : op[v] = Idle,
         Undisturbed => \A v \in Workers : op[v].at # "applying"
  PROVE  Matched' /\ Drafts' /\ NothingLost'
<1>0. /\ op \in [Workers -> Ops] /\ disk \in [Files -> Texts] /\ edited \in [Files -> Texts]
      /\ staged \in Branch /\ SandboxTypeOK' /\ Draft(w, op[w])
  BY EditingTypes DEF SandboxTypeOK, Drafts
<1>1. Matched'
  <2>1. PICK o \in Ops : o.at # "applying" /\ op' = [op EXCEPT ![w] = o]
    BY EditingTypes
  <2>2. Undisturbed' => \A v \in Workers : op'[v].at # "applying"
    BY <1>0, <2>1 DEF Undisturbed
  <2> QED BY <2>2 DEF Matched
<1>2. ASSUME NEW f \in Files, Spared(f), NEW g \in Files, g = f PROVE edited[g] \subseteq Visible(g)
  BY <1>2 DEF NothingLost, Kept
<1>3. ASSUME NEW f \in Files, EditStaged(w, f) PROVE Drafts' /\ NothingLost'
  <2>1. staged[f] \cup {w} \in Texts
    BY <1>0, <1>3, BranchElim DEF EditStaged, Texts, Pending
  <2>2. cfg.cap = 1 /\ f \notin NewFiles => edited[f] \subseteq staged[f]
    BY <1>2, <1>3 DEF Spared, Visible, EditStaged
  <2> QED BY <1>3, <2>1, <2>2, StageKeeps DEF EditStaged
<1>4. ASSUME NEW f \in Files, ReadFile(w, f) PROVE Drafts' /\ NothingLost'
  <2> DEFINE o == [at |-> "read", file |-> f, text |-> disk[f]]
  <2>1. o \in Ops
    BY <1>0 DEF Ops
  <2>2. cfg.cap = 1 /\ f \notin NewFiles => edited[f] \subseteq disk[f]
    BY <1>2, <1>4 DEF Spared, Visible, ReadFile
  <2>3. Draft(w, o)
    BY <2>2 DEF Draft
  <2>4. o.at = "read" /\ o.file = f
    OBVIOUS
  <2>5. op' = [op EXCEPT ![w] = o] /\ UNCHANGED <<disk, staged, edited>> /\ op[w] = Idle
    BY <1>4 DEF ReadFile
  <2> HIDE DEF o
  <2> QED BY <1>0, <2>1, <2>3, <2>4, <2>5, DraftKeeps
<1>5. ASSUME NEW f \in Files, WriteFile(w, f) PROVE Drafts' /\ NothingLost'
  <2> DEFINE o == [at |-> "storing", file |-> f, text |-> {w}, live |-> TRUE]
  <2>0. f \in NewFiles /\ op[w] = Idle /\ {w} \in Texts
    BY <1>5 DEF WriteFile, OnDisk, Texts
  <2>1. o \in Ops
    BY <2>0 DEF Ops
  <2>2. Draft(w, o) /\ o.at = "storing" /\ o.file = f
    BY <2>0 DEF Draft
  <2>3. CASE Stage(w, f, {w})
    BY <2>0, <2>3, StageKeeps
  <2>4. CASE op' = [op EXCEPT ![w] = o] /\ UNCHANGED <<disk, staged, edited>>
    <3> HIDE DEF o
    <3> QED BY <1>0, <2>0, <2>1, <2>2, <2>4, DraftKeeps
  <2> QED BY <1>5, <2>3, <2>4 DEF WriteFile
<1>6. CASE AddChange(w)
  <2> DEFINE f == op[w].file
             text == op[w].text \cup {w}
             o == [at |-> "storing", file |-> f, text |-> text, live |-> TRUE]
  <2>0. f \in Files /\ text \in Texts /\ w \in text /\ op[w].at = "read"
    BY <1>0, <1>6, OpForms DEF AddChange, Texts
  <2>1. o \in Ops
    BY <2>0 DEF Ops
  <2>2. cfg.cap = 1 /\ f \notin NewFiles => edited[f] \subseteq text
    BY <1>0, <2>0 DEF Draft
  <2>3. Draft(w, o) /\ o.at = "storing" /\ o.file = f
    BY <2>0, <2>2 DEF Draft
  <2>4. CASE Stage(w, f, text)
    <3> HIDE DEF f, text
    <3>1. op[w].file = f
      BY DEF f
    <3> QED BY <1>1, <2>0, <2>2, <2>4, <3>1, StageKeeps
  <2>5. CASE op' = [op EXCEPT ![w] = o] /\ UNCHANGED <<disk, staged, edited>>
    <3>1. op[w].file = o.file
      OBVIOUS
    <3> HIDE DEF o
    <3> QED BY <1>0, <1>1, <2>1, <2>3, <2>5, <3>1, DraftKeeps
  <2> QED BY <1>6, <2>4, <2>5 DEF AddChange
<1>7. CASE StoreChange(w)
  <2>0. op[w].at = "storing" /\ op[w].file \in Files /\ op[w].text \in Texts /\ w \in op[w].text
    BY <1>0, <1>7, OpForms DEF StoreChange, Draft
  <2>1. cfg.cap = 1 /\ op[w].file \notin NewFiles => edited[op[w].file] \subseteq op[w].text
    BY <1>0, <2>0 DEF Draft
  <2>2. CASE Stage(w, op[w].file, op[w].text)
    BY <1>1, <2>0, <2>1, <2>2, StageKeeps
  <2>3. CASE ~op[w].live /\ op' = [op EXCEPT ![w] = Idle]
    <3>1. ~Undisturbed
      BY <1>0, <2>0, <2>3 DEF Draft
    <3>2. NothingLost'
      BY <3>1 DEF NothingLost, Spared, Undisturbed
    <3>3. Drafts'
      BY <1>0, <2>3, <3>1, IdleType DEF Drafts, Draft, Undisturbed
    <3> QED BY <1>1, <3>2, <3>3
  <2> QED BY <1>7, <2>2, <2>3 DEF StoreChange
<1> QED BY <1>1, <1>3, <1>4, <1>5, <1>6, <1>7 DEF Editing

(* The steps of apply().                                                   *)
LEMMA StartApplyKeeps ==
  ASSUME SandboxTypeOK, NEW w \in Workers, StartApply(w), cfg' = cfg, Matched, Drafts, NothingLost
  PROVE  Matched' /\ Drafts' /\ NothingLost'
<1> DEFINE o == [at |-> "applying", todo |-> staged]
<1>0. /\ op \in [Workers -> Ops] /\ SandboxTypeOK' /\ op[w] = Idle
      /\ op' = [op EXCEPT ![w] = o] /\ UNCHANGED <<disk, staged, edited>>
  BY StartApplyTypes DEF StartApply, SandboxTypeOK
<1>1. o.at = "applying" /\ o.todo = staged
  OBVIOUS
<1> HIDE DEF o
<1>2. Drafts'
  BY <1>0, <1>1 DEF Drafts, Draft, Undisturbed
<1>3. Matched'
  <2> SUFFICES ASSUME Undisturbed', NEW v \in Workers, op'[v].at = "applying"
               PROVE  StillStaged(op'[v].todo, staged', disk')
    BY DEF Matched
  <2>1. CASE v = w
    BY <1>0, <1>1, <2>1 DEF StillStaged, Pending
  <2>2. CASE v # w
    <3>1. StillStaged(op[v].todo, staged, disk) /\ op'[v] = op[v]
      BY <1>0, <2>2 DEF Matched, Undisturbed
    <3> QED BY <1>0, <3>1 DEF StillStaged, Pending
  <2> QED BY <2>1, <2>2
<1>4. \A f \in Files : Editors(f) \subseteq Editors(f)'
  BY <1>0, <1>1, IdleType DEF Editors
<1>5. \A f \in Files : Visible(f)' = Visible(f)
  BY <1>0 DEF Visible, Pending
<1> QED BY <1>0, <1>2, <1>3, <1>4, <1>5, StillKept

LEMMA WriteOneKeeps ==
  ASSUME SandboxTypeOK, NEW w \in Workers, WriteOne(w), cfg' = cfg, Matched, Drafts, NothingLost,
         Undisturbed => \A v \in Workers \ {w} : op[v] = Idle
  PROVE  Matched' /\ Drafts' /\ NothingLost'
<1>0. /\ op \in [Workers -> Ops] /\ disk \in [Files -> Texts] /\ op[w].at = "applying"
      /\ SandboxTypeOK' /\ UNCHANGED <<staged, edited>>
      /\ op[w].todo \in Branch /\ DOMAIN op[w].todo \subseteq Files
      /\ op[w] = [at |-> "applying", todo |-> op[w].todo]
  BY WriteOneTypes, OpForms, BranchElim DEF SandboxTypeOK, WriteOne
<1>1. PICK f \in DOMAIN op[w].todo :
          /\ disk' = [disk EXCEPT ![f] = op[w].todo[f]]
          /\ op' = [op EXCEPT ![w].todo = [g \in DOMAIN @ \ {f} |-> @[g]]]
  BY DEF WriteOne
<1> DEFINE todo == op[w].todo
           rest == [g \in DOMAIN todo \ {f} |-> todo[g]]
<1>2. op' = [op EXCEPT ![w] = [at |-> "applying", todo |-> rest]]
  <2>1. op' = [op EXCEPT ![w] = [op[w] EXCEPT !.todo = rest]]
    BY <1>1
  <2>2. [op[w] EXCEPT !.todo = rest] = [at |-> "applying", todo |-> rest]
    BY <1>0
  <2> QED BY <2>1, <2>2
<1>3. DOMAIN rest = DOMAIN todo \ {f} /\ \A g \in DOMAIN rest : rest[g] = todo[g]
  OBVIOUS
<1> HIDE DEF rest
<1>4. op'[w].at = "applying" /\ op'[w].todo = rest /\ \A v \in Workers \ {w} : op'[v] = op[v]
  BY <1>0, <1>2
<1>5. Undisturbed => StillStaged(todo, staged, disk)
  BY <1>0 DEF Matched
<1>6. Matched'
  <2> SUFFICES ASSUME Undisturbed', NEW v \in Workers, op'[v].at = "applying"
               PROVE  StillStaged(op'[v].todo, staged', disk')
    BY DEF Matched
  <2>1. v = w /\ StillStaged(todo, staged, disk)
    BY <1>4, <1>5, IdleType DEF Undisturbed
  <2>2. StillStaged(rest, staged', disk')
    BY <1>0, <1>1, <1>3, <2>1 DEF StillStaged, Pending
  <2> QED BY <1>4, <2>1, <2>2
<1>7. Drafts'
  BY <1>0, <1>4 DEF Drafts, Draft, Undisturbed
<1>8. \A g \in Files : Editors(g) \subseteq Editors(g)'
  BY <1>0, <1>4 DEF Editors
<1>9. \A g \in Files : Spared(g) => Visible(g)' = Visible(g)
  BY <1>0, <1>1, <1>5 DEF StillStaged, Visible, Pending, Spared, Undisturbed
<1> QED BY <1>0, <1>6, <1>7, <1>8, <1>9, StillKept

LEMMA RollbackKeeps ==
  ASSUME SandboxTypeOK, NEW w \in Workers, Rollback(w), cfg' = cfg, Matched, Drafts, NothingLost,
         Undisturbed => \A v \in Workers \ {w} : op[v] = Idle
  PROVE  Matched' /\ Drafts' /\ NothingLost'
<1>0. /\ op \in [Workers -> Ops] /\ op[w].at = "applying" /\ op[w].todo = EmptyBranch
      /\ SandboxTypeOK' /\ UNCHANGED <<disk, edited>> /\ staged' = EmptyBranch
      /\ \A v \in Workers : op[v] = Idle => op'[v] = Idle
  BY RollbackTypes DEF SandboxTypeOK, Rollback
<1>1. \A v \in Workers :
        op'[v] = IF v = w THEN Idle
                 ELSE IF op[v].at = "storing" THEN [op[v] EXCEPT !.live = FALSE]
                 ELSE op[v]
  BY DEF Rollback
<1>2. CASE Undisturbed
  <2>1. \A v \in Workers : op'[v] = Idle
    BY <1>0, <1>1, <1>2
  <2>2. Matched' /\ Drafts'
    BY <2>1, IdleType DEF Matched, Drafts, Draft
  <2>3. \A f \in Files : Editors(f) \subseteq Editors(f)'
    BY <1>0, <1>2, IdleType DEF Editors
  <2>4. StillStaged(EmptyBranch, staged, disk) /\ Pending' = {}
    BY <1>0, <1>2 DEF Matched, Pending, EmptyBranch
  <2>5. \A f \in Files : Visible(f)' = Visible(f)
    BY <1>0, <2>4 DEF Visible, Pending, StillStaged, EmptyBranch
  <2> QED BY <1>0, <2>2, <2>3, <2>5, StillKept
<1>3. CASE ~Undisturbed
  <2>1. NothingLost' /\ Matched'
    BY <1>3 DEF NothingLost, Spared, Undisturbed, Matched
  <2>2. ASSUME NEW v \in Workers PROVE Draft(v, op[v])'
    <3>1. CASE v = w
      BY <1>1, <3>1, IdleType DEF Draft
    <3>2. CASE v # w /\ op[v].at = "storing"
      <4>1. op'[v] = [op[v] EXCEPT !.live = FALSE] /\ v \in op[v].text
        BY <1>1, <3>2 DEF Drafts, Draft
      <4>2. op'[v].text = op[v].text
        BY <1>0, <3>2, <4>1, OpForms
      <4> QED BY <1>3, <4>1, <4>2 DEF Draft, Undisturbed
    <3>3. CASE v # w /\ op[v].at # "storing"
      BY <1>1, <1>3, <3>3 DEF Draft, Undisturbed
    <3> QED BY <3>1, <3>2, <3>3
  <2> QED BY <2>1, <2>2 DEF Drafts
<1> QED BY <1>2, <1>3

LEMMA ApplyFailsKeeps ==
  ASSUME SandboxTypeOK, NEW w \in Workers, ApplyFails(w), cfg' = cfg, Matched, Drafts, NothingLost
  PROVE  Matched' /\ Drafts' /\ NothingLost'
<1>0. /\ op \in [Workers -> Ops] /\ SandboxTypeOK' /\ op[w].at = "applying"
      /\ op' = [op EXCEPT ![w] = Idle] /\ UNCHANGED <<disk, staged, edited>>
  BY ApplyFailsTypes DEF ApplyFails, SandboxTypeOK
<1>1. Drafts'
  BY <1>0, IdleType DEF Drafts, Draft, Undisturbed
<1>2. Matched'
  <2> SUFFICES ASSUME Undisturbed', NEW v \in Workers, op'[v].at = "applying"
               PROVE  StillStaged(op'[v].todo, staged', disk')
    BY DEF Matched
  <2>1. v # w /\ op'[v] = op[v]
    BY <1>0, IdleType
  <2>2. StillStaged(op[v].todo, staged, disk)
    BY <2>1 DEF Matched, Undisturbed
  <2> QED BY <1>0, <2>1, <2>2 DEF StillStaged, Pending
<1>3. \A f \in Files : Editors(f) \subseteq Editors(f)'
  BY <1>0 DEF Editors
<1>4. \A f \in Files : Visible(f)' = Visible(f)
  BY <1>0 DEF Visible, Pending
<1> QED BY <1>0, <1>1, <1>2, <1>3, <1>4, StillKept

-----------------------------------------------------------------------------
(* The steps of the executor that leave the sandbox alone.                 *)
LEMMA SandboxKeeps ==
  ASSUME EditsInv, UNCHANGED <<sandboxVars, cfg>>, Quiet'
  PROVE  EditsInv'
<1>1. Undisturbed' = Undisturbed /\ Matched' /\ Drafts'
  BY DEF EditsInv, Matched, Drafts, Draft, Undisturbed, sandboxVars
<1>2. NothingLost'
  BY DEF EditsInv, NothingLost, Spared, Kept, Editors, Visible, Pending, sandboxVars
<1> QED BY <1>1, <1>2 DEF EditsInv

\* Everybody who is at work afterwards was so before, or has no call under way.
LEMMA QuietKeeps ==
  ASSUME Quiet, op' = op,
         \A u \in Units : op[u] # Idle => status'[u] = status[u],
         op[Engine] = Idle \/ outcome' = outcome
  PROVE  Quiet'
BY DEF Quiet, Working

\* A unit whose call is over goes on, or ends and hands on its lane.
LEMMA TurnKeeps ==
  ASSUME IInv, LanesBounded, EditsInv, NEW u \in Units, Active(u), op[u] = Idle,
         UNCHANGED <<sandboxVars, cfg>>,
         \/ FinishUnit(u)
         \/ \E s \in Statuses : status' = [status EXCEPT ![u] = s]
  PROVE  EditsInv'
<1>0. status \in [Units -> Statuses] /\ op[Engine] = Idle /\ Quiet
  BY Solo DEF IInv, GraphTypeOK, EditsInv
<1>1. \A v \in Units : op[v] # Idle => status'[v] = status[v]
  <2>1. \A v \in Queued : op[v] = Idle
    BY <1>0 DEF Queued, Quiet, Working
  <2> QED BY <1>0, <2>1 DEF FinishUnit
<1>2. Quiet'
  BY <1>0, <1>1, QuietKeeps DEF sandboxVars
<1> QED BY <1>2, SandboxKeeps

LEMMA BatchEdits ==
  ASSUME IInv, EditsInv, BeginBatch \/ Fail \/ UNCHANGED status,
         UNCHANGED <<sandboxVars, cfg>>, outcome # "flushing"
  PROVE  EditsInv'
<1>1. Quiet /\ op[Engine] = Idle
  BY DEF EditsInv, Quiet
<1>2. \A u \in Units : op[u] # Idle => status'[u] = status[u]
  <2>1. CASE BeginBatch
    <3>1. \A u \in NextBatch : op[u] = Idle
      BY <1>1 DEF NextBatch, IInv, Batches, Quiet, Working
    <3> QED BY <2>1, <3>1 DEF BeginBatch
  <2> QED BY <2>1 DEF Fail
<1>3. Quiet'
  BY <1>1, <1>2, QuietKeeps DEF sandboxVars
<1> QED BY <1>3, SandboxKeeps

(* A call of a unit.                                                       *)
LEMMA ToolEdits ==
  ASSUME IInv, LanesBounded, EditsInv, NEW u \in Units, ToolCall(u) \/ ToolStep(u)
  PROVE  EditsInv'
<1>0. /\ SandboxTypeOK /\ SandboxTypeOK' /\ u \in Workers /\ u # Engine
      /\ Matched /\ Drafts /\ NothingLost /\ Quiet
      /\ UNCHANGED graphVars /\ cfg' = cfg /\ Working(u) /\ Active(u)
      /\ op \in [Workers -> Ops] /\ op[Engine] = Idle
  BY AreWorkers, ToolKeeps, Solo DEF EditsInv, IInv, SandboxTypeOK, ToolCall, ToolStep, graphVars, Working, Active
<1>1. /\ cfg.cap = 1 => \A v \in Workers \ {u} : op[v] = Idle
      /\ \A v \in Workers : v = Engine \/ v \in Units
  <2>1. \A v \in Units : Active(v) /\ cfg.cap = 1 => v = u
    BY <1>0, OneActive
  <2> QED BY <1>0, <2>1, UnitsAssumption DEF Quiet, Working, Active
<1>2. Undisturbed => \A v \in Workers \ {u} : op[v].at # "applying"
  BY <1>0, <1>1, Solo, IdleType DEF Undisturbed
<1>3. ASSUME Matched', Drafts', NothingLost',
             \A v \in Workers : op[v] = Idle /\ v # u => op'[v] = Idle
      PROVE  EditsInv'
  <2>1. Quiet'
    BY <1>0, <1>3, AreWorkers DEF Quiet, Working, graphVars
  <2> QED BY <1>3, <2>1 DEF EditsInv
<1>4. CASE Editing(u) /\ op[u].at # "applying"
  <2>1. \A v \in Workers : op[v] = Idle /\ v # u => op'[v] = Idle
    BY <1>0, <1>4, EditingTypes
  <2> QED BY <1>0, <1>1, <1>2, <1>3, <1>4, <2>1, EditingKeeps
<1>5. CASE StartApply(u)
  BY <1>0, <1>3, <1>5, StartApplyKeeps, StartApplyTypes
<1>6. CASE WriteOne(u) \/ Rollback(u)
  <2>1. Undisturbed => \A v \in Workers \ {u} : op[v] = Idle
    BY <1>0, <1>6, Solo DEF WriteOne, Rollback
  <2>2. \A v \in Workers : op[v] = Idle /\ v # u => op'[v] = Idle
    BY <1>0, <1>6, RollbackTypes DEF WriteOne
  <2> QED BY <1>0, <1>3, <1>6, <2>1, <2>2, WriteOneKeeps, RollbackKeeps
<1>7. CASE ApplyFails(u)
  BY <1>0, <1>3, <1>7, ApplyFailsKeeps DEF ApplyFails
<1>8. Editing(u) => op[u].at # "applying"
  BY IdleType DEF Editing, EditStaged, ReadFile, WriteFile, AddChange, StoreChange
<1> QED BY <1>4, <1>5, <1>6, <1>7, <1>8 DEF ToolCall, ToolStep, Editing

(* The flush at the end, when every unit is over.                          *)
LEMMA FlushEdits ==
  ASSUME IInv, LanesBounded, EditsInv, FlushNothing \/ FlushStep \/ FlushEnds
  PROVE  EditsInv'
<1>0. /\ SandboxTypeOK /\ SandboxTypeOK' /\ Engine \in Workers /\ Quiet
      /\ Matched /\ Drafts /\ NothingLost
      /\ outcome = "flushing" /\ UNCHANGED <<cfg, status>> /\ op \in [Workers -> Ops]
      /\ \A v \in Workers : v = Engine \/ v \in Units
  BY AreWorkers, UnitsAssumption, FlushKeeps DEF EditsInv, IInv, SandboxTypeOK
<1>1. \A u \in Units : op[u] = Idle
  BY <1>0 DEF IInv, Batches, Finished, Quiet, Working
<1>2. \A v \in Workers \ {Engine} : op[v] = Idle
  BY <1>0, <1>1
<1>3. ASSUME Matched', Drafts', NothingLost',
             \A u \in Units : op'[u] = Idle,
             op'[Engine] = Idle \/ (op'[Engine].at = "applying" /\ outcome' = "flushing")
      PROVE  EditsInv'
  BY <1>3 DEF EditsInv, Quiet
<1>4. CASE FlushNothing
  <2>1. Quiet' /\ UNCHANGED <<sandboxVars, cfg>>
    BY <1>0, <1>4, QuietKeeps DEF FlushNothing, sandboxVars
  <2> QED BY <2>1, SandboxKeeps
<1>5. CASE StartApply(Engine) /\ outcome' = outcome
  BY <1>0, <1>1, <1>3, <1>5, AreWorkers, StartApplyKeeps DEF StartApply
<1>6. CASE WriteOne(Engine) /\ outcome' = outcome
  <2>1. op'[Engine].at = "applying" /\ \A u \in Units : op'[u] = Idle
    BY <1>0, <1>1, <1>6, AreWorkers, WriteOneTypes DEF WriteOne
  <2> QED BY <1>0, <1>2, <1>3, <1>6, <2>1, WriteOneKeeps
<1>7. CASE Rollback(Engine)
  <2>1. op'[Engine] = Idle /\ \A u \in Units : op'[u] = Idle
    BY <1>0, <1>1, <1>7, AreWorkers, RollbackTypes DEF Rollback
  <2> QED BY <1>0, <1>2, <1>3, <1>7, <2>1, RollbackKeeps
<1>8. CASE ApplyFails(Engine)
  BY <1>0, <1>1, <1>3, <1>8, AreWorkers, ApplyFailsKeeps DEF ApplyFails
<1> QED BY <1>4, <1>5, <1>6, <1>7, <1>8 DEF FlushStep, FlushEnds, graphVars

THEOREM EditsStep == IInv /\ LanesBounded /\ EditsInv /\ [Next]_vars => EditsInv'
<1> SUFFICES ASSUME IInv, LanesBounded, EditsInv, [Next]_vars PROVE EditsInv'
  OBVIOUS
<1>1. CASE UNCHANGED vars
  <2>1. Quiet' /\ UNCHANGED <<sandboxVars, cfg>>
    BY <1>1, QuietKeeps DEF EditsInv, vars, sandboxVars, graphVars
  <2> QED BY <2>1, SandboxKeeps
<1>2. CASE Execute \/ EndBatch
  BY <1>2, BatchEdits DEF Execute, EndBatch, Fail, BeginBatch
<1>3. ASSUME NEW u \in Units, UnitStep(u) PROVE EditsInv'
  <2>1. CASE WorkerReturns(u)
    BY <2>1, TurnKeeps DEF WorkerReturns, Working, Active, Statuses
  <2>2. CASE ReviewReturns(u)
    <3>1. op[u] = Idle
      BY <2>2 DEF ReviewReturns, EditsInv, Quiet, Working
    <3> QED BY <2>2, <3>1, TurnKeeps DEF ReviewReturns, Active, Statuses
  <2>3. CASE UnitThrows(u)
    BY <2>3, TurnKeeps DEF UnitThrows, Active, Statuses
  <2> QED BY <1>3, <2>1, <2>2, <2>3, ToolEdits DEF UnitStep
<1> QED BY <1>1, <1>2, <1>3, FlushEdits DEF Next, Rest

THEOREM EditsInit == Init => EditsInv
<1> SUFFICES ASSUME Init PROVE EditsInv
  OBVIOUS
<1>1. \A w \in Workers : op[w] = Idle
  BY DEF Init, SandboxInit
<1>2. Quiet /\ Matched /\ Drafts
  BY <1>1, AreWorkers, IdleType DEF Quiet, Matched, Drafts, Draft
<1>3. NothingLost
  BY DEF Init, SandboxInit, NothingLost, Kept
<1> QED BY <1>2, <1>3 DEF EditsInv

(* No edit that a tool reported as done is lost on one lane, through shell *)
(* commands, failed writes, fixers and the flush, except in a new file;    *)
(* nor in parallel without shell commands, in a file of one editor.        *)
THEOREM EditsKept == Spec => []NothingLost
<1>1. EditsInv => NothingLost
  BY DEF EditsInv
<1> QED BY <1>1, EditsInit, EditsStep, Invariant, LanesKept, PTL DEF Spec
=============================================================================
