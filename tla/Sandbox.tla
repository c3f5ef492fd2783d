------------------------------ MODULE Sandbox ------------------------------
(***************************************************************************)
(* The staging area of crew-cli (crew-cli/src/sandbox/index.ts) as the     *)
(* tools of its agentic workers drive it (tools/gemini/crew-adapter.ts).   *)
(* Edits are staged in memory and written to disk by apply().  All         *)
(* workers of one process share one Sandbox object and its active branch;  *)
(* a step of this module is what one of them does between two awaits.      *)
(*                                                                         *)
(* A text is the set of workers whose edit it contains: what matters is    *)
(* whose work survives.  A worker edits a file at most once (a second      *)
(* edit by the same worker would add nothing to the text).                 *)
(***************************************************************************)
EXTENDS Integers, FiniteSets

CONSTANTS
    Workers,    \* whoever calls the tools or apply()
    Files,      \* the files they touch
    NewFiles    \* the files that are not on disk at the beginning

ASSUME FilesAssumption == NewFiles \subseteq Files

VARIABLES
    disk,       \* [Files -> text]: the files in the project directory
    staged,     \* the active branch's changes: a text for some of the files
    op,         \* [Workers -> the call a worker has under way]
    edited      \* [Files -> the workers whose edit call returned success] (history)

sandboxVars == <<disk, staged, op, edited>>

Texts == SUBSET Workers
Branch == UNION {[S -> Texts] : S \in SUBSET Files}
EmptyBranch == [f \in {} |-> {}]

Idle == [at |-> "idle"]
Ops == {Idle}
       \cup [at : {"read"}, file : Files, text : Texts]
       \cup [at : {"storing"}, file : Files, text : Texts, live : BOOLEAN]
       \cup [at : {"applying"}, todo : Branch]

SandboxTypeOK ==
    /\ disk \in [Files -> Texts]
    /\ staged \in Branch
    /\ op \in [Workers -> Ops]
    /\ edited \in [Files -> Texts]

SandboxInit ==
    /\ disk = [f \in Files |-> {}]
    /\ staged = EmptyBranch
    /\ op = [w \in Workers |-> Idle]
    /\ edited = [f \in Files |-> {}]

OnDisk(f) == f \notin NewFiles \/ disk[f] # {}
Pending == DOMAIN staged

\* A change is in the branch and the call returns to the worker.
Stage(w, f, text) ==
    /\ staged' = [g \in Pending \cup {f} |-> IF g = f THEN text ELSE staged[g]]
    /\ edited' = [edited EXCEPT ![f] = @ \cup {w}]
    /\ op' = [op EXCEPT ![w] = Idle]
    /\ UNCHANGED disk

-----------------------------------------------------------------------------
\* Mutant: the staged text is not looked up first.
EditStagedFromDisk(w, f) ==
    /\ op[w] = Idle
    /\ w \notin edited[f]
    /\ f \in Pending
    /\ Stage(w, f, disk[f] \cup {w})

(* editFile and appendFile, of a file that is staged: getStagedContent,    *)
(* the match and addChange run without an await in between.                *)
EditStaged(w, f) ==
    /\ op[w] = Idle
    /\ w \notin edited[f]
    /\ f \in Pending
    /\ Stage(w, f, staged[f] \cup {w})

(* The same tools, of a file that is not staged: readFile is awaited.      *)
(* appendFile takes a file that does not exist for an empty one.           *)
ReadFile(w, f) ==
    /\ op[w] = Idle
    /\ w \notin edited[f]
    /\ f \notin Pending
    /\ op' = [op EXCEPT ![w] = [at |-> "read", file |-> f, text |-> disk[f]]]
    /\ UNCHANGED <<disk, staged, edited>>

(* addChange after that await: a change that was staged meanwhile is       *)
(* replaced at once; otherwise addChange takes hold of the branch's        *)
(* record and awaits the reading of the original.                          *)
AddChange(w) ==
    /\ op[w].at = "read"
    /\ LET f == op[w].file
           text == op[w].text \cup {w}
       IN  \/ /\ f \in Pending
              /\ Stage(w, f, text)
           \/ /\ f \notin Pending
              /\ op' = [op EXCEPT ![w] = [at |-> "storing", file |-> f,
                                          text |-> text, live |-> TRUE]]
              /\ UNCHANGED <<disk, staged, edited>>

(* writeFile: refused for a file on disk that is not empty; what is staged *)
(* is not looked at and is replaced.                                       *)
WriteFile(w, f) ==
    /\ op[w] = Idle
    /\ w \notin edited[f]
    /\ ~OnDisk(f)
    /\ \/ /\ f \in Pending
          /\ Stage(w, f, {w})
       \/ /\ f \notin Pending
          /\ op' = [op EXCEPT ![w] = [at |-> "storing", file |-> f,
                                      text |-> {w}, live |-> TRUE]]
          /\ UNCHANGED <<disk, staged, edited>>

(* The end of addChange: it stores into the record it took hold of, which  *)
(* a rollback may have replaced meanwhile.  The tool reports success       *)
(* either way.                                                             *)
StoreChange(w) ==
    /\ op[w].at = "storing"
    /\ \/ op[w].live /\ Stage(w, op[w].file, op[w].text)
       \/ /\ ~op[w].live
          /\ edited' = [edited EXCEPT ![op[w].file] = @ \cup {w}]
          /\ op' = [op EXCEPT ![w] = Idle]
          /\ UNCHANGED <<disk, staged>>

(* apply(): the entries of the branch as they are now, then one awaited    *)
(* write per file, then rollback() of the whole branch.                    *)
StartApply(w) ==
    /\ op[w] = Idle
    /\ Pending # {}
    /\ op' = [op EXCEPT ![w] = [at |-> "applying", todo |-> staged]]
    /\ UNCHANGED <<disk, staged, edited>>

WriteOne(w) ==
    /\ op[w].at = "applying"
    /\ \E f \in DOMAIN op[w].todo :
          /\ disk' = [disk EXCEPT ![f] = op[w].todo[f]]
          /\ op' = [op EXCEPT ![w].todo = [g \in DOMAIN @ \ {f} |-> @[g]]]
    /\ UNCHANGED <<staged, edited>>

(* rollback() puts a new, empty record in the branch's place; an addChange *)
(* under way still holds the old one.                                      *)
Rollback(w) ==
    /\ op[w].at = "applying"
    /\ op[w].todo = EmptyBranch
    /\ staged' = EmptyBranch
    /\ op' = [v \in Workers |->
                IF v = w THEN Idle
                ELSE IF op[v].at = "storing" THEN [op[v] EXCEPT !.live = FALSE]
                ELSE op[v]]
    /\ UNCHANGED <<disk, edited>>

(* A write fails (no space, no permission): apply() throws, the files      *)
(* written so far stay written and everything stays staged.                *)
ApplyFails(w) ==
    /\ op[w].at = "applying"
    /\ op[w].todo # EmptyBranch
    /\ op' = [op EXCEPT ![w] = Idle]
    /\ UNCHANGED <<disk, staged, edited>>

\* What a worker sees of a file, and whether a worker's edit is still there.
Visible(f) == IF f \in Pending THEN staged[f] ELSE disk[f]
Kept(f) == edited[f] \subseteq Visible(f)
=============================================================================
