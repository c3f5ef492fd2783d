------------------------------- MODULE PmLoop -------------------------------
(***************************************************************************)
(* The PM loop (pm-loop.mjs): it takes the next item of ROADMAP.md, has an *)
(* agent do it, marks it in the file and begins again; when the roadmap is *)
(* exhausted it appends items of its own.  The file is shared: people edit *)
(* it at any time, and the dashboard resets failed items                   *)
(* (scripts/dashboard.mjs, /api/roadmap/retry-failed).                     *)
(*                                                                         *)
(* The roadmap is the sequence of its item lines.  Texts are distinct, as  *)
(* the loop's own duplicate filter wants them; a line is found again by    *)
(* its text.  Reading the file, and writing it after an await, are steps   *)
(* of their own.                                                           *)
(***************************************************************************)
EXTENDS Naturals, Sequences, FiniteSets

CONSTANTS
    Texts,          \* the descriptions of items
    Start,          \* the roadmap at the beginning: a sequence of texts
    MaxItems,       \* MAX_ITEMS: items dispatched by one run of the loop
    MaxRetries,     \* MAX_RETRIES: a failed item with fewer failures is tried again
    ExtendEvery,    \* EXTEND_EVERY_N
    FailLimit,      \* 10 in the code: no extension with so many failed items
    SelfExtend,     \* SELF_EXTEND: the values to check
    MaxTrouble      \* bound: insertions, resets and crashes in all

ASSUME StartAssumption == Start \in Seq(Texts) /\ \A i, j \in DOMAIN Start : Start[i] = Start[j] => i = j
ASSUME BoundsAssumption ==
    /\ {MaxItems, MaxRetries, ExtendEvery, FailLimit} \subseteq Nat \ {0}
    /\ MaxTrouble \in Nat
    /\ SelfExtend \subseteq BOOLEAN

VARIABLES
    extend,     \* SELF_EXTEND of this deployment, fixed
    roadmap,    \* ROADMAP.md: a sequence of lines
    pc,         \* where the loop is
    cur,        \* the item taken: its text and its line when it was read
    buf,        \* the content the loop is about to write, or none
    itemCount, doneCount,
    stopFile,   \* the stop file exists
    reset,      \* the content the dashboard is about to write, or none
    attempts,   \* [Texts -> how often an agent was given the item] (history)
    succeeded,  \* the items an agent or the fixer finished (history)
    inserts, resets, crashes    \* what has gone on around the loop (counts)

vars == <<extend, roadmap, pc, cur, buf, itemCount, doneCount, stopFile, reset,
          attempts, succeeded, inserts, resets, crashes>>

Line(t) == [text |-> t, mark |-> "pending", fails |-> 0]
Lines == [text : Texts, mark : {"pending", "done", "failed"}, fails : Nat]
NoItem == [line |-> 0]
Items == {NoItem} \cup [line : Nat \ {0}, text : Texts]
Phases == {"off", "top", "extending", "appending", "working", "marking", "markingFixed",
           "writing", "failing", "writingFailed", "fixing", "ended"}

TypeOK ==
    /\ extend \in SelfExtend
    /\ roadmap \in Seq(Lines)
    /\ pc \in Phases
    /\ cur \in Items
    /\ buf \in Seq(Lines)
    /\ itemCount \in 0 .. MaxItems /\ doneCount \in Nat
    /\ stopFile \in BOOLEAN
    /\ reset \in Seq(Lines)
    /\ attempts \in [Texts -> Nat]
    /\ succeeded \subseteq Texts
    /\ {inserts, resets, crashes} \subseteq Nat

Init ==
    /\ extend \in SelfExtend
    /\ roadmap = [i \in DOMAIN Start |-> Line(Start[i])]
    /\ pc = "off"
    /\ cur = NoItem
    /\ buf = <<>>
    /\ itemCount = 0 /\ doneCount = 0
    /\ stopFile = FALSE
    /\ reset = <<>>
    /\ attempts = [t \in Texts |-> 0]
    /\ succeeded = {}
    /\ inserts = 0 /\ resets = 0 /\ crashes = 0

Calm == inserts + resets + crashes < MaxTrouble

file == <<roadmap, stopFile, reset, inserts, resets>>
loop == <<extend, pc, cur, buf, itemCount, doneCount, attempts, succeeded, crashes>>

With(mark) == {i \in DOMAIN roadmap : roadmap[i].mark = mark}
First(S) == CHOOSE i \in S : \A j \in S : i <= j
\* Mutant: the limit is tested with <=.
RetryableOnceMore == {i \in With("failed") : roadmap[i].fails <= MaxRetries}

Retryable == {i \in With("failed") : roadmap[i].fails < MaxRetries}
Unused == Texts \ {roadmap[i].text : i \in DOMAIN roadmap}

-----------------------------------------------------------------------------
\* The body of the loop ends.
Top == pc' = "top" /\ cur' = NoItem /\ buf' = <<>>

(* nextPending: the first pending item, else the first that may be retried.*)
NextItem ==
    IF With("pending") # {} THEN First(With("pending"))
    ELSE IF Retryable # {} THEN First(Retryable)
    ELSE 0

Item(i) == IF i = 0 THEN NoItem ELSE [line |-> i, text |-> roadmap[i].text]

(* The process starts; it removes a stop file left from an earlier run.    *)
Begin ==
    /\ pc = "off"
    /\ pc' = "top"
    /\ stopFile' = FALSE
    /\ UNCHANGED <<extend, roadmap, cur, buf, itemCount, doneCount, reset, attempts, succeeded,
                   inserts, resets, crashes>>

Dispatch(item) ==
    /\ item # NoItem
    /\ itemCount' = itemCount + 1
    /\ attempts' = [attempts EXCEPT ![item.text] = @ + 1]
    /\ cur' = item
    /\ pc' = "working"

EndLoop == pc' = "ended" /\ UNCHANGED <<cur, itemCount, attempts>>

WantsMore(item) ==
    /\ extend
    /\ Cardinality(With("failed")) < FailLimit
    /\ \/ item = NoItem
       \/ doneCount > 0 /\ doneCount % ExtendEvery = 0 /\ With("pending") = {}

\* Mutant: the limit is tested after one item more.
LookOnceMore ==
    /\ pc = "top"
    /\ LET item == Item(NextItem)
       IN  IF itemCount > MaxItems \/ stopFile THEN EndLoop
           ELSE IF WantsMore(item)
                THEN /\ pc' = "extending"
                     /\ cur' = item
                     /\ UNCHANGED <<itemCount, attempts>>
           ELSE IF item = NoItem THEN EndLoop
           ELSE Dispatch(item)
    /\ UNCHANGED <<file, extend, buf, doneCount, succeeded, crashes>>

(* The head of the loop: the limits, the item, the extension.              *)
Look ==
    /\ pc = "top"
    /\ LET item == Item(NextItem)
       IN  IF itemCount >= MaxItems \/ stopFile THEN EndLoop
           ELSE IF WantsMore(item)
                THEN /\ pc' = "extending"
                     /\ cur' = item
                     /\ UNCHANGED <<itemCount, attempts>>
           ELSE IF item = NoItem THEN EndLoop
           ELSE Dispatch(item)
    /\ UNCHANGED <<file, extend, buf, doneCount, succeeded, crashes>>

\* Mutant: the loop goes on looking when there is nothing new.
NoNewItemsContinue ==
    /\ pc = "extending"
    /\ \/ cur = NoItem /\ Top /\ UNCHANGED <<itemCount, attempts>>
       \/ Dispatch(cur) /\ UNCHANGED buf
    /\ UNCHANGED <<file, extend, doneCount, succeeded, crashes>>

(* The PM has no new items: the loop ends, or goes on with what it took.   *)
NoNewItems ==
    /\ pc = "extending"
    /\ \/ cur = NoItem /\ EndLoop
       \/ Dispatch(cur)
    /\ UNCHANGED <<file, extend, buf, doneCount, succeeded, crashes>>

(* appendGeneratedItems: reads the file, appends, and writes it.           *)
NewItems ==
    /\ pc = "extending"
    /\ \E t \in Unused : buf' = Append(roadmap, Line(t))
    /\ pc' = "appending"
    /\ UNCHANGED <<file, extend, cur, itemCount, doneCount, attempts, succeeded, crashes>>

AppendNewItems ==
    /\ pc = "appending"
    /\ roadmap' = buf
    /\ doneCount' = 0
    /\ Top
    /\ UNCHANGED <<extend, itemCount, stopFile, reset, attempts, succeeded,
                   inserts, resets, crashes>>

(* callAgent ends well (QA, its fixer and the security review only take    *)
(* time, whatever they say), or it fails or times out.                     *)
AgentReturns(ok) ==
    /\ pc = "working"
    /\ pc' = IF ok THEN "marking" ELSE "failing"
    /\ succeeded' = IF ok THEN succeeded \cup {cur.text} ELSE succeeded
    /\ UNCHANGED <<file, extend, cur, buf, itemCount, doneCount, attempts, crashes>>

FixerReturns(ok) ==
    /\ pc = "fixing"
    /\ \/ ok /\ pc' = "markingFixed" /\ succeeded' = succeeded \cup {cur.text} /\ UNCHANGED <<cur, buf>>
       \/ ~ok /\ Top /\ UNCHANGED succeeded
    /\ UNCHANGED <<file, extend, itemCount, doneCount, attempts, crashes>>

-----------------------------------------------------------------------------
\* Mutant: the first open item is taken for the one that was done.
TargetsOpen == {i \in DOMAIN roadmap : roadmap[i].mark # "done"}

(* markItem: the text is taken from the line the item had when it was read *)
(* and then looked for among the items that are not done.  When none has   *)
(* it, nothing is written.                                                 *)
Targets ==
    {i \in DOMAIN roadmap : roadmap[i].text = roadmap[cur.line].text /\ roadmap[i].mark # "done"}

Marked(status) ==
    IF Targets = {} THEN <<>>
    ELSE LET i == First(Targets)
         IN  IF status = "done" THEN [roadmap EXCEPT ![i].mark = "done"]
             ELSE [roadmap EXCEPT ![i].mark = "failed", ![i].fails = @ + 1]

MarkItem(status) ==
    /\ \/ status = "done" /\ pc \in {"marking", "markingFixed"} /\ pc' = "writing"
       \/ status = "failed" /\ pc = "failing" /\ pc' = "writingFailed"
    /\ cur.line \in DOMAIN roadmap
    /\ buf' = Marked(status)
    /\ UNCHANGED <<file, extend, cur, itemCount, doneCount, attempts, succeeded, crashes>>

(* The file has become shorter and has no such line: markItem throws.      *)
(* After the agent that leads to the failure path, whose own markItem ends *)
(* the process if the line is still missing; the fixer's path catches it.  *)
MarkThrows ==
    /\ cur.line \notin DOMAIN roadmap
    /\ \/ pc = "marking" /\ pc' = "failing"
       \/ pc = "failing" /\ pc' = "ended"
       \/ pc = "markingFixed" /\ pc' = "top"
    /\ cur' = IF pc = "marking" THEN cur ELSE NoItem
    /\ UNCHANGED <<file, extend, buf, itemCount, doneCount, attempts, succeeded, crashes>>

\* Mutant: the new content is thrown away.
WriteMarkLost ==
    /\ \/ pc = "writing" /\ Top /\ doneCount' = doneCount + 1
       \/ pc = "writingFailed" /\ pc' = "fixing" /\ buf' = <<>> /\ UNCHANGED <<cur, doneCount>>
    /\ UNCHANGED roadmap
    /\ UNCHANGED <<extend, itemCount, stopFile, reset, attempts, succeeded,
                   inserts, resets, crashes>>

WriteMark ==
    /\ \/ pc = "writing" /\ Top /\ doneCount' = doneCount + 1
       \/ pc = "writingFailed" /\ pc' = "fixing" /\ buf' = <<>> /\ UNCHANGED <<cur, doneCount>>
    /\ roadmap' = IF buf = <<>> THEN roadmap ELSE buf
    /\ UNCHANGED <<extend, itemCount, stopFile, reset, attempts, succeeded,
                   inserts, resets, crashes>>

-----------------------------------------------------------------------------
(* People: "append `- [ ] description` to ROADMAP.md at any time"; insert  *)
(* a line above others; touch the stop file.                               *)
UserAppends ==
    /\ \E t \in Unused : roadmap' = Append(roadmap, Line(t))
    /\ UNCHANGED <<loop, stopFile, reset, inserts, resets>>

UserInserts ==
    /\ Calm
    /\ \E t \in Unused : roadmap' = <<Line(t)>> \o roadmap
    /\ inserts' = inserts + 1
    /\ UNCHANGED <<loop, stopFile, reset, resets>>

UserStops ==
    /\ pc \notin {"off", "ended"} /\ ~stopFile
    /\ stopFile' = TRUE
    /\ UNCHANGED <<loop, roadmap, reset, inserts, resets>>

(* retry-failed of the dashboard: failed items become pending, their       *)
(* failures are forgotten.                                                 *)
ResetRead ==
    /\ Calm
    /\ reset = <<>> /\ With("failed") # {}
    /\ reset' = [i \in DOMAIN roadmap |->
                    IF roadmap[i].mark = "failed" THEN Line(roadmap[i].text) ELSE roadmap[i]]
    /\ resets' = resets + 1
    /\ UNCHANGED <<loop, roadmap, stopFile, inserts>>

ResetWrite ==
    /\ reset # <<>>
    /\ roadmap' = reset
    /\ reset' = <<>>
    /\ UNCHANGED <<loop, stopFile, inserts, resets>>

(* The process is killed or the machine goes down; it may be started again.*)
Crash ==
    /\ Calm
    /\ pc \notin {"off", "ended"}
    /\ pc' = "off" /\ cur' = NoItem /\ buf' = <<>>
    /\ itemCount' = 0 /\ doneCount' = 0
    /\ crashes' = crashes + 1
    /\ UNCHANGED <<file, extend, attempts, succeeded>>

LoopStep ==
    \/ Look
    \/ NoNewItems
    \/ NewItems
    \/ AppendNewItems
    \/ \E ok \in BOOLEAN : AgentReturns(ok) \/ FixerReturns(ok)
    \/ \E status \in {"done", "failed"} : MarkItem(status)
    \/ MarkThrows
    \/ WriteMark

Next ==
    \/ Begin
    \/ LoopStep
    \/ UserAppends
    \/ UserInserts
    \/ UserStops
    \/ ResetRead
    \/ ResetWrite
    \/ Crash

Spec == Init /\ [][Next]_vars

(* Calls of agents and of the PM's model have timeouts, and Node runs what *)
(* is ready: the loop goes on.  Nothing makes a person act.                *)
FairSpec == Spec /\ WF_vars(LoopStep)

-----------------------------------------------------------------------------
\* Nobody has disturbed the lines below the loop's hands.
Undisturbed == inserts = 0 /\ resets = 0

(* The marks tell the truth, as long as people only append: a line is done *)
(* only when an agent or the fixer finished that very item, and it shows   *)
(* no more failures than it had attempts.                                  *)
MarksAreTrue ==
    Undisturbed =>
        \A i \in DOMAIN roadmap :
            /\ roadmap[i].mark = "done" => roadmap[i].text \in succeeded
            /\ roadmap[i].fails <= attempts[roadmap[i].text]

(* An item is given to an agent at most MAX_RETRIES times, or once more    *)
(* for every crash that came before its failure was written down.          *)
AttemptsBounded ==
    Undisturbed => \A t \in Texts : attempts[t] <= MaxRetries + crashes

(* What was finished is not done again: without a crash between the        *)
(* agent's answer and the mark, a finished item is never dispatched.       *)
FinishedNotRepeated ==
    [][Undisturbed /\ crashes = 0 =>
        \A t \in succeeded : attempts'[t] = attempts[t]]_vars

(* The loop ends: at MAX_ITEMS, at the stop file, or when nothing is left; *)
(* extending the roadmap does not keep it from getting there.              *)
EventuallyEnds == <>[](pc \in {"ended", "off"})

(* markItem says that it re-parses the file "to find the actual current    *)
(* line index" because "the original lineIdx may be stale" (pm-loop.mjs:   *)
(* 572-573), yet it takes the text to look for from that very line: after  *)
(* an insertion above, another item is marked.                             *)
DoneWasFinished ==
    resets = 0 => \A i \in DOMAIN roadmap : roadmap[i].mark = "done" => roadmap[i].text \in succeeded
=============================================================================
