---------------------------- MODULE PmLoop_proofs ----------------------------
(***************************************************************************)
(* Proofs about the PM loop, for any roadmap and limits: its types, that   *)
(* the marks in the roadmap are true, that an item is tried a bounded      *)
(* number of times, and that nothing finished is done again.               *)
(***************************************************************************)
EXTENDS PmLoop, SequenceTheorems, WellFoundedInduction, TLAPS

-----------------------------------------------------------------------------
(* The inductive invariant                                                 *)

\* A text that no agent was given; the texts of a roadmap; no text twice.
Untried(t) == attempts[t] = 0 /\ t \notin succeeded
Named(lines) == {lines[i].text : i \in DOMAIN lines}
Distinct(lines) == \A i, j \in DOMAIN lines : lines[i].text = lines[j].text => i = j

\* The item in the loop's hands: whose attempt is not accounted for in its line
\* yet, whose attempt may end as a failure, whose success is to be marked.
InHand(places) == IF pc \in places THEN {cur.text} ELSE {}
Trying == InHand({"working", "marking", "failing", "writingFailed", "writing"})
Owing == InHand({"working", "marking", "failing", "writingFailed"})
Finishing == InHand({"marking", "markingFixed", "writing"})

\* A line tells what happened to its item: every attempt but the one in hand and
\* those that a crash interrupted is a failure in an open line; a finished item
\* is done or about to be marked.
Good(l, tried, crashed, trying, owing, finishing, finished) ==
  /\ l.mark = "pending" => l.fails = 0
  /\ l.mark # "done" => \/ tried[l.text] <= l.fails + crashed
                        \/ l.text \in trying /\ tried[l.text] <= l.fails + crashed + 1
  /\ l.fails <= tried[l.text]
  /\ l.text \in owing => l.fails + 1 <= tried[l.text]
  /\ l.mark = "done" => l.text \in finished
  /\ crashed = 0 /\ l.text \in finished => l.mark = "done" \/ l.text \in finishing
GoodLine(l) == Good(l, attempts, crashes, Trying, Owing, Finishing, succeeded)

Book ==
  /\ Distinct(roadmap)
  /\ \A i \in DOMAIN roadmap : GoodLine(roadmap[i])
  /\ \A t \in Texts : t \notin Named(roadmap) => Untried(t)
  /\ \A t \in Texts : attempts[t] <= MaxRetries + crashes

\* The item in hand is an open line of the roadmap, the one it was read from.
Held ==
  /\ cur # NoItem =>
       /\ cur.line \in DOMAIN roadmap /\ roadmap[cur.line].text = cur.text
       /\ roadmap[cur.line].mark # "done"
       /\ pc = "extending" => roadmap[cur.line].fails < MaxRetries
  /\ pc \in {"off", "top"} => cur = NoItem
  /\ Finishing \subseteq succeeded

\* What the loop is about to write is the roadmap as it read it, with one line
\* changed or added; people have only appended since.
NewLine ==
  IF pc = "writing" THEN [roadmap[cur.line] EXCEPT !.mark = "done"]
  ELSE [roadmap[cur.line] EXCEPT !.mark = "failed", !.fails = @ + 1]
Grown(k) == k <= Len(roadmap) /\ \A i \in DOMAIN roadmap : i > k => Untried(roadmap[i].text)
Buffered ==
  /\ pc \in {"writing", "writingFailed"} =>
       /\ Grown(Len(buf)) /\ cur.line \in DOMAIN buf
       /\ \A i \in DOMAIN buf : buf[i] = IF i = cur.line THEN NewLine ELSE roadmap[i]
  /\ pc = "appending" =>
       \E k \in Nat, t \in Texts :
         /\ Len(buf) = k + 1 /\ Grown(k)
         /\ \A i \in 1 .. k : buf[i] = roadmap[i] /\ roadmap[i].text # t
         /\ buf[k + 1] = Line(t) /\ Untried(t)

Orderly == Undisturbed => Book /\ Held /\ Buffered
\* The dashboard has something to write only after it has read.
Quiet == resets = 0 => reset = <<>>
\* The loop looks for new items only below its limit, and works on an item it has.
Busy == {"working", "marking", "failing", "fixing", "markingFixed", "writing", "writingFailed"}
Room ==
  /\ pc = "extending" => itemCount < MaxItems
  /\ pc \in Busy => cur # NoItem

IInv == TypeOK /\ Quiet /\ Room /\ Orderly

-----------------------------------------------------------------------------
\* First picks the least element of a set of numbers.
LEMMA FirstIsIn ==
  ASSUME NEW S \in SUBSET Nat, S # {}
  PROVE  First(S) \in S
<1> DEFINE Less == {p \in Nat \X Nat : p[1] < p[2]}
<1>1. IsWellFoundedOn(Less, Nat)
  BY NatLessThanWellFounded DEF OpToRel
<1> HIDE DEF Less
<1>2. PICK i \in S : \A j \in S : ~ (<<j, i>> \in Less)
  BY <1>1, WFMin
<1>3. ASSUME NEW j \in S PROVE i <= j
  <2>1. i \in Nat /\ j \in Nat
    OBVIOUS
  <2>2. j < i => <<j, i>> \in Less
    BY <2>1 DEF Less
  <2> QED BY <1>2, <2>1, <2>2
<1> QED BY <1>3 DEF First

\* The parts of a roadmap have their types.
LEMMA RoadmapTypes ==
  ASSUME NEW lines \in Seq(Lines)
  PROVE  /\ Len(lines) \in Nat /\ DOMAIN lines = 1 .. Len(lines) /\ DOMAIN lines \in SUBSET Nat
         /\ \A i \in DOMAIN lines :
              /\ lines[i] \in Lines /\ lines[i].text \in Texts /\ lines[i].fails \in Nat
              /\ lines[i] = [text |-> lines[i].text, mark |-> lines[i].mark, fails |-> lines[i].fails]
<1>1. /\ Len(lines) \in Nat /\ DOMAIN lines = 1 .. Len(lines)
      /\ \A i \in DOMAIN lines : lines[i] \in Lines
  BY LenProperties, ElementOfSeq
<1> QED BY <1>1 DEF Lines

\* A fresh line is a line of its text.
LEMMA LineType == ASSUME NEW t \in Texts PROVE Line(t) \in Lines /\ Line(t).text = t
BY DEF Line, Lines

\* A line with another mark, with one more failure, is a line.
LEMMA RemarkedTypes ==
  ASSUME NEW l \in Lines
  PROVE  /\ [l EXCEPT !.mark = "done"] \in Lines
         /\ [l EXCEPT !.mark = "failed", !.fails = @ + 1] \in Lines
<1>1. l = [text |-> l.text, mark |-> l.mark, fails |-> l.fails] /\ l.text \in Texts /\ l.fails \in Nat
  BY DEF Lines
<1> DEFINE done == [l EXCEPT !.mark = "done"]
           more == l.fails + 1
           failed == [l EXCEPT !.mark = "failed", !.fails = more]
<1>2. done = [text |-> l.text, mark |-> "done", fails |-> l.fails]
  BY ONLY <1>1
<1>m. more \in Nat
  BY <1>1
<1> HIDE DEF more
<1>3. failed = [text |-> l.text, mark |-> "failed", fails |-> more]
  <2>1. failed = [l EXCEPT !.mark = "failed", !.fails = more]
    OBVIOUS
  <2> HIDE DEF failed
  <2> QED BY ONLY <1>1, <2>1
<1> HIDE DEF done, failed
<1>4. done \in Lines
  BY <1>1, <1>2 DEF Lines
<1>5. failed \in Lines
  BY <1>1, <1>m, <1>3 DEF Lines
<1> QED BY <1>4, <1>5 DEF done, failed, more

\* The item that the loop takes is a line of the roadmap that is not done and
\* that may be tried.
LEMMA NextItemShows ==
  ASSUME TypeOK, NextItem # 0
  PROVE  /\ NextItem \in DOMAIN roadmap /\ roadmap[NextItem].mark # "done"
         /\ roadmap[NextItem].mark = "pending" \/ roadmap[NextItem].fails < MaxRetries
<1>1. DOMAIN roadmap \in SUBSET Nat
  BY RoadmapTypes DEF TypeOK
<1>2. CASE With("pending") # {}
  <2>1. First(With("pending")) \in With("pending")
    BY <1>1, <1>2, FirstIsIn DEF With
  <2> QED BY <1>2, <2>1 DEF NextItem, With
<1>3. CASE With("pending") = {} /\ Retryable # {}
  <2>1. First(Retryable) \in Retryable
    BY <1>1, <1>3, FirstIsIn DEF With, Retryable
  <2> QED BY <1>3, <2>1 DEF NextItem, With, Retryable
<1> QED BY <1>2, <1>3 DEF NextItem

\* What the loop takes is no item, or an open line of the roadmap that may be tried.
LEMMA ItemShows ==
  ASSUME TypeOK
  PROVE  /\ Item(NextItem) \in Items
         /\ Item(NextItem) # NoItem =>
              LET item == Item(NextItem)
              IN  /\ item.line \in DOMAIN roadmap /\ roadmap[item.line].text = item.text
                  /\ item.text \in Texts /\ roadmap[item.line].mark # "done"
                  /\ roadmap[item.line].mark = "pending" \/ roadmap[item.line].fails < MaxRetries
<1>1. CASE NextItem = 0
  BY <1>1 DEF Item, Items
<1>2. CASE NextItem # 0
  <2> DEFINE n == NextItem
  <2>1. /\ n \in DOMAIN roadmap /\ roadmap[n].mark # "done"
        /\ roadmap[n].mark = "pending" \/ roadmap[n].fails < MaxRetries
    BY <1>2, NextItemShows
  <2>2. n \in Nat \ {0} /\ roadmap[n].text \in Texts
    BY <1>2, <2>1, RoadmapTypes DEF TypeOK
  <2>3. n # 0
    BY <1>2
  <2> HIDE DEF n
  <2>4. Item(n) = [line |-> n, text |-> roadmap[n].text]
    BY <2>3 DEF Item
  <2>5. Item(n) \in Items /\ Item(n).line = n /\ Item(n).text = roadmap[n].text
    BY <2>2, <2>4 DEF Items
  <2> QED BY <2>1, <2>2, <2>5 DEF n
<1> QED BY <1>1, <1>2

\* An item has a line and a text.
LEMMA HeldItem ==
  ASSUME TypeOK, cur # NoItem
  PROVE  cur.line \in Nat \ {0} /\ cur.text \in Texts
BY DEF TypeOK, Items

\* While it works the loop has an item.
LEMMA BusyItem ==
  ASSUME TypeOK, Room, pc \in Busy
  PROVE  cur # NoItem /\ cur.line \in Nat \ {0} /\ cur.text \in Texts
BY HeldItem DEF Room

\* The lines markItem may change are those with the text it looks for.
LEMMA MarkedTypes ==
  ASSUME TypeOK, NEW status \in {"done", "failed"}
  PROVE  Marked(status) \in Seq(Lines)
<1>1. CASE Targets = {}
  BY <1>1, EmptySeq DEF Marked
<1>2. CASE Targets # {}
  <2> DEFINE i == First(Targets)
  <2>1. DOMAIN roadmap \in SUBSET Nat /\ roadmap \in Seq(Lines)
    BY RoadmapTypes DEF TypeOK
  <2>2. i \in Targets
    BY <1>2, <2>1, FirstIsIn DEF Targets
  <2>3. i \in 1 .. Len(roadmap)
    BY <2>1, <2>2, RoadmapTypes DEF Targets
  <2> HIDE DEF i
  <2>m. roadmap[i] \in Lines
    BY <2>1, <2>3, RoadmapTypes
  <2>4. [roadmap[i] EXCEPT !.mark = "done"] \in Lines
    BY <2>m, RemarkedTypes
  <2>5. [roadmap[i] EXCEPT !.mark = "failed", !.fails = @ + 1] \in Lines
    BY <2>m, RemarkedTypes
  <2>6. [roadmap EXCEPT ![i] = [roadmap[i] EXCEPT !.mark = "done"]] \in Seq(Lines)
    BY <2>1, <2>3, <2>4, ExceptSeq
  <2>7. [roadmap EXCEPT ![i] = [roadmap[i] EXCEPT !.mark = "failed", !.fails = @ + 1]] \in Seq(Lines)
    BY <2>1, <2>3, <2>5, ExceptSeq
  <2>8. [roadmap EXCEPT ![i].mark = "done"] = [roadmap EXCEPT ![i] = [roadmap[i] EXCEPT !.mark = "done"]]
    OBVIOUS
  <2>9. [roadmap EXCEPT ![i].mark = "failed", ![i].fails = @ + 1]
        = [roadmap EXCEPT ![i] = [roadmap[i] EXCEPT !.mark = "failed", !.fails = @ + 1]]
    BY <2>1, <2>3, RoadmapTypes
  <2> QED BY <1>2, <2>6, <2>7, <2>8, <2>9 DEF Marked, i
<1> QED BY <1>1, <1>2
-----------------------------------------------------------------------------
(* The types                                                               *)

\* What is assumed of the limits and of the first roadmap.
LEMMA Limits ==
  /\ MaxItems \in Nat /\ MaxRetries \in Nat /\ MaxRetries # 0
  /\ Start \in Seq(Texts) /\ \A i, j \in DOMAIN Start : Start[i] = Start[j] => i = j
BY StartAssumption, BoundsAssumption

\* The first roadmap is a sequence of fresh lines.
LEMMA StartLines ==
  ASSUME NEW lines, lines = [i \in DOMAIN Start |-> Line(Start[i])]
  PROVE  /\ lines \in Seq(Lines) /\ DOMAIN lines = DOMAIN Start
         /\ \A i \in DOMAIN lines : lines[i] = Line(Start[i]) /\ Start[i] \in Texts
<1>1. Len(Start) \in Nat /\ DOMAIN Start = 1 .. Len(Start) /\ \A i \in DOMAIN Start : Start[i] \in Texts
  BY Limits, LenProperties
<1>2. lines \in [1 .. Len(Start) -> Lines]
  BY <1>1, LineType
<1> QED BY <1>1, <1>2, SeqDef

\* The initial state has its types.
LEMMA InitTypes == Init => TypeOK
<1> SUFFICES ASSUME Init PROVE TypeOK
  OBVIOUS
<1>1. roadmap \in Seq(Lines) /\ <<>> \in Seq(Lines)
  BY StartLines, EmptySeq DEF Init
<1>2. NoItem \in Items /\ "off" \in Phases
  BY DEF Items, Phases
<1>3. itemCount \in 0 .. MaxItems /\ doneCount \in Nat /\ {inserts, resets, crashes} \subseteq Nat
  BY Limits DEF Init
<1>4. attempts \in [Texts -> Nat] /\ succeeded \subseteq Texts
  BY DEF Init
<1> QED BY <1>1, <1>2, <1>3, <1>4 DEF Init, TypeOK

\* Giving an item to an agent keeps the types.
LEMMA DispatchTypes ==
  ASSUME TypeOK, NEW item \in Items, Dispatch(item), itemCount < MaxItems
  PROVE  /\ itemCount' \in 0 .. MaxItems /\ attempts' \in [Texts -> Nat]
         /\ cur' \in Items /\ cur' # NoItem /\ pc' = "working" /\ pc' \in Phases
<1>1. item # NoItem /\ item.text \in Texts
  BY DEF Dispatch, Items
<1>2. itemCount' \in 0 .. MaxItems
  BY Limits DEF Dispatch, TypeOK
<1>3. attempts' \in [Texts -> Nat]
  <2>1. attempts[item.text] + 1 \in Nat /\ attempts \in [Texts -> Nat]
    BY <1>1 DEF TypeOK
  <2> QED BY <1>1, <2>1 DEF Dispatch
<1> QED BY <1>1, <1>2, <1>3 DEF Dispatch, Phases

\* Every step of the loop keeps the types.
LEMMA LoopTypes ==
  ASSUME TypeOK, Room, LoopStep
  PROVE  TypeOK' /\ Room'
<1>0. NoItem \in Items /\ <<>> \in Seq(Lines)
  BY EmptySeq DEF Items
<1>1. CASE Look
  <2> DEFINE item == Item(NextItem)
  <2>1. item \in Items
    BY ItemShows
  <2> HIDE DEF item
  <2>2. UNCHANGED <<file, extend, buf, doneCount, succeeded, crashes>>
    BY <1>1 DEF Look
  <2>3. \/ EndLoop
        \/ itemCount < MaxItems /\ pc' = "extending" /\ cur' = item /\ UNCHANGED <<itemCount, attempts>>
        \/ itemCount < MaxItems /\ Dispatch(item)
    <3>1. ~(itemCount >= MaxItems) => itemCount < MaxItems
      BY Limits DEF TypeOK
    <3> QED BY <1>1, <3>1 DEF Look, item
  <2>4. CASE EndLoop
    BY <2>2, <2>4 DEF EndLoop, TypeOK, Room, Busy, Phases, file
  <2>5. CASE itemCount < MaxItems /\ pc' = "extending" /\ cur' = item /\ UNCHANGED <<itemCount, attempts>>
    BY <2>1, <2>2, <2>5 DEF TypeOK, Room, Busy, Phases, file
  <2>6. CASE itemCount < MaxItems /\ Dispatch(item)
    BY <2>1, <2>2, <2>6, DispatchTypes DEF TypeOK, Room, Busy, file
  <2> QED BY <2>3, <2>4, <2>5, <2>6
<1>2. CASE NoNewItems
  <2>1. UNCHANGED <<file, extend, buf, doneCount, succeeded, crashes>> /\ itemCount < MaxItems
    BY <1>2 DEF NoNewItems, Room, Busy
  <2>2. CASE EndLoop
    BY <2>1, <2>2 DEF EndLoop, TypeOK, Room, Busy, Phases, file
  <2>3. CASE Dispatch(cur)
    <3>1. cur \in Items
      BY DEF TypeOK
    <3> QED BY <2>1, <2>3, <3>1, DispatchTypes DEF TypeOK, Room, Busy, file
  <2> QED BY <1>2, <2>2, <2>3 DEF NoNewItems
<1>3. CASE NewItems
  <2>1. buf' \in Seq(Lines)
    <3>1. PICK t \in Unused : buf' = Append(roadmap, Line(t))
      BY <1>3 DEF NewItems
    <3>2. Line(t) \in Lines
      BY <3>1, LineType DEF Unused
    <3> QED BY <3>1, <3>2, AppendProperties DEF TypeOK
  <2> QED BY <1>3, <2>1 DEF NewItems, TypeOK, Room, Busy, Phases, file
<1>4. CASE AppendNewItems
  BY <1>0, <1>4 DEF AppendNewItems, Top, TypeOK, Room, Busy, Phases
<1>5. CASE \E ok \in BOOLEAN : AgentReturns(ok) \/ FixerReturns(ok)
  <2>1. PICK ok \in BOOLEAN : AgentReturns(ok) \/ FixerReturns(ok)
    BY <1>5
  <2>2. cur # NoItem /\ cur.text \in Texts
    BY <2>1, BusyItem DEF AgentReturns, FixerReturns, Busy
  <2>3. CASE AgentReturns(ok)
    BY <2>2, <2>3 DEF AgentReturns, TypeOK, Room, Busy, Phases, file
  <2>4. CASE FixerReturns(ok)
    BY <1>0, <2>2, <2>4 DEF FixerReturns, Top, TypeOK, Room, Busy, Phases, file
  <2> QED BY <2>1, <2>3, <2>4
<1>6. CASE \E status \in {"done", "failed"} : MarkItem(status)
  <2>1. buf' \in Seq(Lines)
    BY <1>6, MarkedTypes DEF MarkItem
  <2> QED BY <1>6, <2>1 DEF MarkItem, TypeOK, Room, Busy, Phases, file
<1>7. CASE MarkThrows
  BY <1>0, <1>7 DEF MarkThrows, TypeOK, Room, Busy, Phases, file
<1>8. CASE WriteMark
  <2>1. roadmap' \in Seq(Lines) /\ buf' \in Seq(Lines)
    BY <1>0, <1>8 DEF WriteMark, Top, TypeOK
  <2>2. cur' \in Items /\ pc' \in Phases /\ doneCount' \in Nat
    BY <1>0, <1>8 DEF WriteMark, Top, TypeOK, Phases
  <2>3. Room'
    BY <1>8 DEF WriteMark, Top, Room, Busy
  <2> QED BY <1>8, <2>1, <2>2, <2>3 DEF WriteMark, TypeOK
<1> QED BY <1>1, <1>2, <1>3, <1>4, <1>5, <1>6, <1>7, <1>8 DEF LoopStep

\* What goes on around the loop keeps the types.
LEMMA WorldTypes ==
  ASSUME TypeOK, Room,
         Begin \/ UserAppends \/ UserInserts \/ UserStops \/ ResetRead \/ ResetWrite \/ Crash
  PROVE  TypeOK' /\ Room'
<1>0. NoItem \in Items /\ <<>> \in Seq(Lines) /\ roadmap \in Seq(Lines)
  BY EmptySeq DEF Items, TypeOK
<1>1. CASE Begin
  BY <1>1 DEF Begin, TypeOK, Room, Busy, Phases
<1>2. CASE UserAppends
  <2>1. PICK t \in Unused : roadmap' = Append(roadmap, Line(t))
    BY <1>2 DEF UserAppends
  <2>2. roadmap' \in Seq(Lines)
    BY <1>0, <2>1, LineType, AppendProperties DEF Unused
  <2> QED BY <1>2, <2>2 DEF UserAppends, TypeOK, Room, Busy, loop
<1>3. CASE UserInserts
  <2>1. PICK t \in Unused : roadmap' = <<Line(t)>> \o roadmap
    BY <1>3 DEF UserInserts
  <2>2. <<Line(t)>> \in Seq(Lines)
    BY <2>1, LineType DEF Unused
  <2>3. roadmap' \in Seq(Lines)
    BY <1>0, <2>1, <2>2, ConcatProperties
  <2> QED BY <1>3, <2>3 DEF UserInserts, TypeOK, Room, Busy, loop
<1>4. CASE UserStops
  BY <1>4 DEF UserStops, TypeOK, Room, Busy, loop
<1>5. CASE ResetRead
  <2>1. reset' = [i \in DOMAIN roadmap |->
                    IF roadmap[i].mark = "failed" THEN Line(roadmap[i].text) ELSE roadmap[i]]
    BY <1>5 DEF ResetRead
  <2>2. reset' \in [1 .. Len(roadmap) -> Lines] /\ Len(roadmap) \in Nat
    BY <1>0, <2>1, RoadmapTypes, LineType
  <2>3. reset' \in Seq(Lines)
    BY <2>2, SeqDef
  <2> QED BY <1>5, <2>3 DEF ResetRead, TypeOK, Room, Busy, loop
<1>6. CASE ResetWrite
  BY <1>0, <1>6 DEF ResetWrite, TypeOK, Room, Busy, loop
<1>7. CASE Crash
  BY <1>0, <1>7, Limits DEF Crash, TypeOK, Room, Busy, Phases, file
<1> QED BY <1>1, <1>2, <1>3, <1>4, <1>5, <1>6, <1>7

-----------------------------------------------------------------------------
(* The book of the roadmap                                                 *)

\* A line stays good when the item in hand moves on.
LEMMA GoodStays ==
  ASSUME NEW l, NEW tried, NEW crashed, NEW trying, NEW owing, NEW finishing, NEW finished,
         NEW trying1, NEW owing1, NEW finishing1, NEW finished1,
         Good(l, tried, crashed, trying, owing, finishing, finished),
         trying \subseteq trying1, owing1 \subseteq owing, finishing \subseteq finishing1,
         finished \subseteq finished1, finished1 \ finished \subseteq finishing1
  PROVE  Good(l, tried, crashed, trying1, owing1, finishing1, finished1)
BY DEF Good

\* The line of an item that was never given to an agent is good.
LEMMA GoodNew ==
  ASSUME NEW t \in Texts, NEW tried \in [Texts -> Nat], NEW crashed \in Nat,
         NEW trying, NEW owing, NEW finishing, NEW finished,
         tried[t] = 0, t \notin finished, t \notin owing
  PROVE  Good(Line(t), tried, crashed, trying, owing, finishing, finished)
<1>1. Line(t) = [text |-> t, mark |-> "pending", fails |-> 0]
  BY DEF Line
<1> DEFINE l == Line(t)
<1>2. l.text = t /\ l.mark = "pending" /\ l.fails = 0
  BY <1>1
<1> HIDE DEF l
<1>3. Good(l, tried, crashed, trying, owing, finishing, finished)
  BY <1>2 DEF Good
<1> QED BY <1>3 DEF l

\* When only the item in hand moves on, the book stays right.
LEMMA BookStays ==
  ASSUME Book, roadmap' = roadmap, attempts' = attempts, crashes' = crashes,
         Trying \subseteq Trying', Owing' \subseteq Owing, Finishing \subseteq Finishing',
         succeeded \subseteq succeeded', succeeded' \ succeeded \subseteq Finishing',
         succeeded' \ succeeded \subseteq Named(roadmap)
  PROVE  Book'
<1>1. ASSUME NEW i \in DOMAIN roadmap
      PROVE  Good(roadmap[i], attempts, crashes, Trying', Owing', Finishing', succeeded')
  <2>1. Good(roadmap[i], attempts, crashes, Trying, Owing, Finishing, succeeded)
    BY DEF Book, GoodLine
  <2> QED BY <2>1, GoodStays
<1>2. \A i \in DOMAIN roadmap' : GoodLine(roadmap[i])'
  BY <1>1 DEF GoodLine
<1>3. ASSUME NEW t \in Texts, t \notin Named(roadmap)' PROVE Untried(t)'
  BY <1>3 DEF Named, Book, Untried
<1>4. Distinct(roadmap)' /\ \A t \in Texts : attempts'[t] <= MaxRetries + crashes'
  BY DEF Distinct, Book
<1> QED BY <1>2, <1>3, <1>4 DEF Book

\* The steps that neither write the file nor give an item to an agent.
QuietStep ==
  \/ Begin
  \/ UserStops
  \/ pc \in {"top", "extending"} /\ EndLoop /\ UNCHANGED <<file, buf, succeeded, crashes>>
  \/ pc = "top" /\ pc' = "extending" /\ cur' = Item(NextItem)
        /\ UNCHANGED <<file, buf, attempts, succeeded, crashes>>
  \/ \E ok \in BOOLEAN : AgentReturns(ok) \/ FixerReturns(ok)

\* Such a step keeps the invariant.
LEMMA QuietSteps ==
  ASSUME IInv, Book, Held, Buffered, QuietStep
  PROVE  Book' /\ Held' /\ Buffered'
<1>1. roadmap' = roadmap /\ attempts' = attempts /\ crashes' = crashes
  BY DEF QuietStep, Begin, UserStops, EndLoop, AgentReturns, FixerReturns, file, loop
<1>2. pc \in {"working", "fixing"} => cur.text \in Named(roadmap)
  BY DEF IInv, Room, Busy, Held, Named
<1>3. /\ Trying \subseteq Trying' /\ Owing' \subseteq Owing /\ Finishing \subseteq Finishing'
      /\ succeeded \subseteq succeeded' /\ succeeded' \ succeeded \subseteq Finishing'
      /\ succeeded' \ succeeded \subseteq Named(roadmap)
  <2>1. CASE Begin
    BY <2>1 DEF Begin, Trying, Owing, Finishing, InHand
  <2>2. CASE UserStops
    BY <2>2 DEF UserStops, loop, Trying, Owing, Finishing, InHand
  <2>3. CASE pc \in {"top", "extending"} /\ EndLoop /\ UNCHANGED <<file, buf, succeeded, crashes>>
    BY <2>3 DEF EndLoop, Trying, Owing, Finishing, InHand
  <2>4. CASE pc = "top" /\ pc' = "extending" /\ cur' = Item(NextItem)
                /\ UNCHANGED <<file, buf, attempts, succeeded, crashes>>
    BY <2>4 DEF Trying, Owing, Finishing, InHand
  <2>5. ASSUME NEW ok \in BOOLEAN, AgentReturns(ok)
        PROVE  <1>3!:
    BY <1>2, <2>5 DEF AgentReturns, Trying, Owing, Finishing, InHand
  <2>6. ASSUME NEW ok \in BOOLEAN, FixerReturns(ok)
        PROVE  <1>3!:
    BY <1>2, <2>6 DEF FixerReturns, Top, Trying, Owing, Finishing, InHand
  <2> QED BY <2>1, <2>2, <2>3, <2>4, <2>5, <2>6 DEF QuietStep
<1>4. Book'
  BY <1>1, <1>3, BookStays
<1>5. Held'
  <2>1. CASE Begin
    BY <1>1, <2>1 DEF Begin, Held, Finishing, InHand
  <2>2. CASE UserStops
    BY <1>1, <2>2 DEF UserStops, loop, Held, Finishing, InHand
  <2>3. CASE pc \in {"top", "extending"} /\ EndLoop /\ UNCHANGED <<file, buf, succeeded, crashes>>
    BY <1>1, <2>3 DEF EndLoop, Held, Finishing, InHand
  <2>4. CASE pc = "top" /\ pc' = "extending" /\ cur' = Item(NextItem)
                /\ UNCHANGED <<file, buf, attempts, succeeded, crashes>>
    <3>1. cur' # NoItem =>
            /\ cur'.line \in DOMAIN roadmap /\ roadmap[cur'.line].text = cur'.text
            /\ roadmap[cur'.line].mark # "done"
            /\ roadmap[cur'.line].mark = "pending" \/ roadmap[cur'.line].fails < MaxRetries
      BY <2>4, ItemShows DEF IInv
    <3>2. cur' # NoItem => roadmap[cur'.line].fails < MaxRetries
      BY <3>1, Limits DEF Book, GoodLine, Good
    <3> QED BY <1>1, <2>4, <3>1, <3>2 DEF Held, Finishing, InHand
  <2>5. ASSUME NEW ok \in BOOLEAN, AgentReturns(ok) PROVE Held'
    BY <1>1, <2>5 DEF AgentReturns, Held, Finishing, InHand
  <2>6. ASSUME NEW ok \in BOOLEAN, FixerReturns(ok) PROVE Held'
    BY <1>1, <2>6 DEF FixerReturns, Top, Held, Finishing, InHand
  <2> QED BY <2>1, <2>2, <2>3, <2>4, <2>5, <2>6 DEF QuietStep
<1>6. Buffered'
  <2>1. CASE UserStops
    BY <1>1, <2>1 DEF UserStops, loop, Buffered, Grown, NewLine, Untried
  <2>2. CASE ~ UserStops
    <3>1. pc' \notin {"writing", "writingFailed", "appending"}
      BY <2>2 DEF QuietStep, Begin, EndLoop, AgentReturns, FixerReturns, Top
    <3> QED BY <3>1 DEF Buffered
  <2> QED BY <2>1, <2>2
<1> QED BY <1>4, <1>5, <1>6

\* Giving an item to an agent: one more attempt, accounted for by the item in hand.
LEMMA DispatchKeeps ==
  ASSUME IInv, Book, pc \in {"top", "extending"}, NEW item \in Items, Dispatch(item),
         item.line \in DOMAIN roadmap, roadmap[item.line].text = item.text,
         roadmap[item.line].mark # "done", roadmap[item.line].fails < MaxRetries,
         UNCHANGED <<file, extend, buf, doneCount, succeeded, crashes>>
  PROVE  /\ Book' /\ Held' /\ Buffered'
         /\ crashes = 0 => item.text \notin succeeded
<1>1. /\ item # NoItem /\ item.text \in Texts /\ pc' = "working" /\ cur' = item
      /\ roadmap' = roadmap /\ crashes' = crashes /\ succeeded' = succeeded
  BY DEF Dispatch, Items, file
<1>2. /\ roadmap \in Seq(Lines) /\ attempts \in [Texts -> Nat] /\ crashes \in Nat
      /\ attempts' = [attempts EXCEPT ![item.text] = @ + 1]
  BY DEF Dispatch, IInv, TypeOK
<1>3. Trying = {} /\ Owing = {} /\ Finishing = {}
  BY DEF Trying, Owing, Finishing, InHand
<1>4. Trying' = {item.text} /\ Owing' = {item.text} /\ Finishing' = {}
  BY <1>1 DEF Trying, Owing, Finishing, InHand
<1>5. ASSUME NEW i \in DOMAIN roadmap
      PROVE  /\ Good(roadmap[i], attempts, crashes, {}, {}, {}, succeeded)
             /\ roadmap[i].text \in Texts /\ roadmap[i].fails \in Nat
             /\ roadmap[i].text = item.text => i = item.line
  BY <1>2, <1>3, RoadmapTypes DEF Book, GoodLine, Distinct
<1>6. ASSUME NEW i \in DOMAIN roadmap
      PROVE  Good(roadmap[i], attempts', crashes, {item.text}, {item.text}, {}, succeeded)
  <2>1. CASE i = item.line
    BY <1>1, <1>2, <1>5, <2>1 DEF Good
  <2>2. CASE i # item.line
    BY <1>1, <1>2, <1>5, <2>2 DEF Good
  <2> QED BY <2>1, <2>2
<1>7. \A i \in DOMAIN roadmap' : GoodLine(roadmap[i])'
  BY <1>1, <1>4, <1>6 DEF GoodLine
<1>8. ASSUME NEW t \in Texts, t \notin Named(roadmap)' PROVE Untried(t)'
  <2>1. t \notin Named(roadmap) /\ t # item.text
    BY <1>1, <1>8 DEF Named
  <2> QED BY <1>1, <1>2, <2>1 DEF Book, Untried
<1>9. ASSUME NEW t \in Texts PROVE attempts'[t] <= MaxRetries + crashes'
  <2>1. CASE t = item.text
    <3>1. attempts[t] <= roadmap[item.line].fails + crashes
      BY <1>1, <1>5, <2>1 DEF Good
    <3>2. roadmap[item.line].fails \in Nat /\ attempts[t] \in Nat /\ attempts'[t] = attempts[t] + 1
      BY <1>1, <1>2, <1>5, <2>1
    <3> QED BY <1>1, <1>2, <3>1, <3>2, Limits
  <2>2. CASE t # item.text
    BY <1>1, <1>2, <2>2 DEF Book
  <2> QED BY <2>1, <2>2
<1>10. Book'
  BY <1>1, <1>7, <1>8, <1>9 DEF Book, Distinct
<1>11. Held' /\ Buffered'
  BY <1>1, <1>4 DEF Held, Buffered
<1>12. crashes = 0 => item.text \notin succeeded
  BY <1>5 DEF Good
<1> QED BY <1>10, <1>11, <1>12

\* When texts are distinct, markItem finds the line that was read.
LEMMA TargetFound ==
  ASSUME TypeOK, Distinct(roadmap), cur.line \in DOMAIN roadmap, roadmap[cur.line].mark # "done"
  PROVE  Targets # {} /\ First(Targets) = cur.line
<1>1. Targets = {cur.line}
  BY DEF Targets, Distinct
<1>2. Targets \in SUBSET Nat
  BY RoadmapTypes DEF TypeOK, Targets
<1> QED BY <1>1, <1>2, FirstIsIn

\* What markItem is about to write is the roadmap with the line in hand changed.
LEMMA MarkKeeps ==
  ASSUME IInv, Book, Held, NEW status \in {"done", "failed"}, MarkItem(status)
  PROVE  Book' /\ Held' /\ Buffered'
<1>1. /\ roadmap' = roadmap /\ attempts' = attempts /\ crashes' = crashes
      /\ succeeded' = succeeded /\ cur' = cur
  BY DEF MarkItem, file
<1>2. \/ status = "done" /\ pc \in {"marking", "markingFixed"} /\ pc' = "writing"
      \/ status = "failed" /\ pc = "failing" /\ pc' = "writingFailed"
  BY DEF MarkItem
<1>3. /\ Trying \subseteq Trying' /\ Owing' \subseteq Owing /\ Finishing \subseteq Finishing'
      /\ Finishing' \subseteq Finishing
  BY <1>1, <1>2 DEF Trying, Owing, Finishing, InHand
<1>4. Book'
  BY <1>1, <1>3, BookStays
<1>5. Held'
  BY <1>1, <1>2, <1>3 DEF Held
<1>6. /\ cur # NoItem /\ cur.line \in DOMAIN roadmap /\ roadmap[cur.line].mark # "done"
      /\ Targets # {} /\ First(Targets) = cur.line
  <2>1. cur # NoItem
    BY <1>2 DEF IInv, Room, Busy
  <2> QED BY <2>1, TargetFound DEF IInv, Held, Book
<1>7. /\ roadmap \in Seq(Lines) /\ Len(roadmap) \in Nat /\ DOMAIN roadmap = 1 .. Len(roadmap)
  BY RoadmapTypes DEF IInv, TypeOK
<1>8. buf' = [roadmap EXCEPT ![cur.line] = NewLine']
  <2>1. CASE status = "done" /\ pc' = "writing"
    <3>1. buf' = [roadmap EXCEPT ![cur.line].mark = "done"]
      BY <1>6, <2>1 DEF MarkItem, Marked
    <3> QED BY <1>1, <2>1, <3>1 DEF NewLine
  <2>2. CASE status = "failed" /\ pc' = "writingFailed"
    <3>1. buf' = [roadmap EXCEPT ![cur.line].mark = "failed", ![cur.line].fails = @ + 1]
      BY <1>6, <2>2 DEF MarkItem, Marked
    <3>2. [roadmap EXCEPT ![cur.line].mark = "failed", ![cur.line].fails = @ + 1]
          = [roadmap EXCEPT ![cur.line] = [roadmap[cur.line] EXCEPT !.mark = "failed", !.fails = @ + 1]]
      BY <1>6, <1>7, RoadmapTypes
    <3>3. NewLine' = [roadmap[cur.line] EXCEPT !.mark = "failed", !.fails = @ + 1]
      BY <1>1, <2>2 DEF NewLine
    <3> QED BY <3>1, <3>2, <3>3
  <2> QED BY <1>2, <2>1, <2>2
<1>9. /\ DOMAIN buf' = DOMAIN roadmap /\ Len(buf') = Len(roadmap)
      /\ \A i \in DOMAIN buf' : buf'[i] = IF i = cur.line THEN NewLine' ELSE roadmap[i]
  <2>1. DOMAIN buf' = DOMAIN roadmap /\ buf' \in Seq(Lines)
    BY <1>8, MarkedTypes DEF MarkItem, IInv
  <2>2. Len(buf') \in Nat /\ DOMAIN buf' = 1 .. Len(buf')
    BY <2>1, RoadmapTypes
  <2>3. Len(buf') = Len(roadmap)
    BY <1>7, <2>1, <2>2
  <2>4. ASSUME NEW i \in DOMAIN buf' PROVE buf'[i] = IF i = cur.line THEN NewLine' ELSE roadmap[i]
    <3> DEFINE n == NewLine'
    <3>1. buf' = [roadmap EXCEPT ![cur.line] = n] /\ i \in DOMAIN roadmap
      BY <1>8, <2>1
    <3> HIDE DEF n
    <3>2. buf'[i] = IF i = cur.line THEN n ELSE roadmap[i]
      BY <3>1
    <3> QED BY <3>2 DEF n
  <2> QED BY <2>1, <2>3, <2>4
<1>10. Buffered'
  <2>1. Grown(Len(buf))'
    BY <1>1, <1>7, <1>9 DEF Grown
  <2>2. \A i \in DOMAIN buf' : buf'[i] = IF i = cur'.line THEN NewLine' ELSE roadmap'[i]
    BY <1>1, <1>9
  <2>3. cur'.line \in DOMAIN buf' /\ pc' # "appending"
    BY <1>1, <1>2, <1>6, <1>9
  <2> QED BY <2>1, <2>2, <2>3 DEF Buffered
<1> QED BY <1>4, <1>5, <1>10

\* Writing it drops only lines that nobody has been given yet.
LEMMA WriteKeeps ==
  ASSUME IInv, Book, Held, Buffered, WriteMark
  PROVE  Book' /\ Held' /\ Buffered'
<1>1. /\ attempts' = attempts /\ crashes' = crashes /\ succeeded' = succeeded
      /\ \/ pc = "writing" /\ pc' = "top" /\ cur' = NoItem
         \/ pc = "writingFailed" /\ pc' = "fixing" /\ cur' = cur
  BY DEF WriteMark, Top
<1> DEFINE c == cur.line
<1>2. /\ cur # NoItem /\ c \in DOMAIN buf /\ Grown(Len(buf))
      /\ \A i \in DOMAIN buf : buf[i] = IF i = c THEN NewLine ELSE roadmap[i]
      /\ c \in DOMAIN roadmap /\ roadmap[c].text = cur.text /\ roadmap[c].mark # "done"
  BY <1>1 DEF IInv, Room, Busy, Held, Buffered
<1>3. /\ DOMAIN buf = 1 .. Len(buf) /\ DOMAIN roadmap = 1 .. Len(roadmap)
      /\ Len(buf) \in Nat /\ Len(roadmap) \in Nat /\ Len(buf) <= Len(roadmap)
      /\ attempts \in [Texts -> Nat] /\ crashes \in Nat
      /\ \A i \in DOMAIN roadmap : /\ roadmap[i].text \in Texts /\ roadmap[i].fails \in Nat
           /\ roadmap[i] = [text |-> roadmap[i].text, mark |-> roadmap[i].mark, fails |-> roadmap[i].fails]
  BY <1>2, RoadmapTypes DEF IInv, TypeOK, Grown
<1>4. roadmap' = buf
  <2>1. buf # <<>>
    BY <1>2, <1>3
  <2> QED BY <2>1 DEF WriteMark
<1>5. /\ NewLine.text = cur.text
      /\ pc = "writing" => NewLine.mark = "done" /\ NewLine.fails = roadmap[c].fails
      /\ pc = "writingFailed" => NewLine.mark = "failed" /\ NewLine.fails = roadmap[c].fails + 1
  <2> DEFINE l == roadmap[c]
             more == l.fails + 1
  <2>1. l = [text |-> l.text, mark |-> l.mark, fails |-> l.fails] /\ l.text = cur.text
    BY <1>2, <1>3
  <2>2. NewLine = IF pc = "writing" THEN [l EXCEPT !.mark = "done"] ELSE [l EXCEPT !.mark = "failed", !.fails = more]
    BY DEF NewLine
  <2> HIDE DEF l, more
  <2>3. [l EXCEPT !.mark = "done"] = [text |-> l.text, mark |-> "done", fails |-> l.fails]
    BY ONLY <2>1
  <2>4. [l EXCEPT !.mark = "failed", !.fails = more] = [text |-> l.text, mark |-> "failed", fails |-> more]
    <3> DEFINE q == [l EXCEPT !.mark = "failed", !.fails = more]
    <3>1. q = [l EXCEPT !.mark = "failed", !.fails = more]
      OBVIOUS
    <3> HIDE DEF q
    <3>2. q = [text |-> l.text, mark |-> "failed", fails |-> more]
      BY ONLY <2>1, <3>1
    <3> QED BY <3>2 DEF q
  <2>5. CASE pc = "writing"
    <3>1. NewLine = [text |-> l.text, mark |-> "done", fails |-> l.fails]
      BY <2>2, <2>3, <2>5
    <3> QED BY <2>1, <2>5, <3>1 DEF l
  <2>6. CASE pc = "writingFailed"
    <3>1. NewLine = [text |-> l.text, mark |-> "failed", fails |-> more]
      BY <2>2, <2>4, <2>6
    <3> QED BY <2>1, <2>6, <3>1 DEF l, more
  <2> QED BY <1>1, <2>5, <2>6
<1>6. \A i \in DOMAIN buf : i \in DOMAIN roadmap /\ buf[i].text = roadmap[i].text
  BY <1>2, <1>3, <1>5
<1>7. Trying' = {} /\ Owing' = {} /\ Finishing' = {}
  BY <1>1 DEF Trying, Owing, Finishing, InHand
<1>8. /\ Trying = {cur.text} /\ Finishing = IF pc = "writing" THEN {cur.text} ELSE {}
      /\ Owing = IF pc = "writingFailed" THEN {cur.text} ELSE {}
  BY <1>1 DEF Trying, Owing, Finishing, InHand
<1>9. ASSUME NEW i \in DOMAIN buf
      PROVE  Good(buf[i], attempts, crashes, {}, {}, {}, succeeded)
  <2>1. Good(roadmap[i], attempts, crashes, Trying, Owing, Finishing, succeeded) /\ i \in DOMAIN roadmap
    BY <1>6 DEF Book, GoodLine
  <2>2. CASE i # c
    <3>1. buf[i] = roadmap[i] /\ roadmap[i].text # cur.text
      BY <1>2, <2>1, <2>2 DEF Book, Distinct
    <3> QED BY <1>3, <1>8, <2>1, <3>1 DEF Good
  <2>3. CASE i = c /\ pc = "writing"
    <3>1. cur.text \in succeeded
      BY <1>8, <2>3 DEF Held
    <3>2. buf[i].text = cur.text /\ buf[i].mark = "done" /\ buf[i].fails = roadmap[i].fails
      BY <1>2, <1>5, <2>3
    <3> QED BY <1>2, <2>1, <2>3, <3>1, <3>2 DEF Good
  <2>4. CASE i = c /\ pc = "writingFailed"
    <3>1. buf[i].text = cur.text /\ buf[i].mark = "failed" /\ buf[i].fails = roadmap[i].fails + 1
      BY <1>2, <1>5, <2>4
    <3>2. roadmap[i].text = cur.text /\ roadmap[i].mark # "done" /\ roadmap[i].fails \in Nat /\ cur.text \in Texts
      BY <1>2, <1>3, <2>4
    <3> QED BY <1>3, <1>8, <2>1, <2>4, <3>1, <3>2 DEF Good
  <2> QED BY <1>1, <2>2, <2>3, <2>4
<1>10. Book'
  <2>1. \A i \in DOMAIN roadmap' : GoodLine(roadmap[i])'
    BY <1>1, <1>4, <1>7, <1>9 DEF GoodLine
  <2>2. Distinct(roadmap)'
    BY <1>4, <1>6 DEF Book, Distinct
  <2>3. ASSUME NEW t \in Texts, t \notin Named(roadmap)' PROVE Untried(t)'
    <3>1. Untried(t)
      <4>1. CASE t \in Named(roadmap)
        <5>1. PICK i \in DOMAIN roadmap : roadmap[i].text = t
          BY <4>1 DEF Named
        <5>2. i \notin DOMAIN buf
          BY <1>4, <1>6, <2>3, <5>1 DEF Named
        <5> QED BY <1>2, <1>3, <5>1, <5>2 DEF Grown
      <4>2. CASE t \notin Named(roadmap)
        BY <4>2 DEF Book
      <4> QED BY <4>1, <4>2
    <3> QED BY <1>1, <3>1 DEF Untried
  <2> QED BY <1>1, <2>1, <2>2, <2>3 DEF Book
<1>11. Held'
  BY <1>1, <1>2, <1>4, <1>5, <1>7 DEF Held
<1>12. Buffered'
  BY <1>1 DEF Buffered
<1> QED BY <1>10, <1>11, <1>12

\* An appended line of an unused text.
LEMMA Appended ==
  ASSUME NEW lines \in Seq(Lines), NEW t \in Texts, NEW more, more = Append(lines, Line(t))
  PROVE  /\ Len(lines) \in Nat /\ Len(more) = Len(lines) + 1
         /\ DOMAIN lines = 1 .. Len(lines) /\ DOMAIN more = 1 .. Len(lines) + 1
         /\ \A i \in 1 .. Len(lines) : more[i] = lines[i]
         /\ more[Len(lines) + 1] = Line(t)
<1>1. Line(t) \in Lines
  BY LineType
<1>2. /\ Len(more) = Len(lines) + 1 /\ more \in Seq(Lines)
      /\ \A i \in 1 .. Len(lines) : more[i] = lines[i]
      /\ more[Len(lines) + 1] = Line(t)
  BY <1>1, AppendProperties
<1>3. Len(more) \in Nat /\ DOMAIN more = 1 .. Len(more)
  BY <1>2, RoadmapTypes
<1> QED BY <1>2, <1>3, RoadmapTypes

\* What appendGeneratedItems is about to write is the roadmap with one line more.
LEMMA NewItemsKeep ==
  ASSUME IInv, Book, Held, NewItems
  PROVE  Book' /\ Held' /\ Buffered'
<1>1. /\ roadmap' = roadmap /\ attempts' = attempts /\ crashes' = crashes
      /\ succeeded' = succeeded /\ cur' = cur /\ pc = "extending" /\ pc' = "appending"
  BY DEF NewItems, file
<1>2. Trying = {} /\ Owing' = {} /\ Finishing = {} /\ Finishing' = {}
  BY <1>1 DEF Trying, Owing, Finishing, InHand
<1>3. Book'
  BY <1>1, <1>2, BookStays
<1>4. Held'
  BY <1>1, <1>2 DEF Held
<1>5. PICK t \in Unused : buf' = Append(roadmap, Line(t))
  BY DEF NewItems
<1>6. t \in Texts /\ t \notin Named(roadmap) /\ Untried(t)
  BY <1>5 DEF Unused, Named, Book
<1>7. roadmap \in Seq(Lines)
  BY DEF IInv, TypeOK
<1> DEFINE k == Len(roadmap)
<1>8. /\ k \in Nat /\ Len(buf') = k + 1 /\ DOMAIN roadmap = 1 .. k
      /\ \A i \in 1 .. k : buf'[i] = roadmap[i]
      /\ buf'[k + 1] = Line(t)
  BY <1>5, <1>6, <1>7, Appended
<1>9. Grown(k)' /\ Untried(t)'
  BY <1>1, <1>6, <1>8 DEF Grown, Untried
<1>10. \A i \in 1 .. k : buf'[i] = roadmap'[i] /\ roadmap'[i].text # t
  BY <1>1, <1>6, <1>8 DEF Named
<1>11. Buffered'
  <2>0. k' = k
    BY <1>1
  <2> HIDE DEF k
  <2>1. /\ Len(buf') = k + 1 /\ Grown(k)'
        /\ \A i \in 1 .. k : buf'[i] = roadmap'[i] /\ roadmap'[i].text # t
        /\ buf'[k + 1] = Line(t) /\ Untried(t)'
    BY <1>8, <1>9, <1>10
  <2> QED BY <1>1, <1>6, <1>8, <2>0, <2>1 DEF Buffered, Grown, Untried
<1> QED BY <1>3, <1>4, <1>11

\* Writing it drops only lines that nobody has been given yet.
LEMMA AppendNewItemsKeep ==
  ASSUME IInv, Book, Buffered, AppendNewItems
  PROVE  Book' /\ Held' /\ Buffered'
<1>1. /\ roadmap' = buf /\ attempts' = attempts /\ crashes' = crashes
      /\ succeeded' = succeeded /\ cur' = NoItem /\ pc = "appending" /\ pc' = "top"
  BY DEF AppendNewItems, Top
<1>2. PICK k \in Nat, t \in Texts :
        /\ Len(buf) = k + 1 /\ Grown(k)
        /\ \A i \in 1 .. k : buf[i] = roadmap[i] /\ roadmap[i].text # t
        /\ buf[k + 1] = Line(t) /\ Untried(t)
  BY <1>1 DEF Buffered
<1>3. /\ DOMAIN buf = 1 .. k + 1 /\ DOMAIN roadmap = 1 .. Len(roadmap) /\ Len(roadmap) \in Nat
      /\ k <= Len(roadmap) /\ attempts \in [Texts -> Nat] /\ crashes \in Nat
  BY <1>2, RoadmapTypes DEF IInv, TypeOK, Grown
<1>4. Trying = {} /\ Owing = {} /\ Finishing = {} /\ Trying' = {} /\ Owing' = {} /\ Finishing' = {}
  BY <1>1 DEF Trying, Owing, Finishing, InHand
<1>5. Line(t).text = t
  BY LineType
<1>6. ASSUME NEW i \in DOMAIN buf
      PROVE  Good(buf[i], attempts, crashes, {}, {}, {}, succeeded)
  <2>1. CASE i = k + 1
    BY <1>2, <1>3, <2>1, GoodNew DEF Untried
  <2>2. CASE i # k + 1
    <3>1. i \in 1 .. k /\ i \in DOMAIN roadmap
      BY <1>3, <2>2
    <3> QED BY <1>2, <1>4, <3>1 DEF Book, GoodLine
  <2> QED BY <2>1, <2>2
<1>7. Distinct(buf)
  <2> SUFFICES ASSUME NEW i \in DOMAIN buf, NEW j \in DOMAIN buf, buf[i].text = buf[j].text PROVE i = j
    BY DEF Distinct
  <2>1. CASE i = k + 1 \/ j = k + 1
    BY <1>2, <1>3, <1>5, <2>1
  <2>2. CASE i # k + 1 /\ j # k + 1
    <3>1. i \in 1 .. k /\ j \in 1 .. k /\ i \in DOMAIN roadmap /\ j \in DOMAIN roadmap
      BY <1>3, <2>2
    <3> QED BY <1>2, <3>1 DEF Book, Distinct
  <2> QED BY <2>1, <2>2
<1>8. ASSUME NEW u \in Texts, u \notin Named(buf) PROVE Untried(u)
  <2>1. CASE u \in Named(roadmap)
    <3>1. PICK i \in DOMAIN roadmap : roadmap[i].text = u
      BY <2>1 DEF Named
    <3>2. i \notin 1 .. k
      BY <1>2, <1>3, <1>8, <3>1 DEF Named
    <3> QED BY <1>2, <1>3, <3>1, <3>2 DEF Grown
  <2>2. CASE u \notin Named(roadmap)
    BY <2>2 DEF Book
  <2> QED BY <2>1, <2>2
<1>9. Book'
  <2>1. \A i \in DOMAIN roadmap' : GoodLine(roadmap[i])'
    BY <1>1, <1>4, <1>6 DEF GoodLine
  <2>2. Distinct(roadmap)'
    BY <1>1, <1>7 DEF Distinct
  <2>3. \A u \in Texts : u \notin Named(roadmap)' => Untried(u)'
    BY <1>1, <1>8 DEF Named, Untried
  <2> QED BY <1>1, <2>1, <2>2, <2>3 DEF Book
<1> QED BY <1>1, <1>4, <1>9 DEF Held, Buffered

\* An appended line disturbs nothing, not even what the loop is about to write.
LEMMA UserAppendsKeeps ==
  ASSUME IInv, Book, Held, Buffered, UserAppends
  PROVE  Book' /\ Held' /\ Buffered'
<1>1. /\ attempts' = attempts /\ crashes' = crashes /\ succeeded' = succeeded
      /\ cur' = cur /\ pc' = pc /\ buf' = buf
  BY DEF UserAppends, loop
<1>2. Trying' = Trying /\ Owing' = Owing /\ Finishing' = Finishing
  BY <1>1 DEF Trying, Owing, Finishing, InHand
<1>3. PICK t \in Unused : roadmap' = Append(roadmap, Line(t))
  BY DEF UserAppends
<1>4. t \in Texts /\ t \notin Named(roadmap) /\ Untried(t)
  BY <1>3 DEF Unused, Named, Book
<1>5. roadmap \in Seq(Lines) /\ attempts \in [Texts -> Nat] /\ crashes \in Nat
  BY DEF IInv, TypeOK
<1> DEFINE n == Len(roadmap)
<1>6. /\ n \in Nat /\ Len(roadmap') = n + 1 /\ DOMAIN roadmap = 1 .. n /\ DOMAIN roadmap' = 1 .. n + 1
      /\ \A i \in 1 .. n : roadmap'[i] = roadmap[i]
      /\ roadmap'[n + 1] = Line(t)
  BY <1>3, <1>4, <1>5, Appended
<1>7. Line(t).text = t
  BY <1>4, LineType
<1>8. t \notin Owing
  BY <1>4 DEF IInv, Room, Busy, Owing, InHand, Held, Named
<1>9. ASSUME NEW i \in DOMAIN roadmap'
      PROVE  Good(roadmap'[i], attempts, crashes, Trying, Owing, Finishing, succeeded)
  <2>1. CASE i = n + 1
    <3>1. Good(Line(t), attempts, crashes, Trying, Owing, Finishing, succeeded)
      BY <1>4, <1>5, <1>8, GoodNew DEF Untried
    <3> QED BY <1>6, <2>1, <3>1
  <2>2. CASE i # n + 1
    <3>1. i \in DOMAIN roadmap /\ roadmap'[i] = roadmap[i]
      BY <1>6, <2>2
    <3> QED BY <3>1 DEF Book, GoodLine
  <2> QED BY <2>1, <2>2
<1>10. Book'
  <2>1. \A i \in DOMAIN roadmap' : GoodLine(roadmap[i])'
    BY <1>1, <1>2, <1>9 DEF GoodLine
  <2>2. Distinct(roadmap)'
    BY <1>4, <1>6, <1>7 DEF Book, Distinct, Named
  <2>3. \A u \in Texts : u \notin Named(roadmap)' => Untried(u)'
    BY <1>1, <1>6 DEF Book, Named, Untried
  <2> QED BY <1>1, <2>1, <2>2, <2>3 DEF Book
<1>11. Held'
  BY <1>1, <1>2, <1>6 DEF Held
<1>12. ASSUME NEW k \in Nat, Grown(k) PROVE Grown(k)'
  BY <1>1, <1>4, <1>6, <1>7, <1>12 DEF Grown, Untried
<1>13. Buffered'
  <2>1. CASE pc \in {"writing", "writingFailed"}
    <3>1. /\ Grown(Len(buf)) /\ cur.line \in DOMAIN buf
          /\ \A i \in DOMAIN buf : buf[i] = IF i = cur.line THEN NewLine ELSE roadmap[i]
      BY <2>1 DEF Buffered
    <3>2. Len(buf) \in Nat /\ DOMAIN buf = 1 .. Len(buf)
      BY RoadmapTypes DEF IInv, TypeOK
    <3>3. DOMAIN buf \subseteq DOMAIN roadmap
      BY <1>6, <3>1, <3>2 DEF Grown
    <3>4. NewLine' = NewLine
      BY <1>1, <1>6, <3>1, <3>3 DEF NewLine
    <3>5. Grown(Len(buf))'
      BY <1>1, <1>12, <3>1, <3>2 DEF Grown
    <3>6. \A i \in DOMAIN buf' : buf'[i] = IF i = cur'.line THEN NewLine' ELSE roadmap'[i]
      BY <1>1, <1>6, <3>1, <3>3, <3>4
    <3> QED BY <1>1, <2>1, <3>1, <3>5, <3>6 DEF Buffered
  <2>2. CASE pc = "appending"
    <3>1. PICK k \in Nat, u \in Texts :
            /\ Len(buf) = k + 1 /\ Grown(k)
            /\ \A i \in 1 .. k : buf[i] = roadmap[i] /\ roadmap[i].text # u
            /\ buf[k + 1] = Line(u) /\ Untried(u)
      BY <2>2 DEF Buffered
    <3>2. 1 .. k \subseteq 1 .. n
      BY <1>6, <3>1 DEF Grown
    <3>3. \A i \in 1 .. k : buf'[i] = roadmap'[i] /\ roadmap'[i].text # u
      BY <1>1, <1>6, <3>1, <3>2
    <3>4. Grown(k)' /\ Untried(u)'
      BY <1>1, <1>12, <3>1 DEF Untried
    <3> QED BY <1>1, <2>2, <3>1, <3>3, <3>4 DEF Buffered
  <2>3. CASE pc \notin {"writing", "writingFailed", "appending"}
    BY <1>1, <2>3 DEF Buffered
  <2> QED BY <2>1, <2>2, <2>3
<1> QED BY <1>10, <1>11, <1>13

\* A crash forgets the item in hand; its attempt is accounted to the crash.
LEMMA CrashKeeps ==
  ASSUME IInv, Book, Crash
  PROVE  Book' /\ Held' /\ Buffered'
<1>1. /\ roadmap' = roadmap /\ attempts' = attempts /\ crashes' = crashes + 1
      /\ succeeded' = succeeded /\ cur' = NoItem /\ pc' = "off"
  BY DEF Crash, file
<1>2. Trying' = {} /\ Owing' = {} /\ Finishing' = {}
  BY <1>1 DEF Trying, Owing, Finishing, InHand
<1>3. /\ roadmap \in Seq(Lines) /\ attempts \in [Texts -> Nat] /\ crashes \in Nat
  BY DEF IInv, TypeOK
<1>4. ASSUME NEW i \in DOMAIN roadmap
      PROVE  Good(roadmap[i], attempts, crashes + 1, {}, {}, {}, succeeded)
  <2>1. Good(roadmap[i], attempts, crashes, Trying, Owing, Finishing, succeeded)
    BY DEF Book, GoodLine
  <2>2. roadmap[i].fails \in Nat /\ roadmap[i].text \in Texts
    BY <1>3, RoadmapTypes
  <2> QED BY <1>3, <2>1, <2>2 DEF Good
<1>5. \A i \in DOMAIN roadmap' : GoodLine(roadmap[i])'
  BY <1>1, <1>2, <1>4 DEF GoodLine
<1>6. \A t \in Texts : attempts'[t] <= MaxRetries + crashes'
  BY <1>1, <1>3, Limits DEF Book
<1>7. Book'
  BY <1>1, <1>5, <1>6 DEF Book, Distinct, Named, Untried
<1> QED BY <1>1, <1>2, <1>7 DEF Held, Buffered

-----------------------------------------------------------------------------
(* The invariant is inductive                                              *)

\* An item that may be given to an agent.
Open(item) ==
  /\ item.line \in DOMAIN roadmap /\ roadmap[item.line].text = item.text
  /\ roadmap[item.line].mark # "done"
  /\ roadmap[item.line].mark = "pending" \/ roadmap[item.line].fails < MaxRetries

\* What the head of the loop gives to an agent may be given to it.
LEMMA ChosenKeeps ==
  ASSUME IInv, Book, Held, Buffered, Look \/ NoNewItems
  PROVE  /\ Book' /\ Held' /\ Buffered'
         /\ crashes = 0 => \A t \in succeeded : attempts'[t] = attempts[t]
<1>1. /\ pc \in {"top", "extending"} /\ UNCHANGED <<file, extend, buf, doneCount, succeeded, crashes>>
      /\ \/ EndLoop
         \/ pc = "top" /\ pc' = "extending" /\ cur' = Item(NextItem) /\ UNCHANGED attempts
         \/ pc = "top" /\ Dispatch(Item(NextItem))
         \/ pc = "extending" /\ Dispatch(cur)
  BY DEF Look, NoNewItems
<1>2. CASE EndLoop
  <2>1. Book' /\ Held' /\ Buffered'
    BY <1>1, <1>2, QuietSteps DEF QuietStep
  <2> QED BY <1>2, <2>1 DEF EndLoop
<1>3. CASE pc = "top" /\ pc' = "extending" /\ cur' = Item(NextItem) /\ UNCHANGED attempts
  <2>1. Book' /\ Held' /\ Buffered'
    BY <1>1, <1>3, QuietSteps DEF QuietStep
  <2> QED BY <1>3, <2>1
<1>4. ASSUME NEW item \in Items, item # NoItem => Open(item), Dispatch(item)
      PROVE  /\ Book' /\ Held' /\ Buffered'
             /\ crashes = 0 => \A t \in succeeded : attempts'[t] = attempts[t]
  <2>1. item # NoItem
    BY <1>4 DEF Dispatch
  <2>2. roadmap[item.line].fails < MaxRetries
    BY <1>4, <2>1, Limits DEF Open, Book, GoodLine, Good
  <2>3. /\ Book' /\ Held' /\ Buffered'
        /\ crashes = 0 => item.text \notin succeeded
    <3>1. /\ item.line \in DOMAIN roadmap /\ roadmap[item.line].text = item.text
          /\ roadmap[item.line].mark # "done"
      BY <1>4, <2>1 DEF Open
    <3>2. /\ pc \in {"top", "extending"} /\ Dispatch(item)
          /\ UNCHANGED <<file, extend, buf, doneCount, succeeded, crashes>>
      BY <1>1, <1>4
    <3> QED BY <2>2, <3>1, <3>2, DispatchKeeps
  <2>4. attempts \in [Texts -> Nat] /\ succeeded \subseteq Texts
    BY DEF IInv, TypeOK
  <2>5. \A t \in Texts : t # item.text => attempts'[t] = attempts[t]
    BY <1>4, <2>4 DEF Dispatch
  <2> QED BY <2>3, <2>4, <2>5
<1>5. CASE pc = "top" /\ Dispatch(Item(NextItem))
  <2>1. Item(NextItem) \in Items /\ (Item(NextItem) # NoItem => Open(Item(NextItem)))
    BY ItemShows DEF IInv, Open
  <2> QED BY <1>4, <1>5, <2>1
<1>6. CASE pc = "extending" /\ Dispatch(cur)
  <2>1. cur \in Items
    BY DEF IInv, TypeOK
  <2>2. cur # NoItem => Open(cur)
    BY <1>6 DEF Held, Open
  <2> QED BY <1>4, <1>6, <2>1, <2>2
<1> QED BY <1>1, <1>2, <1>3, <1>5, <1>6

\* Every step keeps the order of things while people only append.
LEMMA OrderlyKept == IInv /\ [Next]_vars => Orderly'
<1> SUFFICES ASSUME IInv, [Next]_vars, Undisturbed' PROVE Book' /\ Held' /\ Buffered'
  BY DEF Orderly
<1>1. ~UserInserts /\ ~ResetRead
  BY DEF UserInserts, ResetRead, Undisturbed, IInv, TypeOK
<1>2. Undisturbed
  <2>1. (inserts' = inserts /\ resets' = resets) \/ UserInserts \/ ResetRead
    BY DEF Next, vars, LoopStep, Begin, Look, NoNewItems, NewItems, AppendNewItems, AgentReturns, FixerReturns,
       MarkItem, MarkThrows, WriteMark, UserAppends, UserStops, ResetWrite, Crash, file, loop
  <2> QED BY <1>1, <2>1 DEF Undisturbed
<1>3. Book /\ Held /\ Buffered
  BY <1>2 DEF IInv, Orderly
<1>4. CASE LoopStep
  <2>1. CASE Look \/ NoNewItems
    BY <1>3, <2>1, ChosenKeeps
  <2>2. CASE NewItems
    BY <1>3, <2>2, NewItemsKeep
  <2>3. CASE AppendNewItems
    BY <1>3, <2>3, AppendNewItemsKeep
  <2>4. CASE \E ok \in BOOLEAN : AgentReturns(ok) \/ FixerReturns(ok)
    BY <1>3, <2>4, QuietSteps DEF QuietStep
  <2>5. CASE \E status \in {"done", "failed"} : MarkItem(status)
    BY <1>3, <2>5, MarkKeeps
  <2>6. ~MarkThrows
    BY <1>3 DEF MarkThrows, IInv, Room, Busy, Held
  <2>7. CASE WriteMark
    BY <1>3, <2>7, WriteKeeps
  <2> QED BY <1>4, <2>1, <2>2, <2>3, <2>4, <2>5, <2>6, <2>7 DEF LoopStep
<1>5. CASE Begin \/ UserStops
  <2>1. QuietStep
    BY <1>5 DEF QuietStep
  <2> QED BY <1>3, <2>1, QuietSteps
<1>6. CASE UserAppends
  BY <1>3, <1>6, UserAppendsKeeps
<1>7. ~ResetWrite
  BY <1>2 DEF ResetWrite, Undisturbed, IInv, Quiet
<1>8. CASE Crash
  BY <1>3, <1>8, CrashKeeps
<1>9. CASE UNCHANGED vars
  <2> USE <1>9 DEF vars
  <2>1. Trying' = Trying /\ Owing' = Owing /\ Finishing' = Finishing
    BY DEF Trying, Owing, Finishing, InHand
  <2>2. Book'
    BY <1>3, <2>1, BookStays
  <2>3. Held' /\ Buffered'
    BY <1>3, <2>1 DEF Held, Buffered, Grown, NewLine, Untried
  <2> QED BY <2>2, <2>3
<1> QED BY <1>1, <1>4, <1>5, <1>6, <1>7, <1>8, <1>9 DEF Next

\* The invariant holds at the beginning.
LEMMA InitIInv == Init => IInv
<1> SUFFICES ASSUME Init PROVE IInv
  OBVIOUS
<1>1. TypeOK
  BY InitTypes
<1>2. Quiet /\ Room /\ Held /\ Buffered
  BY DEF Init, Quiet, Room, Busy, Held, Finishing, InHand, Buffered
<1>3. /\ DOMAIN roadmap = DOMAIN Start
      /\ \A i \in DOMAIN roadmap : roadmap[i] = Line(Start[i]) /\ Start[i] \in Texts
  BY StartLines DEF Init
<1>4. \A i \in DOMAIN roadmap : GoodLine(roadmap[i])
  <2>1. \A t \in Texts : attempts[t] = 0 /\ t \notin succeeded /\ t \notin Owing
    BY DEF Init, Owing, InHand
  <2>2. attempts \in [Texts -> Nat] /\ crashes \in Nat
    BY <1>1 DEF TypeOK
  <2> QED BY <1>3, <2>1, <2>2, GoodNew DEF GoodLine
<1>5. Distinct(roadmap)
  BY <1>3, LineType, Limits DEF Distinct
<1>6. \A t \in Texts : Untried(t) /\ attempts[t] <= MaxRetries + crashes
  BY Limits DEF Init, Untried
<1>7. Book
  BY <1>4, <1>5, <1>6 DEF Book
<1> QED BY <1>1, <1>2, <1>7 DEF IInv, Orderly

\* Every step keeps the invariant.
LEMMA NextIInv == IInv /\ [Next]_vars => IInv'
<1> SUFFICES ASSUME IInv, [Next]_vars PROVE IInv'
  OBVIOUS
<1>1. Orderly'
  BY OrderlyKept
<1>2. TypeOK' /\ Room'
  <2>1. CASE LoopStep
    BY <2>1, LoopTypes DEF IInv
  <2>2. CASE Begin \/ UserAppends \/ UserInserts \/ UserStops \/ ResetRead \/ ResetWrite \/ Crash
    BY <2>2, WorldTypes DEF IInv
  <2>3. CASE UNCHANGED vars
    BY <2>3 DEF vars, IInv, TypeOK, Room, Busy
  <2> QED BY <2>1, <2>2, <2>3 DEF Next
<1>3. Quiet'
  <2>1. CASE ResetRead
    BY <2>1 DEF ResetRead, Quiet, IInv, TypeOK
  <2>2. CASE ResetWrite
    BY <2>2 DEF ResetWrite, Quiet
  <2>3. CASE ~ResetRead /\ ~ResetWrite
    <3>1. reset' = reset /\ resets' = resets
      BY <2>3 DEF Next, vars, LoopStep, Begin, Look, NoNewItems, NewItems, AppendNewItems, AgentReturns,
         FixerReturns, MarkItem, MarkThrows, WriteMark, UserAppends, UserInserts, UserStops, Crash, file, loop
    <3> QED BY <3>1 DEF Quiet, IInv
  <2> QED BY <2>1, <2>2, <2>3
<1> QED BY <1>1, <1>2, <1>3 DEF IInv

\* The invariant is inductive.
LEMMA Inductive == Spec => []IInv
<1> QED BY InitIInv, NextIInv, PTL DEF Spec

-----------------------------------------------------------------------------
(* The theorems                                                            *)

\* The variables of the PM loop have their types.
THEOREM TypeCorrect == Spec => []TypeOK
<1>1. IInv => TypeOK
  BY DEF IInv
<1> QED BY <1>1, Inductive, PTL

\* While people only append, a line of ROADMAP.md is marked done only when its own
\* item was finished, and shows no more failures than its item had attempts: the
\* file that markItem reads after minutes of work is not the one that the loop read.
THEOREM MarksTrue == Spec => []MarksAreTrue
<1>1. IInv => MarksAreTrue
  BY DEF IInv, Orderly, Book, GoodLine, Good, MarksAreTrue
<1> QED BY <1>1, Inductive, PTL

\* An item is given to an agent at most MAX_RETRIES times, and once more for every
\* crash that came before its failure was written down.
THEOREM AttemptsBound == Spec => []AttemptsBounded
<1>1. IInv => AttemptsBounded
  BY DEF IInv, Orderly, Book, AttemptsBounded
<1> QED BY <1>1, Inductive, PTL

\* Without a crash between the agent's answer and the mark, a finished item is
\* never given to an agent again.
THEOREM FinishedOnce == Spec => FinishedNotRepeated
<1> DEFINE Kept == Undisturbed /\ crashes = 0 => \A t \in succeeded : attempts'[t] = attempts[t]
<1>1. ASSUME IInv, [Next]_vars, Undisturbed, crashes = 0
      PROVE  \A t \in succeeded : attempts'[t] = attempts[t]
  <2>1. CASE Look \/ NoNewItems
    BY <1>1, <2>1, ChosenKeeps DEF IInv, Orderly
  <2>2. CASE ~Look /\ ~NoNewItems
    <3>1. attempts' = attempts
      BY <1>1, <2>2 DEF Next, vars, LoopStep, Begin, NewItems, AppendNewItems, AgentReturns, FixerReturns,
         MarkItem, MarkThrows, WriteMark, UserAppends, UserInserts, UserStops, ResetRead, ResetWrite, Crash,
         file, loop
    <3> QED BY <3>1
  <2> QED BY <2>1, <2>2
<1>2. IInv /\ [Next]_vars => [Kept]_vars
  BY <1>1
<1> QED BY <1>2, Inductive, PTL DEF Spec, FinishedNotRepeated
=============================================================================
