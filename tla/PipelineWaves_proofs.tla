------------------------ MODULE PipelineWaves_proofs ------------------------
(***************************************************************************)
(* Proofs about PipelineWaves, for any waves, bounds and circumstances:    *)
(* the types, that the state file is current, that a pipeline implements   *)
(* WaveSequence, and that no retry goes uncounted.                         *)
(***************************************************************************)
EXTENDS PipelineWaves, SequenceTheorems, TLAPS

\* A pipeline, and a state file, that has reached one of its waves.
GoodPipe(p) == p \in Pipes /\ p.cur \in 1 .. Len(p.waves) /\ Len(p.waves) <= MaxWaves
GoodFile(d) == d \in Saveds /\ d.cur \in 1 .. Len(d.waves) /\ Len(d.waves) <= MaxWaves

\* The user is told that the pipeline is running as long as something of it is
\* left; a retry timer holds no other pipeline than the one in memory.
Placed ==
  /\ Running => GoodPipe(pipe) /\ outcome = "running"
  /\ disk # NoFile => GoodFile(disk) /\ outcome = "running"
  /\ \A tm \in timers : tm.live => Running

IInv == TypeOK /\ Placed /\ DiskIsCurrent

-----------------------------------------------------------------------------
LEMMA Bounds ==
  /\ MaxWaves \in Nat /\ MaxTasks \in Nat /\ MaxResults \in Nat /\ MaxResumes \in Nat
  /\ Waves \in Seq(Seq(Roles)) /\ Len(Waves) \in 1 .. MaxWaves
  /\ MaxWaveRetries = 1
<1>1. Len(Waves) \in Nat /\ Len(Waves) # 0
  BY WavesAssumption, EmptySeq
<1> QED BY <1>1, WavesAssumption, BoundsAssumption DEF MaxWaveRetries

LEMMA NoPipeIsNoPipe == NoPipe.cur = 0 /\ NoFile.cur = 0
BY DEF NoPipe, NoFile

LEMMA GoodIsSome ==
  /\ \A p : GoodPipe(p) => p # NoPipe /\ p.cur # 0
  /\ \A d : GoodFile(d) => d # NoFile /\ d.cur # 0
BY NoPipeIsNoPipe DEF GoodPipe, GoodFile

LEMMA SavedIsGood == ASSUME NEW p, GoodPipe(p) PROVE GoodFile(Saved(p)) /\ Saved(p).cur = p.cur
BY DEF GoodPipe, GoodFile, Saved, Pipes, Saveds

LEMMA EntryTypes == /\ Unused \in Entries /\ Gone \in Entries
                    /\ \A w \in Nat : Sent(w) \in Entries
BY DEF Unused, Gone, Entries, Sent

LEMMA OrphanedTypes ==
  ASSUME NEW tms \in SUBSET Timers
  PROVE  /\ Orphaned(tms) \in SUBSET Timers
         /\ \A tm \in Orphaned(tms) : ~tm.live /\ \E old \in tms : old.wave = tm.wave
BY DEF Orphaned, Timers

LEMMA DispatchedTypes ==
  ASSUME NEW ts \in [TaskIds -> Entries], NEW n, NEW entry \in Entries
  PROVE  Dispatched(ts, n, entry) \in [TaskIds -> Entries]
BY DEF Dispatched

LEMMA FreeTypes ==
  ASSUME TypeOK, NEW ts, NEW n, Free(ts, n)
  PROVE  IdsFrom(ts, n) \in SUBSET TaskIds
<1>1. env.dispatches \in 0 .. MaxTasks
  BY EnvironmentAssumption DEF TypeOK, Circumstances
<1> QED BY <1>1, Bounds DEF Free, TaskIds

THEOREM InitInvariant == Init => IInv
<1> SUFFICES ASSUME Init PROVE IInv
  OBVIOUS
<1>1. TypeOK
  BY EntryTypes, Bounds DEF Init, TypeOK
<1> QED BY <1>1 DEF Init, IInv, Placed, DiskIsCurrent, Running

-----------------------------------------------------------------------------
\* The pipeline has ended, or it waits for a wave that the state file knows.
EndedNow(result) == pipe' = NoPipe /\ disk' = NoFile /\ outcome' = result
WaitsNow(wave, count) ==
  /\ GoodPipe(pipe') /\ pipe'.cur = wave /\ Len(pipe'.waves) = count
  /\ disk' = Saved(pipe') /\ outcome' = "running"

\* Each timer that is left was there before.
NoNewTimer(tms) == \A tm \in timers' : \E old \in tms : old.wave = tm.wave

LEMMA DispatchWaveShows ==
  ASSUME TypeOK, NEW p \in Pipes, p.cur >= 1, Len(p.waves) <= MaxWaves,
         NEW ts \in [TaskIds -> Entries], NEW tms \in SUBSET Timers,
         DispatchWave(p, ts, tms)
  PROVE  /\ tasks' \in [TaskIds -> Entries] /\ timers' \in SUBSET Timers
         /\ NoNewTimer(tms)
         /\ \/ p.cur > Len(p.waves) /\ EndedNow("completed") /\ \A tm \in timers' : ~tm.live
            \/ p.cur <= Len(p.waves) /\ WaitsNow(p.cur, Len(p.waves)) /\ timers' = tms
<1>0. p.cur \in Nat /\ Len(p.waves) \in Nat
  BY DEF Pipes
<1>1. CASE p.cur > Len(p.waves)
  <2>1. Drop("completed") /\ tasks' = ts /\ timers' = Orphaned(tms)
    <3>1. ~(p.cur <= Len(p.waves))
      BY <1>0, <1>1
    <3> QED BY <3>1, Zenon DEF DispatchWave
  <2> QED BY <1>1, <2>1, OrphanedTypes DEF Drop, EndedNow, NoNewTimer
<1>2. CASE p.cur <= Len(p.waves)
  <2>p. ~(p.cur > Len(p.waves))
    BY <1>0, <1>2
  <2>0. disk' = Saved(p) /\ timers' = tms /\ outcome' = "running"
    BY <2>p, Zenon DEF DispatchWave
  <2>1. PICK n \in Accepted(Len(p.waves[p.cur])) :
          /\ Free(ts, n)
          /\ tasks' = Dispatched(ts, n, Sent(p.cur))
          /\ pipe' = [p EXCEPT !.pending = IdsFrom(ts, n), !.results = <<>>]
    BY <2>p, Zenon DEF DispatchWave
  <2>2. tasks' \in [TaskIds -> Entries]
    <3>1. Sent(p.cur) \in Entries
      BY EntryTypes DEF Pipes
    <3> QED BY <2>1, <3>1, DispatchedTypes
  <2>3. IdsFrom(ts, n) \in SUBSET TaskIds /\ <<>> \in Seq(AllContents)
    BY <2>1, FreeTypes
  <2>a. /\ p = [waves |-> p.waves, cur |-> p.cur, retries |-> p.retries,
                qaLoops |-> p.qaLoops, pending |-> p.pending, results |-> p.results]
        /\ p.waves \in Seq(Seq(Roles)) /\ p.cur \in Nat
        /\ p.retries \in [WaveIds -> Nat] /\ p.qaLoops \in [WaveIds -> Nat]
    BY DEF Pipes
  <2>b. pipe' = [waves |-> p.waves, cur |-> p.cur, retries |-> p.retries,
                 qaLoops |-> p.qaLoops, pending |-> IdsFrom(ts, n), results |-> <<>>]
    BY <2>1, <2>a
  <2>4. /\ pipe' \in Pipes /\ pipe'.waves = p.waves /\ pipe'.cur = p.cur
        /\ pipe'.retries = p.retries /\ pipe'.qaLoops = p.qaLoops
    BY <2>a, <2>b, <2>3 DEF Pipes
  <2>5. GoodPipe(pipe')
    BY <1>2, <2>4 DEF GoodPipe, Pipes
  <2>6. disk' = Saved(pipe')
    BY <2>0, <2>4 DEF Saved
  <2> QED BY <1>2, <2>0, <2>2, <2>4, <2>5, <2>6 DEF WaitsNow, NoNewTimer
<1> QED BY <1>1, <1>2 DEF Pipes

\* What is proved of every step, besides the invariant.
Counted ==
  \A tm \in timers' :
    tm.wave \notin {old.wave : old \in timers} =>
      /\ disk'.retries[tm.wave] = pipe.retries[tm.wave] + 1
      /\ disk'.retries[tm.wave] <= MaxWaveRetries
Follows == Sequence!Next \/ UNCHANGED Sequence!vars
StepIsKept == IInv' /\ Counted /\ Follows

\* What a pipeline in memory, and one on disk only, has reached.
LEMMA Position ==
  ASSUME IInv
  PROVE  /\ Running => /\ Reached = pipe.cur /\ WaveCount = Len(pipe.waves)
                       /\ Reached # 0 /\ outcome = "running"
         /\ disk # NoFile => /\ Running => disk = Saved(pipe)
                             /\ Reached = disk.cur /\ WaveCount = Len(disk.waves)
                             /\ Reached # 0 /\ outcome = "running"
         /\ ~Running /\ disk = NoFile => Reached = 0 /\ WaveCount = 0
<1>1. ASSUME Running
      PROVE  Reached = pipe.cur /\ WaveCount = Len(pipe.waves) /\ Reached # 0 /\ outcome = "running"
  BY <1>1, GoodIsSome DEF IInv, Placed, Reached, WaveCount
<1>2. ASSUME disk # NoFile
      PROVE  /\ Running => disk = Saved(pipe)
             /\ Reached = disk.cur /\ WaveCount = Len(disk.waves)
             /\ Reached # 0 /\ outcome = "running"
  <2>1. CASE Running
    <3>1. disk = Saved(pipe)
      BY <1>2, <2>1 DEF IInv, DiskIsCurrent
    <3>2. disk.cur = pipe.cur /\ disk.waves = pipe.waves
      BY <3>1 DEF Saved
    <3> QED BY <1>1, <2>1, <3>1, <3>2
  <2>2. CASE ~Running
    BY <1>2, <2>2, GoodIsSome DEF IInv, Placed, Reached, WaveCount
  <2> QED BY <2>1, <2>2
<1>3. ~Running /\ disk = NoFile => Reached = 0 /\ WaveCount = 0
  BY NoPipeIsNoPipe DEF Reached, WaveCount
<1> QED BY <1>1, <1>2, <1>3

\* The variables that no lemma below is about keep their types.
TypesKept ==
  /\ env' = env
  /\ tasks' \in [TaskIds -> Entries] /\ timers' \in SUBSET Timers
  /\ conn' \in {"up", "down"} /\ resumeDue' \in Nat /\ resumes' \in 0 .. MaxResumes

LEMMA NoNewIsCounted ==
  ASSUME NoNewTimer(timers) \/ NoNewTimer(Orphaned(timers)) \/ timers' \subseteq timers, TypeOK
  PROVE  Counted
<1>1. \A tm \in Orphaned(timers) : \E old \in timers : old.wave = tm.wave
  BY OrphanedTypes DEF TypeOK
<1>2. \A tm \in timers' : \E old \in timers : old.wave = tm.wave
  BY <1>1 DEF NoNewTimer
<1> QED BY <1>2 DEF Counted

(* The pipeline ends, complete only after its last wave.                   *)
LEMMA Ends ==
  ASSUME IInv, TypesKept, Counted, NEW result \in {"completed", "halted", "cancelled"},
         Running, result = "completed" => pipe.cur = Len(pipe.waves),
         EndedNow(result), \A tm \in timers' : ~tm.live
  PROVE  StepIsKept
<1>1. TypeOK'
  BY DEF IInv, TypeOK, EndedNow, TypesKept
<1>2. ~Running' /\ Reached' = 0 /\ WaveCount' = 0
  BY NoPipeIsNoPipe DEF EndedNow, Running, Reached, WaveCount
<1>3. Placed' /\ DiskIsCurrent'
  BY <1>2 DEF Placed, DiskIsCurrent, EndedNow
<1>4. Reached # 0 /\ (result = "completed" => Reached = WaveCount)
  BY Position
<1>5. Sequence!Complete \/ Sequence!GiveUp
  BY <1>2, <1>4 DEF EndedNow, Sequence!Complete, Sequence!GiveUp, Sequence!Ended
<1>6. Follows
  BY <1>5 DEF Follows, Sequence!Next
<1> QED BY <1>1, <1>3, <1>6 DEF StepIsKept, IInv

\* The wave a pipeline may wait for next, of how many.
Proceeds(wave, count) ==
  \/ outcome = "none" /\ wave = 1 /\ count \in Nat \ {0}
  \/ /\ Reached # 0 /\ outcome = "running"
     /\ \/ wave = Reached /\ count = WaveCount
        \/ wave = Reached + 1 /\ Reached < WaveCount /\ count = WaveCount
        \/ wave = Reached + 1 /\ count = WaveCount + 2

(* The pipeline waits for a wave.                                          *)
LEMMA Waits ==
  ASSUME IInv, TypesKept, Counted, NEW wave, NEW count, WaitsNow(wave, count), Proceeds(wave, count)
  PROVE  StepIsKept
<1>1. GoodPipe(pipe') /\ GoodFile(disk') /\ disk' = Saved(pipe') /\ outcome' = "running"
  BY SavedIsGood DEF WaitsNow
<1>2. TypeOK'
  BY <1>1 DEF IInv, TypeOK, GoodPipe, GoodFile, TypesKept
<1>3. Running' /\ Reached' = wave /\ WaveCount' = count
  BY <1>1, GoodIsSome DEF Running, Reached, WaveCount, WaitsNow
<1>4. Placed' /\ DiskIsCurrent'
  BY <1>1, <1>3 DEF Placed, DiskIsCurrent
<1>5. Follows
  <2>1. CASE outcome = "none" /\ wave = 1 /\ count \in Nat \ {0}
    <3>1. Sequence!Begin
      BY <1>1, <1>3, <2>1 DEF Sequence!Begin
    <3> QED BY <3>1 DEF Follows, Sequence!Next
  <2>2. CASE outcome = "running" /\ wave = Reached /\ count = WaveCount
    BY <1>1, <1>3, <2>2 DEF Follows, Sequence!vars
  <2>3. CASE /\ Reached # 0 /\ outcome = "running" /\ wave = Reached + 1
             /\ (Reached < WaveCount /\ count = WaveCount) \/ count = WaveCount + 2
    <3>1. Sequence!Advance
      BY <1>1, <1>3, <2>3 DEF Sequence!Advance
    <3> QED BY <3>1 DEF Follows, Sequence!Next
  <2> QED BY <2>1, <2>2, <2>3 DEF Proceeds
<1> QED BY <1>2, <1>4, <1>5 DEF StepIsKept, IInv

(* The pipeline goes on waiting, or there is none.                         *)
LEMMA GoesOn ==
  ASSUME IInv, TypesKept, timers' \subseteq timers, UNCHANGED <<disk, outcome>>,
         \/ pipe' = pipe
         \/ Running /\ GoodPipe(pipe') /\ Saved(pipe') = Saved(pipe)
  PROVE  StepIsKept
<1>0. Counted
  BY NoNewIsCounted DEF IInv
<1>1. CASE pipe' = pipe
  <2>1. TypeOK' /\ Placed' /\ DiskIsCurrent'
    BY <1>1 DEF IInv, TypeOK, Placed, DiskIsCurrent, Running, TypesKept
  <2>2. Follows
    BY <1>1 DEF Reached, WaveCount, Running, Follows, Sequence!vars
  <2> QED BY <1>0, <2>1, <2>2 DEF StepIsKept, IInv
<1>2. CASE Running /\ GoodPipe(pipe') /\ Saved(pipe') = Saved(pipe)
  <2>1. TypeOK'
    BY <1>2 DEF IInv, TypeOK, GoodPipe, TypesKept
  <2>2. Running'
    BY <1>2, GoodIsSome DEF Running
  <2>3. Placed' /\ DiskIsCurrent'
    BY <1>2, <2>2 DEF IInv, Placed, DiskIsCurrent, TypesKept
  <2>4. pipe'.cur = pipe.cur /\ pipe'.waves = pipe.waves
    BY <1>2 DEF Saved
  <2>5. Follows
    BY <1>2, <2>2, <2>4 DEF Reached, WaveCount, Follows, Sequence!vars
  <2> QED BY <1>0, <2>1, <2>3, <2>5 DEF StepIsKept, IInv
<1> QED BY <1>1, <1>2

-----------------------------------------------------------------------------
(* A pipeline whose pending and results change.                            *)
LEMMA Changed ==
  ASSUME GoodPipe(pipe), NEW pend \in SUBSET TaskIds, NEW res \in Seq(AllContents), NEW p,
         p = [pipe EXCEPT !.pending = pend, !.results = res]
  PROVE  /\ GoodPipe(p) /\ Saved(p) = Saved(pipe)
         /\ p.cur = pipe.cur /\ p.waves = pipe.waves /\ p.retries = pipe.retries
<1>1. /\ pipe = [waves |-> pipe.waves, cur |-> pipe.cur, retries |-> pipe.retries,
                 qaLoops |-> pipe.qaLoops, pending |-> pipe.pending, results |-> pipe.results]
      /\ pipe.waves \in Seq(Seq(Roles)) /\ pipe.cur \in Nat
      /\ pipe.retries \in [WaveIds -> Nat] /\ pipe.qaLoops \in [WaveIds -> Nat]
  BY DEF GoodPipe, Pipes
<1>2. p = [waves |-> pipe.waves, cur |-> pipe.cur, retries |-> pipe.retries,
           qaLoops |-> pipe.qaLoops, pending |-> pend, results |-> res]
  BY <1>1
<1>3. p \in Pipes
  BY <1>1, <1>2 DEF Pipes
<1> QED BY <1>2, <1>3 DEF GoodPipe, Saved

(* A pipeline is the record of its fields.                                 *)
LEMMA PipeFields ==
  ASSUME NEW p, GoodPipe(p)
  PROVE  /\ p = [waves |-> p.waves, cur |-> p.cur, retries |-> p.retries,
                 qaLoops |-> p.qaLoops, pending |-> p.pending, results |-> p.results]
         /\ p.waves \in Seq(Seq(Roles)) /\ p.retries \in [WaveIds -> Nat] /\ p.qaLoops \in [WaveIds -> Nat]
         /\ p.pending \in SUBSET TaskIds /\ p.results \in Seq(AllContents)
         /\ Len(p.waves) \in Nat /\ p.cur \in Nat /\ p.cur \in WaveIds
         /\ p.cur >= 1 /\ p.cur <= Len(p.waves) /\ Len(p.waves) <= MaxWaves
<1>1. p \in Pipes
  BY DEF GoodPipe
<1>2. p.waves \in Seq(Seq(Roles)) /\ p.cur \in Nat
  BY <1>1 DEF Pipes
<1>3. Len(p.waves) \in Nat
  BY <1>2
<1>4. p.cur >= 1 /\ p.cur <= Len(p.waves) /\ Len(p.waves) <= MaxWaves
  BY <1>2, <1>3 DEF GoodPipe
<1>5. p.cur \in WaveIds
  BY <1>2, <1>3, <1>4, Bounds DEF WaveIds
<1>6. p = [waves |-> p.waves, cur |-> p.cur, retries |-> p.retries,
           qaLoops |-> p.qaLoops, pending |-> p.pending, results |-> p.results]
  BY <1>1 DEF Pipes
<1>7. /\ p.retries \in [WaveIds -> Nat] /\ p.qaLoops \in [WaveIds -> Nat]
      /\ p.pending \in SUBSET TaskIds /\ p.results \in Seq(AllContents)
  BY <1>1 DEF Pipes
<1> QED BY <1>2, <1>3, <1>4, <1>5, <1>6, <1>7

LEMMA MakePipe ==
  ASSUME NEW waves \in Seq(Seq(Roles)), NEW cur \in Nat, NEW retries \in [WaveIds -> Nat],
         NEW qaLoops \in [WaveIds -> Nat], NEW pending \in SUBSET TaskIds, NEW results \in Seq(AllContents)
  PROVE  [waves |-> waves, cur |-> cur, retries |-> retries,
          qaLoops |-> qaLoops, pending |-> pending, results |-> results] \in Pipes
BY DEF Pipes

LEMMA WavesConcat ==
  ASSUME NEW a \in Seq(Seq(Roles)), NEW b \in Seq(Seq(Roles)), NEW c \in Seq(Seq(Roles))
  PROVE  a \o b \o c \in Seq(Seq(Roles)) /\ Len(a \o b \o c) = Len(a) + Len(b) + Len(c)
<1>1. a \o b \in Seq(Seq(Roles)) /\ Len(a \o b) = Len(a) + Len(b)
  BY ConcatProperties
<1> QED BY <1>1, ConcatProperties

(* Advance dispatches the next wave.                                       *)
LEMMA AdvanceShows ==
  ASSUME IInv, NEW p, GoodPipe(p), NEW ts \in [TaskIds -> Entries], Advance(p, ts)
  PROVE  /\ tasks' \in [TaskIds -> Entries] /\ timers' \in SUBSET Timers
         /\ NoNewTimer(timers)
         /\ \/ p.cur = Len(p.waves) /\ EndedNow("completed") /\ \A tm \in timers' : ~tm.live
            \/ p.cur < Len(p.waves) /\ WaitsNow(p.cur + 1, Len(p.waves))
<1> DEFINE q == [p EXCEPT !.cur = @ + 1]
<1>1. q = [waves |-> p.waves, cur |-> p.cur + 1, retries |-> p.retries,
           qaLoops |-> p.qaLoops, pending |-> p.pending, results |-> p.results]
  <2>1. p = [waves |-> p.waves, cur |-> p.cur, retries |-> p.retries,
             qaLoops |-> p.qaLoops, pending |-> p.pending, results |-> p.results]
    BY PipeFields
  <2> QED BY ONLY <2>1
<1>2. p.cur + 1 \in Nat /\ p.cur + 1 >= 1
  BY PipeFields
<1>3. q \in Pipes /\ q.cur = p.cur + 1 /\ q.cur >= 1 /\ q.waves = p.waves /\ Len(q.waves) <= MaxWaves
  <2>1. q \in Pipes
    <3>1. /\ p.waves \in Seq(Seq(Roles)) /\ p.retries \in [WaveIds -> Nat] /\ p.qaLoops \in [WaveIds -> Nat]
          /\ p.pending \in SUBSET TaskIds /\ p.results \in Seq(AllContents)
      BY PipeFields
    <3> HIDE DEF q
    <3> QED BY <1>1, <1>2, <3>1, MakePipe
  <2>2. q.cur = p.cur + 1 /\ q.waves = p.waves
    BY <1>1
  <2> QED BY <1>2, <2>1, <2>2, PipeFields
<1>4. DispatchWave(q, ts, timers)
  BY DEF Advance
<1>5. TypeOK /\ timers \in SUBSET Timers
  BY DEF IInv, TypeOK
<1> HIDE DEF q
<1>6. /\ tasks' \in [TaskIds -> Entries] /\ timers' \in SUBSET Timers /\ NoNewTimer(timers)
      /\ \/ q.cur > Len(q.waves) /\ EndedNow("completed") /\ \A tm \in timers' : ~tm.live
         \/ q.cur <= Len(q.waves) /\ WaitsNow(q.cur, Len(q.waves)) /\ timers' = timers
  BY <1>3, <1>4, <1>5, DispatchWaveShows
<1>7. /\ q.cur > Len(q.waves) => p.cur = Len(p.waves)
      /\ q.cur <= Len(q.waves) => p.cur < Len(p.waves)
  BY <1>3, PipeFields
<1> QED BY <1>3, <1>6, <1>7

(* A fixer and the QA wave once more go in behind the QA wave.             *)
LEMMA WithFixerShows ==
  ASSUME NEW p, GoodPipe(p), Len(p.waves) + 2 <= MaxWaves
  PROVE  /\ WithFixer(p) \in Pipes /\ WithFixer(p).cur = p.cur + 1
         /\ Len(WithFixer(p).waves) = Len(p.waves) + 2 /\ Len(WithFixer(p).waves) <= MaxWaves
<1> DEFINE before == SubSeq(p.waves, 1, p.cur)
           between == << <<"fixer">>, p.waves[p.cur] >>
           after == SubSeq(p.waves, p.cur + 1, Len(p.waves))
           q == WithFixer(p)
<1>1. /\ p.waves \in Seq(Seq(Roles)) /\ Len(p.waves) \in Nat /\ p.cur \in Nat
      /\ p.cur >= 1 /\ p.cur <= Len(p.waves) /\ p.cur \in WaveIds
      /\ p.qaLoops \in [WaveIds -> Nat]
  BY PipeFields
<1>2. before \in Seq(Seq(Roles)) /\ Len(before) = p.cur
  BY <1>1, SubSeqProperties
<1>3. after \in Seq(Seq(Roles)) /\ Len(after) = Len(p.waves) - p.cur
  <2>1. \A i \in p.cur + 1 .. Len(p.waves) : p.waves[i] \in Seq(Roles)
    BY <1>1
  <2>2. p.cur + 1 \in Int /\ Len(p.waves) \in Int
    BY <1>1
  <2>3. /\ after \in Seq(Seq(Roles))
        /\ Len(after) = IF p.cur + 1 <= Len(p.waves) THEN Len(p.waves) - (p.cur + 1) + 1 ELSE 0
    BY <2>1, <2>2, SubSeqProperties
  <2> HIDE DEF after
  <2> QED BY <1>1, <2>3
<1>4. between \in Seq(Seq(Roles)) /\ Len(between) = 2
  <2>1. <<"fixer">> \in Seq(Roles) /\ p.waves[p.cur] \in Seq(Roles)
    BY <1>1 DEF Roles
  <2> QED BY <2>1
<1>5. /\ before \o between \o after \in Seq(Seq(Roles))
      /\ Len(before \o between \o after) = Len(p.waves) + 2
  <2> HIDE DEF before, between, after
  <2>1. /\ before \o between \o after \in Seq(Seq(Roles))
        /\ Len(before \o between \o after) = Len(before) + Len(between) + Len(after)
    BY <1>2, <1>3, <1>4, WavesConcat
  <2> QED BY <1>1, <1>2, <1>3, <1>4, <2>1
<1>6. q = [waves |-> before \o between \o after, cur |-> p.cur + 1, retries |-> p.retries,
           qaLoops |-> [p.qaLoops EXCEPT ![p.cur] = @ + 1],
           pending |-> p.pending, results |-> p.results]
  <2>1. p = [waves |-> p.waves, cur |-> p.cur, retries |-> p.retries,
             qaLoops |-> p.qaLoops, pending |-> p.pending, results |-> p.results]
    BY PipeFields
  <2> DEFINE all == before \o between \o after
  <2>2. q = [p EXCEPT !.waves = all, !.qaLoops[p.cur] = @ + 1, !.cur = @ + 1]
    BY DEF WithFixer
  <2> HIDE DEF all, q
  <2>3. q = [waves |-> all, cur |-> p.cur + 1, retries |-> p.retries,
             qaLoops |-> [p.qaLoops EXCEPT ![p.cur] = @ + 1],
             pending |-> p.pending, results |-> p.results]
    BY ONLY <2>1, <2>2
  <2> QED BY <2>3 DEF all
<1>7. [p.qaLoops EXCEPT ![p.cur] = @ + 1] \in [WaveIds -> Nat]
  BY <1>1
<1> HIDE DEF before, between, after, q
<1>8. q \in Pipes /\ q.cur = p.cur + 1 /\ Len(q.waves) = Len(p.waves) + 2 /\ Len(q.waves) <= MaxWaves
  <2>1. q \in Pipes
    <3>1. /\ p.retries \in [WaveIds -> Nat] /\ p.cur + 1 \in Nat
          /\ p.pending \in SUBSET TaskIds /\ p.results \in Seq(AllContents)
      BY PipeFields
    <3> QED BY <1>5, <1>6, <1>7, <3>1, MakePipe
  <2>2. q.cur = p.cur + 1 /\ q.waves = before \o between \o after
    BY <1>6
  <2> QED BY <1>5, <2>1, <2>2
<1> QED BY <1>8 DEF q

LEMMA WithFixerDispatched ==
  ASSUME IInv, NEW p, GoodPipe(p), Len(p.waves) + 2 <= MaxWaves,
         NEW ts \in [TaskIds -> Entries], DispatchWave(WithFixer(p), ts, timers)
  PROVE  /\ tasks' \in [TaskIds -> Entries] /\ timers' \in SUBSET Timers
         /\ NoNewTimer(timers) /\ WaitsNow(p.cur + 1, Len(p.waves) + 2)
<1> DEFINE q == WithFixer(p)
<1>1. q \in Pipes /\ q.cur = p.cur + 1 /\ Len(q.waves) = Len(p.waves) + 2 /\ Len(q.waves) <= MaxWaves
  BY WithFixerShows
<1>2. q.cur >= 1 /\ ~(q.cur > Len(q.waves))
  BY <1>1, PipeFields
<1>3. DispatchWave(q, ts, timers)
  OBVIOUS
<1>4. TypeOK /\ timers \in SUBSET Timers
  BY DEF IInv, TypeOK
<1> HIDE DEF q
<1>5. /\ tasks' \in [TaskIds -> Entries] /\ timers' \in SUBSET Timers
      /\ NoNewTimer(timers)
      /\ \/ q.cur > Len(q.waves) /\ EndedNow("completed") /\ \A tm \in timers' : ~tm.live
         \/ q.cur <= Len(q.waves) /\ WaitsNow(q.cur, Len(q.waves)) /\ timers' = timers
  BY <1>1, <1>2, <1>3, <1>4, DispatchWaveShows
<1> QED BY <1>1, <1>2, <1>5

(* A retry is counted and waited for.                                      *)
LEMMA RetryShows ==
  ASSUME IInv, NEW p, GoodPipe(p), p.retries = pipe.retries, p.retries[p.cur] < MaxWaveRetries,
         outcome = "running", NEW ts \in [TaskIds -> Entries], Retry(p, ts)
  PROVE  /\ tasks' \in [TaskIds -> Entries] /\ timers' \in SUBSET Timers
         /\ Counted /\ WaitsNow(p.cur, Len(p.waves))
<1> DEFINE more == [p.retries EXCEPT ![p.cur] = @ + 1]
           q == [p EXCEPT !.retries[p.cur] = @ + 1, !.pending = {}, !.results = <<>>]
           tm == [wave |-> p.cur, steps |-> Len(p.waves[p.cur]), live |-> TRUE]
<1>1. /\ p.waves \in Seq(Seq(Roles)) /\ p.retries \in [WaveIds -> Nat] /\ p.qaLoops \in [WaveIds -> Nat]
      /\ p.cur \in Nat /\ p.cur \in WaveIds /\ p.cur \in 1 .. Len(p.waves) /\ Len(p.waves) <= MaxWaves
  BY PipeFields
<1>2. q = [waves |-> p.waves, cur |-> p.cur, retries |-> more,
           qaLoops |-> p.qaLoops, pending |-> {}, results |-> <<>>]
  <2>1. p = [waves |-> p.waves, cur |-> p.cur, retries |-> p.retries,
             qaLoops |-> p.qaLoops, pending |-> p.pending, results |-> p.results]
    BY PipeFields
  <2>2. q = [p EXCEPT !.retries[p.cur] = @ + 1, !.pending = {}, !.results = <<>>]
    OBVIOUS
  <2> HIDE DEF q
  <2> QED BY ONLY <2>1, <2>2
<1>3. more \in [WaveIds -> Nat] /\ more[p.cur] = p.retries[p.cur] + 1 /\ more[p.cur] <= MaxWaveRetries
  BY <1>1, Bounds
<1>4. q \in Pipes
  <2>1. {} \in SUBSET TaskIds /\ <<>> \in Seq(AllContents)
    OBVIOUS
  <2> HIDE DEF q, more
  <2> QED BY <1>1, <1>2, <1>3, <2>1, MakePipe
<1>5. GoodPipe(q) /\ q.cur = p.cur /\ q.waves = p.waves /\ q.retries = more
  <2> HIDE DEF more
  <2> QED BY <1>1, <1>2, <1>4 DEF GoodPipe
<1>6. /\ pipe' = q /\ disk' = Saved(q) /\ tasks' = ts /\ outcome' = "running"
      /\ timers' = timers \cup {tm}
  BY DEF Retry
<1>7. tm \in Timers
  <2>1. Len(p.waves[p.cur]) \in Nat
    <3>1. p.waves[p.cur] \in Seq(Roles)
      BY <1>1
    <3> QED BY <3>1
  <2> QED BY <1>1, <2>1 DEF Timers
<1>8. disk'.retries = more
  BY <1>5, <1>6 DEF Saved
<1> HIDE DEF q, more
<1>9. \A new \in timers' : new.wave \notin {old.wave : old \in timers} => new.wave = p.cur
  BY <1>6
<1>10. Counted
  BY <1>3, <1>8, <1>9 DEF Counted
<1>11. WaitsNow(p.cur, Len(p.waves))
  BY <1>5, <1>6 DEF WaitsNow
<1> QED BY <1>6, <1>7, <1>10, <1>11 DEF IInv, TypeOK

(* A wave that is over makes way for the next, or the pipeline is complete. *)
LEMMA AdvanceKeeps ==
  ASSUME IInv, Running, NEW p, GoodPipe(p), p.cur = pipe.cur, p.waves = pipe.waves,
         NEW ts \in [TaskIds -> Entries], Advance(p, ts), UNCHANGED <<env, conn, resumeDue, resumes>>
  PROVE  StepIsKept
<1>0. /\ outcome = "running" /\ Reached = p.cur /\ WaveCount = Len(p.waves) /\ Reached # 0 /\ TypeOK
      /\ conn' \in {"up", "down"} /\ resumeDue' \in Nat /\ resumes' \in 0 .. MaxResumes
  BY Position DEF IInv, TypeOK
<1>1. /\ tasks' \in [TaskIds -> Entries] /\ timers' \in SUBSET Timers /\ NoNewTimer(timers)
      /\ \/ p.cur = Len(p.waves) /\ EndedNow("completed") /\ \A tm \in timers' : ~tm.live
         \/ p.cur < Len(p.waves) /\ WaitsNow(p.cur + 1, Len(p.waves))
  BY AdvanceShows
<1>2. TypesKept /\ Counted
  BY <1>0, <1>1, NoNewIsCounted DEF TypesKept
<1>3. p.cur < Len(p.waves) => Proceeds(p.cur + 1, Len(p.waves))
  BY <1>0 DEF Proceeds
<1> QED BY <1>1, <1>2, <1>3, Ends, Waits

(* The gate's verdict is carried out.                                      *)
LEMMA GateKeeps ==
  ASSUME IInv, Running, NEW p, GoodPipe(p), p.cur = pipe.cur, p.waves = pipe.waves,
         p.retries = pipe.retries,
         NEW ts \in [TaskIds -> Entries], Gate(p, ts), UNCHANGED <<env, conn, resumeDue, resumes>>
  PROVE  StepIsKept
<1>0. /\ outcome = "running" /\ Reached = p.cur /\ WaveCount = Len(p.waves) /\ Reached # 0 /\ TypeOK
      /\ conn' \in {"up", "down"} /\ resumeDue' \in Nat /\ resumes' \in 0 .. MaxResumes
  BY Position DEF IInv, TypeOK
<1>1. ASSUME tasks' \in [TaskIds -> Entries], timers' \in SUBSET Timers, NoNewTimer(timers)
      PROVE  TypesKept /\ Counted
  BY <1>0, <1>1, NoNewIsCounted DEF TypesKept
<1>2. CASE Len(p.waves) + 2 <= MaxWaves /\ DispatchWave(WithFixer(p), ts, timers)
  <2>1. /\ tasks' \in [TaskIds -> Entries] /\ timers' \in SUBSET Timers
        /\ NoNewTimer(timers) /\ WaitsNow(p.cur + 1, Len(p.waves) + 2)
    BY <1>2, WithFixerDispatched
  <2>2. Proceeds(p.cur + 1, Len(p.waves) + 2)
    BY <1>0 DEF Proceeds
  <2> QED BY <1>1, <2>1, <2>2, Waits
<1>3. CASE Advance(p, ts)
  BY <1>0, <1>1, <1>3, AdvanceKeeps
<1>4. CASE p.retries[p.cur] < MaxWaveRetries /\ Retry(p, ts)
  <2>1. /\ tasks' \in [TaskIds -> Entries] /\ timers' \in SUBSET Timers
        /\ Counted /\ WaitsNow(p.cur, Len(p.waves))
    BY <1>0, <1>4, RetryShows
  <2>2. TypesKept
    BY <1>0, <2>1 DEF TypesKept
  <2>3. Proceeds(p.cur, Len(p.waves))
    BY <1>0 DEF Proceeds
  <2> QED BY <2>1, <2>2, <2>3, Waits
<1>5. CASE Drop("halted") /\ tasks' = ts /\ timers' = Orphaned(timers)
  <2>1. EndedNow("halted") /\ timers' \in SUBSET Timers /\ \A tm \in timers' : ~tm.live
    BY <1>0, <1>5, OrphanedTypes DEF Drop, EndedNow, TypeOK
  <2>2. NoNewTimer(timers)
    BY <1>0, <1>5, OrphanedTypes DEF NoNewTimer, TypeOK
  <2>3. TypesKept /\ Counted
    BY <1>0, <1>5, <2>1, <2>2, NoNewIsCounted DEF TypesKept
  <2> QED BY <2>1, <2>3, Ends
<1> QED BY <1>2, <1>3, <1>4, <1>5, Zenon DEF Gate

-----------------------------------------------------------------------------
(* The handlers of a dispatch.                                             *)
LEMMA EntryChanged ==
  ASSUME TypeOK, NEW t \in TaskIds, NEW st \in {"unused", "sent", "waiting", "done", "bailed", "gone"}
  PROVE  /\ [tasks EXCEPT ![t].status = st] \in [TaskIds -> Entries]
         /\ [tasks EXCEPT ![t] = Gone] \in [TaskIds -> Entries]
<1>1. tasks \in [TaskIds -> Entries]
  BY DEF TypeOK
<1>2. [tasks[t] EXCEPT !.status = st] \in Entries
  BY <1>1 DEF Entries
<1> QED BY <1>1, <1>2, EntryTypes

LEMMA QuietKeeps ==
  ASSUME IInv, TypesKept, timers' \subseteq timers, UNCHANGED <<pipe, disk, outcome>>
  PROVE  StepIsKept
BY GoesOn

(* A handler that took an id off the wave, with a result, leaves it        *)
(* waiting, or goes on to what empties it.                                 *)
LEMMA TookOff ==
  ASSUME IInv, Running, NEW t, NEW content \in AllContents, NEW p,
         p = [pipe EXCEPT !.pending = @ \ {t}, !.results = Append(@, content)]
  PROVE  /\ GoodPipe(p) /\ Saved(p) = Saved(pipe)
         /\ p.cur = pipe.cur /\ p.waves = pipe.waves /\ p.retries = pipe.retries
<1>1. GoodPipe(pipe)
  BY DEF IInv, Placed
<1>2. pipe.pending \ {t} \in SUBSET TaskIds /\ pipe.results \in Seq(AllContents)
  BY <1>1, PipeFields
<1>3. Append(pipe.results, content) \in Seq(AllContents)
  BY <1>2
<1>4. p = [pipe EXCEPT !.pending = pipe.pending \ {t}, !.results = Append(pipe.results, content)]
  OBVIOUS
<1> QED BY <1>1, <1>2, <1>3, <1>4, Changed

LEMMA TimeoutKeeps ==
  ASSUME IInv, NEW t \in TaskIds, Timeout(t), env' = env
  PROVE  StepIsKept
<1> DEFINE ts == [tasks EXCEPT ![t] = Gone]
           p == [pipe EXCEPT !.pending = @ \ {t}, !.results = Append(@, "report")]
<1>0. /\ TypeOK /\ UNCHANGED <<env, conn, resumeDue, resumes>> /\ ts \in [TaskIds -> Entries]
      /\ conn' \in {"up", "down"} /\ resumeDue' \in Nat /\ resumes' \in 0 .. MaxResumes
      /\ timers \in SUBSET Timers
  BY EntryChanged DEF Timeout, IInv, TypeOK
<1>1. Running => GoodPipe(p) /\ Saved(p) = Saved(pipe) /\ p.cur = pipe.cur /\ p.waves = pipe.waves
  BY TookOff DEF AllContents
<1>2. CASE ~Running /\ tasks' = ts /\ UNCHANGED <<pipe, disk, timers, outcome>>
  BY <1>0, <1>2, GoesOn DEF TypesKept
<1>3. CASE Running /\ pipe' = p /\ tasks' = ts /\ UNCHANGED <<disk, timers, outcome>>
  BY <1>0, <1>1, <1>3, GoesOn DEF TypesKept
<1>4. CASE Running /\ Advance(p, ts)
  <2> HIDE DEF ts, p
  <2> QED BY <1>0, <1>1, <1>4, AdvanceKeeps
<1> QED BY <1>2, <1>3, <1>4, Zenon DEF Timeout

LEMMA RepliedTypes ==
  ASSUME TypeOK, NEW t \in TaskIds
  PROVE  [tasks EXCEPT ![t].status = IF @ = "bailed" THEN @ ELSE "done"] \in [TaskIds -> Entries]
<1> DEFINE st == IF tasks[t].status = "bailed" THEN tasks[t].status ELSE "done"
           ts == [tasks EXCEPT ![t].status = IF @ = "bailed" THEN @ ELSE "done"]
<1>1. ts = [tasks EXCEPT ![t].status = st]
  OBVIOUS
<1>2. st \in {"unused", "sent", "waiting", "done", "bailed", "gone"}
  OBVIOUS
<1> HIDE DEF ts, st
<1>3. ts \in [TaskIds -> Entries]
  BY <1>1, <1>2, EntryChanged
<1> QED BY <1>3 DEF ts

LEMMA ReplyKeeps ==
  ASSUME IInv, NEW t \in TaskIds, NEW content \in env.contents, Reply(t, content), env' = env
  PROVE  StepIsKept
<1> DEFINE ts == [tasks EXCEPT ![t].status = IF @ = "bailed" THEN @ ELSE "done"]
           p == [pipe EXCEPT !.pending = @ \ {t}, !.results = Append(@, content)]
<1>0. /\ TypeOK /\ UNCHANGED <<env, conn, resumeDue, resumes>>
      /\ conn' \in {"up", "down"} /\ resumeDue' \in Nat /\ resumes' \in 0 .. MaxResumes
      /\ timers \in SUBSET Timers
  BY DEF Reply, IInv, TypeOK
<1>t. ts \in [TaskIds -> Entries]
  BY <1>0, RepliedTypes
<1>c. content \in AllContents
  BY <1>0, EnvironmentAssumption DEF TypeOK, Circumstances
<1>1. Running => /\ GoodPipe(p) /\ Saved(p) = Saved(pipe)
                 /\ p.cur = pipe.cur /\ p.waves = pipe.waves /\ p.retries = pipe.retries
  BY <1>c, TookOff
<1> HIDE DEF ts, p
<1>2. CASE ~Running /\ tasks' = ts /\ UNCHANGED <<pipe, disk, timers, outcome>>
  BY <1>0, <1>t, <1>2, GoesOn DEF TypesKept
<1>3. CASE Running /\ pipe' = p /\ tasks' = ts /\ UNCHANGED <<disk, timers, outcome>>
  BY <1>0, <1>t, <1>1, <1>3, GoesOn DEF TypesKept
<1>4. CASE Running /\ Gate(p, ts)
  BY <1>0, <1>t, <1>1, <1>4, GateKeeps
<1> QED BY <1>2, <1>3, <1>4, Zenon DEF Reply, ts, p

LEMMA DispatchKeeps ==
  ASSUME IInv, NEW t \in TaskIds, env' = env,
         Extend(t) \/ Bail(t) \/ RateLimited(t) \/ Forget(t)
  PROVE  StepIsKept
<1>0. /\ TypeOK /\ UNCHANGED <<env, pipe, disk, timers, conn, resumeDue, resumes, outcome>>
      /\ timers \in SUBSET Timers /\ tasks \in [TaskIds -> Entries]
  BY DEF Extend, Bail, RateLimited, Forget, IInv, TypeOK
<1>1. tasks[t] \in Entries /\ Sent(tasks[t].wave) \in Entries
  BY <1>0, EntryTypes DEF Entries
<1>2. tasks' \in [TaskIds -> Entries]
  <2>1. CASE Extend(t)
    BY <1>0, <2>1, EntryChanged DEF Extend
  <2>2. CASE Forget(t)
    BY <1>0, <2>2, EntryChanged DEF Forget
  <2>3. CASE Bail(t)
    <3> DEFINE ts == [tasks EXCEPT ![t].status = "bailed"]
    <3>1. \E n : tasks' = Dispatched(ts, n, Sent(tasks[t].wave))
      BY <2>3 DEF Bail
    <3>2. ts \in [TaskIds -> Entries]
      BY <1>0, EntryChanged
    <3> HIDE DEF ts
    <3> QED BY <1>1, <3>1, <3>2, DispatchedTypes
  <2>4. CASE RateLimited(t)
    <3> DEFINE ts == [tasks EXCEPT ![t] = Gone]
    <3>1. \E n : tasks' = Dispatched(ts, n, tasks[t])
      BY <2>4 DEF RateLimited
    <3>2. ts \in [TaskIds -> Entries]
      BY <1>0, EntryChanged
    <3> HIDE DEF ts
    <3> QED BY <1>1, <3>1, <3>2, DispatchedTypes
  <2> QED BY <2>1, <2>2, <2>3, <2>4
<1>3. TypesKept
  BY <1>0, <1>2 DEF TypesKept, TypeOK
<1> QED BY <1>0, <1>3, QuietKeeps

(* A retry timer dispatches its steps.                                     *)
LEMMA RetryWaveKeeps ==
  ASSUME IInv, NEW tm \in timers, RetryWave(tm), env' = env
  PROVE  StepIsKept
<1>0. /\ TypeOK /\ UNCHANGED <<env, disk, conn, resumeDue, resumes, outcome>>
      /\ timers \in SUBSET Timers /\ tasks \in [TaskIds -> Entries] /\ timers' \subseteq timers
  BY DEF RetryWave, IInv, TypeOK
<1>1. PICK n \in Accepted(tm.steps) :
       /\ Free(tasks, n)
       /\ tasks' = Dispatched(tasks, n, Sent(tm.wave))
       /\ pipe' = IF tm.live THEN [pipe EXCEPT !.pending = @ \cup IdsFrom(tasks, n)] ELSE pipe
  BY Zenon DEF RetryWave
<1>2. tasks' \in [TaskIds -> Entries]
  <2>1. Sent(tm.wave) \in Entries
    BY <1>0, EntryTypes DEF Timers, WaveIds
  <2> QED BY <1>0, <1>1, <2>1, DispatchedTypes
<1>3. TypesKept
  BY <1>0, <1>2 DEF TypesKept, TypeOK
<1>4. CASE ~tm.live
  BY <1>0, <1>1, <1>3, <1>4, GoesOn
<1>5. CASE tm.live
  <2>1. Running /\ GoodPipe(pipe)
    BY <1>5 DEF IInv, Placed
  <2>2. IdsFrom(tasks, n) \in SUBSET TaskIds
    BY <1>0, <1>1, FreeTypes
  <2> DEFINE pend == pipe.pending \cup IdsFrom(tasks, n)
  <2>3. pend \in SUBSET TaskIds /\ pipe.results \in Seq(AllContents)
    BY <2>1, <2>2, PipeFields
  <2>4. pipe' = [pipe EXCEPT !.pending = pend]
    BY <1>1, <1>5
  <2>5. pipe' = [pipe EXCEPT !.pending = pend, !.results = pipe.results]
    <3>1. pipe = [waves |-> pipe.waves, cur |-> pipe.cur, retries |-> pipe.retries,
                  qaLoops |-> pipe.qaLoops, pending |-> pipe.pending, results |-> pipe.results]
      BY <2>1, PipeFields
    <3> HIDE DEF pend
    <3> QED BY ONLY <2>4, <3>1
  <2> HIDE DEF pend
  <2>6. GoodPipe(pipe') /\ Saved(pipe') = Saved(pipe)
    BY <2>1, <2>3, <2>5, Changed
  <2> QED BY <1>0, <1>3, <2>1, <2>6, GoesOn
<1> QED BY <1>4, <1>5

-----------------------------------------------------------------------------
(* The pipeline's beginning, its cancellation, and the resumption.         *)
LEMMA StartKeeps ==
  ASSUME IInv, Start, env' = env
  PROVE  StepIsKept
<1>0. /\ TypeOK /\ tasks \in [TaskIds -> Entries] /\ timers \in SUBSET Timers
      /\ UNCHANGED <<env, conn, resumeDue, resumes>> /\ outcome = "none"
      /\ DispatchWave(NewPipe, tasks, timers)
  BY DEF Start, IInv, TypeOK
<1> DEFINE p == NewPipe
<1>2. p \in Pipes /\ p.cur = 1 /\ p.waves = Waves
  BY Bounds DEF NewPipe, Pipes
<1>3. Len(p.waves) <= MaxWaves /\ p.cur >= 1 /\ ~(p.cur > Len(p.waves))
  BY <1>2, Bounds
<1> HIDE DEF p
<1>4. /\ tasks' \in [TaskIds -> Entries] /\ timers' \in SUBSET Timers /\ NoNewTimer(timers)
      /\ WaitsNow(p.cur, Len(p.waves)) /\ timers' = timers
  BY <1>0, <1>2, <1>3, DispatchWaveShows DEF p
<1>5. TypesKept /\ Counted
  BY <1>0, <1>4, NoNewIsCounted DEF TypesKept, TypeOK
<1>6. Proceeds(p.cur, Len(p.waves))
  BY <1>0, <1>2, Bounds DEF Proceeds
<1> QED BY <1>4, <1>5, <1>6, Waits

LEMMA CancelKeeps ==
  ASSUME IInv, Cancel, env' = env
  PROVE  StepIsKept
<1>0. TypeOK /\ timers \in SUBSET Timers
  BY DEF IInv, TypeOK
<1>1. Running /\ EndedNow("cancelled") /\ timers' = Orphaned(timers) /\ UNCHANGED <<env, tasks, conn, resumeDue, resumes>>
  BY DEF Cancel, Drop, EndedNow
<1>2. timers' \in SUBSET Timers /\ NoNewTimer(timers) /\ \A tm \in timers' : ~tm.live
  BY <1>0, <1>1, OrphanedTypes DEF NoNewTimer
<1>3. TypesKept /\ Counted
  BY <1>0, <1>1, <1>2, NoNewIsCounted DEF TypesKept, TypeOK
<1> QED BY <1>1, <1>2, <1>3, Ends

LEMMA LinkKeeps ==
  ASSUME IInv, Disconnect \/ Reconnect, env' = env
  PROVE  StepIsKept
<1>1. TypesKept /\ UNCHANGED <<pipe, disk, timers, outcome>>
  BY Bounds DEF Disconnect, Reconnect, IInv, TypeOK, TypesKept
<1> QED BY <1>1, QuietKeeps

LEMMA CrashKeeps ==
  ASSUME IInv, Crash, env' = env
  PROVE  StepIsKept
<1>1. /\ TypesKept /\ timers' = {} /\ pipe' = NoPipe /\ UNCHANGED <<disk, outcome>>
      /\ pipe' \in Pipes \cup {NoPipe}
  BY EntryTypes, Bounds DEF Crash, IInv, TypeOK, TypesKept
<1>2. Counted
  BY <1>1 DEF Counted
<1>3. TypeOK'
  BY <1>1 DEF TypesKept, IInv, TypeOK
<1>4. ~Running'
  BY <1>1 DEF Running
<1>5. Placed' /\ DiskIsCurrent'
  BY <1>1, <1>4 DEF IInv, Placed, DiskIsCurrent
<1>6. Follows
  <2>1. CASE disk # NoFile
    <3>1. Reached' = disk.cur /\ WaveCount' = Len(disk.waves)
      BY <1>1, <1>4, <2>1 DEF Reached, WaveCount
    <3> QED BY <1>1, <2>1, <3>1, Position DEF Follows, Sequence!vars
  <2>2. CASE disk = NoFile
    <3>1. Reached' = 0 /\ WaveCount' = 0
      BY <1>1, <1>4, <2>2, NoPipeIsNoPipe DEF Reached, WaveCount
    <3>2. CASE Running
      <4>1. Sequence!Lose
        BY <1>1, <3>1, <3>2, Position DEF Sequence!Lose, Sequence!Ended
      <4> QED BY <4>1 DEF Follows, Sequence!Next
    <3>3. CASE ~Running
      BY <1>1, <2>2, <3>1, <3>3, Position DEF Follows, Sequence!vars
    <3> QED BY <3>2, <3>3
  <2> QED BY <2>1, <2>2
<1> QED BY <1>2, <1>3, <1>5, <1>6 DEF StepIsKept, IInv

(* A state file makes a pipeline that waits for the wave it names.         *)
LEMMA ResumeShows ==
  ASSUME IInv, disk # NoFile, DispatchWave(Restored(disk), tasks, Orphaned(timers))
  PROVE  /\ tasks' \in [TaskIds -> Entries] /\ timers' \in SUBSET Timers
         /\ NoNewTimer(Orphaned(timers)) /\ WaitsNow(disk.cur, Len(disk.waves))
<1> DEFINE p == Restored(disk)
           tms == Orphaned(timers)
<1>1. TypeOK /\ tasks \in [TaskIds -> Entries] /\ timers \in SUBSET Timers /\ GoodFile(disk)
  BY DEF IInv, TypeOK, Placed
<1>2. p \in Pipes /\ p.cur = disk.cur /\ p.waves = disk.waves
  BY <1>1 DEF GoodFile, Restored, Pipes, Saveds
<1>3. p.cur >= 1 /\ Len(p.waves) <= MaxWaves /\ ~(p.cur > Len(p.waves))
  BY <1>1, <1>2 DEF GoodFile, Saveds
<1>4. tms \in SUBSET Timers
  BY <1>1, OrphanedTypes
<1>5. DispatchWave(p, tasks, tms)
  OBVIOUS
<1> HIDE DEF p, tms
<1>6. /\ tasks' \in [TaskIds -> Entries] /\ timers' \in SUBSET Timers /\ NoNewTimer(tms)
      /\ WaitsNow(p.cur, Len(p.waves))
  BY <1>1, <1>2, <1>3, <1>4, <1>5, DispatchWaveShows
<1> QED BY <1>2, <1>6 DEF tms

LEMMA ResumeKeeps ==
  ASSUME IInv, Resume, env' = env
  PROVE  StepIsKept
<1>0. /\ TypeOK /\ tasks \in [TaskIds -> Entries] /\ timers \in SUBSET Timers
      /\ UNCHANGED <<env, conn, resumes>> /\ resumeDue' \in Nat
      /\ conn' \in {"up", "down"} /\ resumes' \in 0 .. MaxResumes
  BY DEF Resume, IInv, TypeOK
<1>1. CASE UNCHANGED <<pipe, disk, tasks, timers, outcome>>
  BY <1>0, <1>1, QuietKeeps DEF TypesKept
<1>2. CASE /\ disk # NoFile /\ "stale" \in env.faults /\ disk' = NoFile
           /\ outcome' = IF Running THEN outcome ELSE "dropped"
           /\ UNCHANGED <<pipe, tasks, timers>>
  <2>1. TypesKept /\ Counted
    BY <1>0, <1>2, NoNewIsCounted DEF TypesKept
  <2>2. TypeOK'
    BY <1>0, <1>2 DEF TypeOK
  <2>3. Placed' /\ DiskIsCurrent' /\ (Running' <=> Running)
    BY <1>0, <1>2 DEF IInv, Placed, DiskIsCurrent, Running
  <2>4. Follows
    <3>1. CASE Running
      BY <1>2, <2>3, <3>1 DEF Reached, WaveCount, Follows, Sequence!vars
    <3>2. CASE ~Running
      <4>1. Reached' = 0 /\ WaveCount' = 0
        BY <1>2, <2>3, <3>2, NoPipeIsNoPipe DEF Reached, WaveCount
      <4>2. Sequence!GiveUp
        BY <1>2, <3>2, <4>1, Position DEF Sequence!GiveUp, Sequence!Ended
      <4> QED BY <4>2 DEF Follows, Sequence!Next
    <3> QED BY <3>1, <3>2
  <2> QED BY <2>1, <2>2, <2>3, <2>4 DEF StepIsKept, IInv
<1>3. CASE disk # NoFile /\ DispatchWave(Restored(disk), tasks, Orphaned(timers))
  <2>1. /\ tasks' \in [TaskIds -> Entries] /\ timers' \in SUBSET Timers
        /\ NoNewTimer(Orphaned(timers)) /\ WaitsNow(disk.cur, Len(disk.waves))
    BY <1>3, ResumeShows
  <2>2. TypesKept /\ Counted
    BY <1>0, <2>1, NoNewIsCounted DEF TypesKept
  <2>3. Proceeds(disk.cur, Len(disk.waves))
    BY <1>3, Position DEF Proceeds
  <2> QED BY <2>1, <2>2, <2>3, Waits
<1> QED BY <1>1, <1>2, <1>3, Zenon DEF Resume

-----------------------------------------------------------------------------
THEOREM StepKept == IInv /\ [Next]_vars => StepIsKept
<1> SUFFICES ASSUME IInv, [Next]_vars PROVE StepIsKept
  OBVIOUS
<1>1. CASE UNCHANGED vars
  <2>1. TypesKept /\ UNCHANGED <<pipe, disk, timers, outcome>>
    BY <1>1 DEF vars, IInv, TypeOK, TypesKept
  <2> QED BY <2>1, QuietKeeps
<1>2. CASE Next
  <2>1. env' = env /\ Event
    BY <1>2 DEF Next
  <2>2. CASE \E t \in TaskIds : Extend(t) \/ Bail(t) \/ RateLimited(t) \/ Forget(t)
    BY <2>1, <2>2, DispatchKeeps
  <2>3. CASE \E t \in TaskIds : Timeout(t)
    BY <2>1, <2>3, TimeoutKeeps
  <2>4. CASE \E t \in TaskIds : \E content \in env.contents : Reply(t, content)
    BY <2>1, <2>4, ReplyKeeps
  <2>5. CASE \E tm \in timers : RetryWave(tm)
    BY <2>1, <2>5, RetryWaveKeeps
  <2> QED BY <2>1, <2>2, <2>3, <2>4, <2>5, StartKeeps, CancelKeeps, LinkKeeps, CrashKeeps, ResumeKeeps
          DEF Event
<1> QED BY <1>1, <1>2

(* The invariant that the theorems below rest on holds in every state.     *)
THEOREM Invariant == Spec => []IInv
<1>1. IInv /\ [Next]_vars => IInv'
  BY StepKept DEF StepIsKept
<1> QED BY <1>1, InitInvariant, PTL DEF Spec

(* The state of a pipeline keeps its types through every handler.          *)
THEOREM TypeCorrect == Spec => []TypeOK
BY Invariant, PTL DEF IInv

(* The state file is always as current as the pipeline in memory, so that  *)
(* a crash loses no wave and no retry counter.                             *)
THEOREM DiskCurrent == Spec => []DiskIsCurrent
BY Invariant, PTL DEF IInv

(* A pipeline implements WaveSequence: its waves come one after the other,  *)
(* through crashes and resumptions, and what has ended stays so.            *)
THEOREM ImplementsWaveSequence == Spec => InWaveOrder
<1>1. Init => Sequence!Init
  BY NoPipeIsNoPipe DEF Init, Sequence!Init, Reached, WaveCount, Running
<1>2. IInv /\ [Next]_vars => [Sequence!Next]_(Sequence!vars)
  BY StepKept DEF StepIsKept, Follows
<1> QED BY <1>1, <1>2, Invariant, PTL DEF Spec, InWaveOrder, Sequence!Spec

\* A pipeline that completed, was halted by the gate or cancelled leaves
\* nothing that a late reply, a retry timer or resumePipelines could revive.
EndedForGood ==
  outcome \in {"completed", "halted", "cancelled"} => pipe = NoPipe /\ disk = NoFile

(* What has ended leaves nothing that could be revived.                    *)
THEOREM EndsForGood == Spec => []EndedForGood
<1>1. IInv => EndedForGood
  BY DEF IInv, Placed, EndedForGood, Running
<1> QED BY <1>1, Invariant, PTL

\* No reply, timeout, crash or resumption moves a pipeline back, and none
\* makes it skip a wave.
WaveByWave ==
  [][Reached # 0 /\ Reached' # 0 => Reached' \in {Reached, Reached + 1}]_vars

(* A pipeline never goes back and never skips a wave, through crashes and  *)
(* resumptions.                                                            *)
THEOREM MovesWaveByWave == Spec => WaveByWave
<1>1. IInv /\ [Next]_vars => [Reached # 0 /\ Reached' # 0 => Reached' \in {Reached, Reached + 1}]_vars
  <2> SUFFICES ASSUME IInv, Follows, Reached # 0, Reached' # 0
               PROVE  Reached' \in {Reached, Reached + 1}
    BY StepKept DEF StepIsKept
  <2>1. outcome = "running"
    BY Position
  <2> QED BY <2>1 DEF Follows, Sequence!Next, Sequence!vars, Sequence!Begin, Sequence!Advance,
                      Sequence!Complete, Sequence!GiveUp, Sequence!Lose, Sequence!Ended
<1> QED BY <1>1, Invariant, PTL DEF Spec, WaveByWave

(* Every quality retry was counted in the state file, and no wave has more *)
(* than MAX_WAVE_RETRIES.                                                  *)
THEOREM RetriesCounted == Spec => RetryCounted
<1>1. IInv /\ [Next]_vars =>
        [\A tm \in timers' :
           tm.wave \notin {old.wave : old \in timers} =>
             /\ disk'.retries[tm.wave] = pipe.retries[tm.wave] + 1
             /\ disk'.retries[tm.wave] <= MaxWaveRetries]_vars
  BY StepKept DEF StepIsKept, Counted
<1> QED BY <1>1, Invariant, PTL DEF Spec, RetryCounted
-----------------------------------------------------------------------------
(* Where the gate holds.                                                   *)

\* The companion to GateStopsAdvance, which a timeout breaks: nothing else
\* takes a pipeline past a result the gate objects to, except to a fixer wave
\* that the gate itself has inserted (wave-dispatcher.mjs:626-735).
GateHolds ==
  [][Running /\ Running' /\ pipe'.cur > pipe.cur /\ ~env.advance
       /\ (\E i \in 1 .. Len(pipe.results) : Issue(pipe, i)) =>
       \/ \E t \in TaskIds : Timeout(t)
       \/ Len(pipe'.waves) > Len(pipe.waves)]_vars

(* What was objected to before the last reply is objected to after it.     *)
LEMMA IssueStays ==
  ASSUME GoodPipe(pipe), NEW content \in AllContents, NEW p,
         p.cur = pipe.cur, p.waves = pipe.waves, p.results = Append(pipe.results, content),
         NEW i \in 1 .. Len(pipe.results), Issue(pipe, i)
  PROVE  i \in 1 .. Len(p.results) /\ Issue(p, i)
<1>1. pipe.results \in Seq(AllContents)
  BY PipeFields
<1>2. /\ Len(p.results) = Len(pipe.results) + 1 /\ Len(pipe.results) \in Nat
      /\ p.results[i] = pipe.results[i]
  BY <1>1
<1>3. NextWaveBuilds(p) <=> NextWaveBuilds(pipe)
  BY DEF NextWaveBuilds
<1> QED BY <1>2, <1>3 DEF Issue

LEMMA GateStops ==
  ASSUME IInv, Running, NEW p, GoodPipe(p), p.cur = pipe.cur, p.waves = pipe.waves,
         p.retries = pipe.retries, NEW ts \in [TaskIds -> Entries], Gate(p, ts),
         ~env.advance, Running', pipe'.cur > pipe.cur
  PROVE  \/ Len(pipe'.waves) > Len(pipe.waves)
         \/ ~\E i \in 1 .. Len(p.results) : Issue(p, i)
<1>0. outcome = "running" /\ Len(p.waves) \in Nat /\ p.cur \in Nat
  BY Position, PipeFields
<1>1. CASE Len(p.waves) + 2 <= MaxWaves /\ DispatchWave(WithFixer(p), ts, timers)
  BY <1>0, <1>1, WithFixerDispatched DEF WaitsNow
<1>2. CASE ~\E i \in 1 .. Len(p.results) : Issue(p, i)
  BY <1>2
<1>3. CASE p.retries[p.cur] < MaxWaveRetries /\ Retry(p, ts)
  <2>1. pipe'.cur = p.cur
    BY <1>0, <1>3, RetryShows DEF WaitsNow
  <2> QED BY <1>0, <2>1
<1>4. CASE Drop("halted")
  BY <1>4 DEF Drop, Running
<1> QED BY <1>1, <1>2, <1>3, <1>4, Zenon DEF Gate

(* A pipeline moves on only in the handler of a reply or of a timeout.     *)
LEMMA OnlyRepliesAdvance ==
  ASSUME IInv, Event, env' = env, Running, Running', pipe'.cur > pipe.cur
  PROVE  \E t \in TaskIds : Timeout(t) \/ \E content \in env.contents : Reply(t, content)
<1>0. outcome = "running" /\ GoodPipe(pipe) /\ pipe.cur \in Nat
  BY Position, PipeFields DEF IInv, Placed
<1>1. ASSUME pipe'.cur = pipe.cur PROVE FALSE
  BY <1>0, <1>1
<1>2. CASE Start
  BY <1>0, <1>2 DEF Start
<1>3. CASE \E t \in TaskIds : Extend(t) \/ Bail(t) \/ RateLimited(t) \/ Forget(t)
  BY <1>1, <1>3 DEF Extend, Bail, RateLimited, Forget
<1>4. ASSUME NEW tm \in timers, RetryWave(tm) PROVE FALSE
  <2>1. \/ pipe' = pipe
        \/ \E pend : pipe' = [pipe EXCEPT !.pending = pend]
    BY <1>4 DEF RetryWave
  <2>2. pipe = [waves |-> pipe.waves, cur |-> pipe.cur, retries |-> pipe.retries,
                qaLoops |-> pipe.qaLoops, pending |-> pipe.pending, results |-> pipe.results]
    BY <1>0, PipeFields
  <2>3. pipe'.cur = pipe.cur
    BY ONLY <2>1, <2>2
  <2> QED BY <1>1, <2>3
<1>5. CASE Cancel \/ Crash
  BY <1>5 DEF Cancel, Crash, Drop, Running
<1>6. CASE Disconnect \/ Reconnect
  BY <1>1, <1>6 DEF Disconnect, Reconnect
<1>7. CASE Resume
  <2>1. CASE pipe' = pipe
    BY <1>1, <2>1
  <2>2. CASE disk # NoFile /\ DispatchWave(Restored(disk), tasks, Orphaned(timers))
    <3>1. pipe'.cur = disk.cur
      BY <2>2, ResumeShows DEF WaitsNow
    <3>2. disk.cur = pipe.cur
      BY <2>2, Position
    <3> QED BY <1>1, <3>1, <3>2
  <2> QED BY <1>7, <2>1, <2>2 DEF Resume
<1> QED BY <1>2, <1>3, <1>4, <1>5, <1>6, <1>7 DEF Event

(* Unless the setting says otherwise, only a timeout takes a pipeline past  *)
(* a result its gate objects to, for any waves and faults.                  *)
THEOREM GateHeld == Spec => GateHolds
<1>1. IInv /\ [Next]_vars =>
        [Running /\ Running' /\ pipe'.cur > pipe.cur /\ ~env.advance
           /\ (\E i \in 1 .. Len(pipe.results) : Issue(pipe, i)) =>
           \/ \E t \in TaskIds : Timeout(t)
           \/ Len(pipe'.waves) > Len(pipe.waves)]_vars
  <2> SUFFICES ASSUME IInv, Next, Running, Running', pipe'.cur > pipe.cur, ~env.advance,
                      NEW i \in 1 .. Len(pipe.results), Issue(pipe, i),
                      ~\E t \in TaskIds : Timeout(t)
               PROVE  Len(pipe'.waves) > Len(pipe.waves)
    OBVIOUS
  <2>1. PICK t \in TaskIds : \E content \in env.contents : Reply(t, content)
    BY OnlyRepliesAdvance DEF Next
  <2>2. PICK content \in env.contents : Reply(t, content)
    BY <2>1
  <2> DEFINE ts == [tasks EXCEPT ![t].status = IF @ = "bailed" THEN @ ELSE "done"]
             p == [pipe EXCEPT !.pending = @ \ {t}, !.results = Append(@, content)]
  <2>3. content \in AllContents /\ TypeOK /\ GoodPipe(pipe) /\ pipe.cur \in Nat
    BY EnvironmentAssumption, PipeFields DEF IInv, TypeOK, Placed, Circumstances
  <2>4. ts \in [TaskIds -> Entries]
    BY <2>3, RepliedTypes
  <2>5. GoodPipe(p) /\ p.cur = pipe.cur /\ p.waves = pipe.waves /\ p.retries = pipe.retries
    BY <2>3, TookOff
  <2>6. p.results = Append(pipe.results, content)
    <3>1. pipe = [waves |-> pipe.waves, cur |-> pipe.cur, retries |-> pipe.retries,
                  qaLoops |-> pipe.qaLoops, pending |-> pipe.pending, results |-> pipe.results]
      BY <2>3, PipeFields
    <3> QED BY ONLY <3>1
  <2> HIDE DEF ts, p
  <2>7. pipe' = p => pipe'.cur = pipe.cur
    BY <2>5
  <2>8. Gate(p, ts)
    <3>1. pipe' # p
      BY <2>3, <2>7
    <3> QED BY <2>2, <3>1, Zenon DEF Reply, ts, p
  <2>9. i \in 1 .. Len(p.results) /\ Issue(p, i)
    BY <2>3, <2>5, <2>6, IssueStays
  <2> QED BY <2>4, <2>5, <2>8, <2>9, GateStops
<1> QED BY <1>1, Invariant, PTL DEF Spec, GateHolds
=============================================================================
