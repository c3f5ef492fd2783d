----------------------- MODULE PipelineProgress_proofs -----------------------
(***************************************************************************)
(* Proofs about PipelineWaves, for any waves, bounds and circumstances:    *)
(* in those that the wave keeps track of, a running pipeline always has    *)
(* something to wait for; in all of them, no wave of its plan is lost.     *)
(* They rest on the invariant of PipelineWaves_proofs.                     *)
(***************************************************************************)
EXTENDS PipelineWaves_proofs, FiniteSetTheorems

\* No wave is empty, in memory, on disk or in a retry timer: a wave that is
\* dispatched over a connection waits for at least one id.
Wave == Seq(Roles) \ {<<>>}
Filled ==
  /\ Running => pipe.waves \in Seq(Wave)
  /\ disk # NoFile => disk.waves \in Seq(Wave)
  /\ \A tm \in timers : tm.steps # 0

Progress == Filled /\ NeverStuck

-----------------------------------------------------------------------------
LEMMA NoPipeNotRunning == ASSUME pipe' = NoPipe PROVE ~Running'
BY DEF Running

LEMMA WaveLength ==
  ASSUME NEW w \in Wave
  PROVE  Len(w) \in Nat /\ Len(w) # 0
BY EmptySeq DEF Wave

LEMMA WavesAreWaves ==
  ASSUME NEW ws \in Seq(Wave)
  PROVE  ws \in Seq(Seq(Roles)) /\ Len(ws) \in Nat /\ \A i \in 1 .. Len(ws) : ws[i] \in Wave
<1>1. Wave \subseteq Seq(Roles)
  BY DEF Wave
<1>2. Len(ws) \in Nat /\ \A i \in 1 .. Len(ws) : ws[i] \in Wave
  OBVIOUS
<1> QED BY <1>1, <1>2

(* Ids that a dispatch gets are open, the others are as they were.         *)
LEMMA DispatchedOpens ==
  ASSUME NEW ts \in [TaskIds -> Entries], NEW n, NEW w, tasks' = Dispatched(ts, n, Sent(w)), NEW t \in TaskIds
  PROVE  /\ t \in IdsFrom(ts, n) => Open(t)'
         /\ ts[t].status \in {"sent", "waiting"} => Open(t)'
BY DEF Dispatched, Sent, Open

(* With a connection and no rejects, n steps get n ids.                    *)
LEMMA IdsAreGiven ==
  ASSUME Tracked, NEW ts, NEW n \in Nat, NEW m \in Accepted(n), n # 0, conn = "up"
  PROVE  IdsFrom(ts, m) # {}
<1>1. m = n
  BY DEF Accepted, Tracked
<1>2. NextId(ts) \in Nat
  <2>1. IsFiniteSet(TaskIds)
    BY Bounds, FS_Interval DEF TaskIds
  <2>2. IsFiniteSet({t \in TaskIds : ts[t].status # "unused"})
    BY <2>1, FS_Subset
  <2>3. Cardinality({t \in TaskIds : ts[t].status # "unused"}) \in Nat
    BY <2>2, FS_CardinalityType
  <2> QED BY <2>3 DEF NextId
<1> HIDE DEF NextId
<1>3. NextId(ts) \in IdsFrom(ts, m)
  BY <1>1, <1>2 DEF IdsFrom
<1> QED BY <1>3

(* dispatchPipelineWave.                                                   *)
LEMMA DispatchWaveGoesOn ==
  ASSUME TypeOK, conn' = conn, env' = env,
         NEW p \in Pipes, p.waves \in Seq(Wave), p.cur >= 1,
         NEW ts \in [TaskIds -> Entries],
         NEW tms \in SUBSET Timers, \A tm \in tms : tm.steps # 0,
         DispatchWave(p, ts, tms)
  PROVE  Progress'
<1>0. p.cur \in Nat /\ Len(p.waves) \in Nat /\ conn \in {"up", "down"}
  BY DEF Pipes, TypeOK
<1>1. CASE p.cur > Len(p.waves)
  <2>1. pipe' = NoPipe /\ disk' = NoFile /\ timers' = Orphaned(tms)
    <3>1. ~(p.cur <= Len(p.waves))
      BY <1>0, <1>1
    <3> QED BY <3>1, Zenon DEF DispatchWave, Drop
  <2>2. \A tm \in timers' : tm.steps # 0
    BY <2>1 DEF Orphaned, Timers
  <2> QED BY <2>1, <2>2, NoPipeNotRunning DEF Progress, Filled, NeverStuck
<1>2. CASE p.cur <= Len(p.waves)
  <2>p. ~(p.cur > Len(p.waves))
    BY <1>0, <1>2
  <2>0. disk' = Saved(p) /\ timers' = tms
    BY <2>p, Zenon DEF DispatchWave
  <2>1. PICK n \in Accepted(Len(p.waves[p.cur])) :
          /\ Free(ts, n)
          /\ tasks' = Dispatched(ts, n, Sent(p.cur))
          /\ pipe' = [p EXCEPT !.pending = IdsFrom(ts, n), !.results = <<>>]
    BY <2>p, Zenon DEF DispatchWave
  <2>2. pipe'.waves = p.waves /\ pipe'.pending = IdsFrom(ts, n)
    BY <2>1 DEF Pipes
  <2>3. disk'.waves = p.waves
    BY <2>0 DEF Saved
  <2>4. Filled'
    BY <2>0, <2>2, <2>3 DEF Filled
  <2>5. \A t \in pipe'.pending : Open(t)'
    BY <2>1, <2>2, FreeTypes, DispatchedOpens
  <2>6. Len(p.waves[p.cur]) \in Nat /\ Len(p.waves[p.cur]) # 0
    BY <1>0, <1>2, WavesAreWaves, WaveLength
  <2>7. Tracked /\ conn = "up" => pipe'.pending # {}
    BY <2>1, <2>2, <2>6, IdsAreGiven
  <2>8. Tracked' <=> Tracked
    BY DEF Tracked
  <2> QED BY <1>0, <2>4, <2>5, <2>7, <2>8 DEF Progress, NeverStuck
<1> QED BY <1>0, <1>1, <1>2

(* The pipeline is dropped.                                                *)
LEMMA EndsFilled ==
  ASSUME timers \in SUBSET Timers, \A tm \in timers : tm.steps # 0,
         pipe' = NoPipe, disk' = NoFile, timers' = Orphaned(timers)
  PROVE  Progress'
<1>1. \A tm \in timers' : tm.steps # 0
  BY DEF Orphaned, Timers
<1> QED BY <1>1, NoPipeNotRunning DEF Progress, Filled, NeverStuck

(* Advance dispatches the next wave.                                       *)
LEMMA AdvanceGoesOn ==
  ASSUME IInv, Filled, conn' = conn, env' = env,
         NEW p, GoodPipe(p), p.waves \in Seq(Wave),
         NEW ts \in [TaskIds -> Entries], Advance(p, ts)
  PROVE  Progress'
<1> DEFINE q == [p EXCEPT !.cur = @ + 1]
<1>1. q = [waves |-> p.waves, cur |-> p.cur + 1, retries |-> p.retries,
           qaLoops |-> p.qaLoops, pending |-> p.pending, results |-> p.results]
  <2>1. p = [waves |-> p.waves, cur |-> p.cur, retries |-> p.retries,
             qaLoops |-> p.qaLoops, pending |-> p.pending, results |-> p.results]
    BY PipeFields
  <2> QED BY ONLY <2>1
<1>2. DispatchWave(q, ts, timers)
  BY DEF Advance
<1>3. TypeOK /\ timers \in SUBSET Timers /\ \A tm \in timers : tm.steps # 0
  BY DEF IInv, TypeOK, Filled
<1> HIDE DEF q
<1>4. q \in Pipes /\ q.waves = p.waves /\ q.cur >= 1
  <2>1. p.cur + 1 \in Nat /\ p.cur + 1 >= 1
    BY PipeFields
  <2>2. /\ p.waves \in Seq(Seq(Roles)) /\ p.retries \in [WaveIds -> Nat] /\ p.qaLoops \in [WaveIds -> Nat]
        /\ p.pending \in SUBSET TaskIds /\ p.results \in Seq(AllContents)
    BY PipeFields
  <2>3. q \in Pipes
    BY <1>1, <2>1, <2>2, MakePipe
  <2>4. q.waves = p.waves /\ q.cur = p.cur + 1
    BY <1>1
  <2> QED BY <2>1, <2>3, <2>4
<1> QED BY <1>2, <1>3, <1>4, DispatchWaveGoesOn

-----------------------------------------------------------------------------
(* The waves of a pipeline with a fixer wave are filled too.               *)
LEMMA WithFixerFilled ==
  ASSUME NEW p, GoodPipe(p), p.waves \in Seq(Wave)
  PROVE  WithFixer(p).waves \in Seq(Wave)
<1> DEFINE before == SubSeq(p.waves, 1, p.cur)
           between == << <<"fixer">>, p.waves[p.cur] >>
           after == SubSeq(p.waves, p.cur + 1, Len(p.waves))
<1>1. /\ Len(p.waves) \in Nat /\ p.cur \in Nat /\ p.cur >= 1 /\ p.cur <= Len(p.waves)
      /\ \A i \in 1 .. Len(p.waves) : p.waves[i] \in Wave
  BY PipeFields, WavesAreWaves
<1>2. before \in Seq(Wave)
  <2>1. \A i \in 1 .. p.cur : p.waves[i] \in Wave
    BY <1>1
  <2> QED BY <1>1, <2>1, SubSeqProperties
<1>3. after \in Seq(Wave)
  <2>1. \A i \in p.cur + 1 .. Len(p.waves) : p.waves[i] \in Wave
    BY <1>1
  <2> QED BY <1>1, <2>1, SubSeqProperties
<1>4. between \in Seq(Wave)
  <2>1. <<"fixer">> \in Wave /\ p.waves[p.cur] \in Wave
    BY <1>1 DEF Wave, Roles
  <2> QED BY <2>1
<1>5. WithFixer(p).waves = before \o between \o after
  <2>1. p = [waves |-> p.waves, cur |-> p.cur, retries |-> p.retries,
             qaLoops |-> p.qaLoops, pending |-> p.pending, results |-> p.results]
    BY PipeFields
  <2> DEFINE all == before \o between \o after
             q == WithFixer(p)
  <2>2. q = [p EXCEPT !.waves = all, !.qaLoops[p.cur] = @ + 1, !.cur = @ + 1]
    BY DEF WithFixer
  <2> HIDE DEF all, q
  <2>3. q.waves = all
    BY ONLY <2>1, <2>2
  <2> QED BY <2>3 DEF all, q
<1> HIDE DEF before, between, after
<1>6. before \o between \in Seq(Wave)
  BY <1>2, <1>4, ConcatProperties
<1> QED BY <1>3, <1>5, <1>6, ConcatProperties

(* The gate's verdict is carried out.                                      *)
LEMMA GateGoesOn ==
  ASSUME IInv, Filled, conn' = conn, env' = env,
         NEW p, GoodPipe(p), p.waves \in Seq(Wave),
         NEW ts \in [TaskIds -> Entries], Gate(p, ts)
  PROVE  Progress'
<1>0. TypeOK /\ timers \in SUBSET Timers /\ \A tm \in timers : tm.steps # 0
  BY DEF IInv, TypeOK, Filled
<1>1. CASE Len(p.waves) + 2 <= MaxWaves /\ DispatchWave(WithFixer(p), ts, timers)
  <2> DEFINE q == WithFixer(p)
  <2>1. q \in Pipes /\ q.cur = p.cur + 1 /\ q.waves \in Seq(Wave)
    BY <1>1, WithFixerShows, WithFixerFilled
  <2>2. q.cur >= 1 /\ DispatchWave(q, ts, timers)
    BY <1>1, <2>1, PipeFields
  <2> HIDE DEF q
  <2> QED BY <1>0, <2>1, <2>2, DispatchWaveGoesOn
<1>2. CASE Advance(p, ts)
  BY <1>2, AdvanceGoesOn
<1>3. CASE Retry(p, ts)
  <2> DEFINE tm == [wave |-> p.cur, steps |-> Len(p.waves[p.cur]), live |-> TRUE]
             q == [p EXCEPT !.retries[p.cur] = @ + 1, !.pending = {}, !.results = <<>>]
  <2>1. pipe' = q /\ disk' = Saved(q) /\ timers' = timers \cup {tm}
    BY <1>3 DEF Retry
  <2>2. q.waves = p.waves /\ q.pending = {}
    <3>1. p = [waves |-> p.waves, cur |-> p.cur, retries |-> p.retries,
               qaLoops |-> p.qaLoops, pending |-> p.pending, results |-> p.results]
      BY PipeFields
    <3>2. q = [p EXCEPT !.retries[p.cur] = @ + 1, !.pending = {}, !.results = <<>>]
      OBVIOUS
    <3> HIDE DEF q
    <3> QED BY ONLY <3>1, <3>2
  <2>3. tm.steps # 0
    <3>1. p.cur \in 1 .. Len(p.waves)
      BY PipeFields
    <3> QED BY <3>1, WavesAreWaves, WaveLength
  <2>4. tm \in timers' /\ tm.live
    BY <2>1
  <2> HIDE DEF q, tm
  <2>5. pipe'.waves = p.waves /\ pipe'.pending = {} /\ disk'.waves = p.waves
    BY <2>1, <2>2 DEF Saved
  <2>6. Filled'
    BY <1>0, <2>1, <2>3, <2>5 DEF Filled
  <2> QED BY <2>4, <2>5, <2>6 DEF Progress, NeverStuck
<1>4. CASE Drop("halted") /\ timers' = Orphaned(timers)
  BY <1>0, <1>4, EndsFilled DEF Drop
<1> QED BY <1>1, <1>2, <1>3, <1>4, Zenon DEF Gate

-----------------------------------------------------------------------------
(* A handler that leaves the pipeline and its timers alone, and the ids it *)
(* waits for open.                                                         *)
LEMMA QuietGoesOn ==
  ASSUME Progress, env' = env, UNCHANGED <<pipe, disk, timers>>,
         conn' = "down" \/ (conn' = conn /\ resumeDue' = resumeDue) \/ resumeDue' > 0,
         Running /\ Tracked => \A t \in pipe.pending : Open(t)'
  PROVE  Progress'
<1>1. (Running' <=> Running) /\ (Tracked' <=> Tracked)
  BY DEF Running, Tracked
<1>2. Filled'
  BY <1>1 DEF Progress, Filled
<1> QED BY <1>1, <1>2 DEF Progress, NeverStuck

(* An id has been taken off, and others are waited for.                    *)
LEMMA TookOffGoesOn ==
  ASSUME Progress, env' = env, UNCHANGED <<disk, timers, conn, resumeDue>>,
         Running, GoodPipe(pipe), NEW p, NEW t \in TaskIds, NEW content,
         p = [pipe EXCEPT !.pending = @ \ {t}, !.results = Append(@, content)],
         p.pending # {}, pipe' = p,
         \A u \in TaskIds \ {t} : tasks'[u] = tasks[u]
  PROVE  Progress'
<1>1. p.pending = pipe.pending \ {t} /\ p.waves = pipe.waves
  BY DEF GoodPipe, Pipes
<1>2. pipe.pending \in SUBSET TaskIds
  BY PipeFields
<1>3. Tracked' <=> Tracked
  BY DEF Tracked
<1>4. Filled'
  BY <1>1 DEF Progress, Filled
<1>5. Tracked => \A u \in p.pending : Open(u)'
  BY <1>1, <1>2 DEF Progress, NeverStuck, Open
<1> QED BY <1>3, <1>4, <1>5 DEF Progress, NeverStuck

LEMMA TimeoutGoesOn ==
  ASSUME IInv, Progress, NEW t \in TaskIds, Timeout(t), env' = env
  PROVE  Progress'
<1> DEFINE ts == [tasks EXCEPT ![t] = Gone]
           p == [pipe EXCEPT !.pending = @ \ {t}, !.results = Append(@, "report")]
<1>0. /\ TypeOK /\ UNCHANGED <<conn, resumeDue>> /\ ts \in [TaskIds -> Entries]
      /\ tasks \in [TaskIds -> Entries]
  BY EntryChanged DEF Timeout, IInv, TypeOK
<1>1. CASE ~Running /\ UNCHANGED <<pipe, disk, timers, outcome>>
  BY <1>0, <1>1, QuietGoesOn
<1>2. CASE Running /\ p.pending # {} /\ pipe' = p /\ tasks' = ts /\ UNCHANGED <<disk, timers, outcome>>
  <2>1. GoodPipe(pipe) /\ \A u \in TaskIds \ {t} : tasks'[u] = tasks[u]
    BY <1>0, <1>2 DEF IInv, Placed
  <2> HIDE DEF p, ts
  <2>2. p = [pipe EXCEPT !.pending = @ \ {t}, !.results = Append(@, "report")]
    BY DEF p
  <2> QED BY <1>0, <1>2, <2>1, <2>2, TookOffGoesOn
<1>3. CASE Running /\ Advance(p, ts)
  <2>1. GoodPipe(p) /\ p.waves = pipe.waves
    <3>1. GoodPipe(pipe)
      BY <1>3 DEF IInv, Placed
    <3>2. p.waves = pipe.waves
      BY <3>1 DEF GoodPipe, Pipes
    <3> QED BY <1>3, <3>2, TookOff DEF AllContents
  <2>2. p.waves \in Seq(Wave)
    BY <1>3, <2>1 DEF Progress, Filled
  <2> HIDE DEF p, ts
  <2> QED BY <1>0, <1>3, <2>1, <2>2, AdvanceGoesOn DEF Progress
<1> QED BY <1>1, <1>2, <1>3, Zenon DEF Timeout

LEMMA ReplyGoesOn ==
  ASSUME IInv, Progress, NEW t \in TaskIds, NEW content \in env.contents, Reply(t, content), env' = env
  PROVE  Progress'
<1> DEFINE ts == [tasks EXCEPT ![t].status = IF @ = "bailed" THEN @ ELSE "done"]
           p == [pipe EXCEPT !.pending = @ \ {t}, !.results = Append(@, content)]
<1>0. TypeOK /\ UNCHANGED <<conn, resumeDue>> /\ tasks \in [TaskIds -> Entries]
  BY DEF Reply, IInv, TypeOK
<1>t. ts \in [TaskIds -> Entries]
  <2>1. tasks[t].status \in {"unused", "sent", "waiting", "done", "bailed", "gone"}
    BY <1>0 DEF Entries
  <2> DEFINE st == IF tasks[t].status = "bailed" THEN tasks[t].status ELSE "done"
  <2>2. ts = [tasks EXCEPT ![t].status = st]
    OBVIOUS
  <2>3. st \in {"unused", "sent", "waiting", "done", "bailed", "gone"}
    OBVIOUS
  <2> HIDE DEF ts, st
  <2> QED BY <1>0, <2>2, <2>3, EntryChanged
<1>c. content \in AllContents
  BY <1>0, EnvironmentAssumption DEF TypeOK, Circumstances
<1>1. CASE ~Running /\ UNCHANGED <<pipe, disk, timers, outcome>>
  BY <1>0, <1>1, QuietGoesOn
<1>2. CASE Running /\ p.pending # {} /\ pipe' = p /\ tasks' = ts /\ UNCHANGED <<disk, timers, outcome>>
  <2>1. GoodPipe(pipe) /\ \A u \in TaskIds \ {t} : tasks'[u] = tasks[u]
    BY <1>0, <1>2 DEF IInv, Placed
  <2> HIDE DEF p, ts
  <2>2. p = [pipe EXCEPT !.pending = @ \ {t}, !.results = Append(@, content)]
    BY DEF p
  <2> QED BY <1>0, <1>2, <2>1, <2>2, TookOffGoesOn
<1>3. CASE Running /\ Gate(p, ts)
  <2>1. GoodPipe(p) /\ p.waves = pipe.waves
    <3>1. GoodPipe(pipe)
      BY <1>3 DEF IInv, Placed
    <3>2. p.waves = pipe.waves
      BY <3>1 DEF GoodPipe, Pipes
    <3> QED BY <1>3, <1>c, <3>2, TookOff
  <2>2. p.waves \in Seq(Wave)
    BY <1>3, <2>1 DEF Progress, Filled
  <2> HIDE DEF p, ts
  <2> QED BY <1>0, <1>t, <1>3, <2>1, <2>2, GateGoesOn DEF Progress
<1> HIDE DEF p, ts
<1> QED BY <1>1, <1>2, <1>3, Zenon DEF Reply, p, ts

LEMMA DispatchGoesOn ==
  ASSUME IInv, Progress, NEW t \in TaskIds, env' = env,
         Extend(t) \/ Bail(t) \/ RateLimited(t) \/ Forget(t)
  PROVE  Progress'
<1>1. UNCHANGED <<pipe, disk, timers, conn, resumeDue>> /\ tasks \in [TaskIds -> Entries]
  BY DEF Extend, Bail, RateLimited, Forget, IInv, TypeOK
<1>2. ASSUME Tracked, NEW u \in TaskIds, Open(u)
      PROVE  Open(u)'
  <2>1. ~Bail(t) /\ ~RateLimited(t)
    BY <1>2 DEF Tracked, Bail, RateLimited
  <2>2. CASE Extend(t)
    BY <1>1, <1>2, <2>2 DEF Extend, Open, Entries
  <2>3. CASE Forget(t)
    BY <1>1, <1>2, <2>3 DEF Forget, Open
  <2> QED BY <2>1, <2>2, <2>3
<1>3. Running => pipe.pending \in SUBSET TaskIds
  BY PipeFields DEF IInv, Placed
<1> QED BY <1>1, <1>2, <1>3, QuietGoesOn DEF Progress, NeverStuck

LEMMA RetryWaveGoesOn ==
  ASSUME IInv, Progress, NEW tm \in timers, RetryWave(tm), env' = env
  PROVE  Progress'
<1>0. /\ UNCHANGED <<disk, conn, resumeDue>> /\ tasks \in [TaskIds -> Entries] /\ TypeOK
      /\ timers \in SUBSET Timers /\ timers' = timers \ {tm} /\ conn \in {"up", "down"}
  BY DEF RetryWave, IInv, TypeOK
<1>1. PICK n \in Accepted(tm.steps) :
       /\ Free(tasks, n)
       /\ tasks' = Dispatched(tasks, n, Sent(tm.wave))
       /\ pipe' = IF tm.live THEN [pipe EXCEPT !.pending = @ \cup IdsFrom(tasks, n)] ELSE pipe
  BY Zenon DEF RetryWave
<1>2. IdsFrom(tasks, n) \in SUBSET TaskIds
  BY <1>0, <1>1, FreeTypes
<1>3. \A u \in TaskIds : Open(u) \/ u \in IdsFrom(tasks, n) => Open(u)'
  BY <1>0, <1>1, DispatchedOpens DEF Open
<1>4. (Tracked' <=> Tracked) /\ (Running => GoodPipe(pipe))
  BY DEF Tracked, IInv, Placed
<1>5. CASE ~tm.live
  <2>1. pipe' = pipe /\ (Running' <=> Running)
    BY <1>1, <1>5 DEF Running
  <2>2. Filled'
    BY <1>0, <2>1 DEF Progress, Filled
  <2>3. (\E old \in timers : old.live) => \E new \in timers' : new.live
    BY <1>0, <1>5
  <2>4. Running /\ Tracked => \A u \in pipe.pending : Open(u)'
    BY <1>3, <1>4, PipeFields DEF Progress, NeverStuck
  <2> QED BY <1>0, <1>4, <2>1, <2>2, <2>3, <2>4 DEF Progress, NeverStuck
<1>6. CASE tm.live
  <2>1. Running /\ GoodPipe(pipe)
    BY <1>6 DEF IInv, Placed
  <2>2. pipe'.pending = pipe.pending \cup IdsFrom(tasks, n) /\ pipe'.waves = pipe.waves
    BY <1>1, <1>6, <2>1 DEF GoodPipe, Pipes
  <2>3. Filled'
    BY <1>0, <2>1, <2>2 DEF Progress, Filled
  <2>4. Tracked => \A u \in pipe'.pending : Open(u)'
    BY <1>2, <1>3, <2>1, <2>2, PipeFields DEF Progress, NeverStuck
  <2>5. Tracked /\ conn = "up" => pipe'.pending # {}
    <3>1. tm.steps \in Nat /\ tm.steps # 0
      BY <1>0 DEF Progress, Filled, Timers
    <3> QED BY <1>1, <2>2, <3>1, IdsAreGiven
  <2> QED BY <1>0, <1>4, <2>3, <2>4, <2>5 DEF Progress, NeverStuck
<1> QED BY <1>5, <1>6

LEMMA StartGoesOn ==
  ASSUME IInv, Progress, Start, env' = env
  PROVE  Progress'
<1> DEFINE p == NewPipe
<1>1. p \in Pipes /\ p.cur = 1 /\ p.waves = Waves
  BY Bounds DEF NewPipe, Pipes
<1>2. Waves \in Seq(Wave)
  <2>1. Waves \in Seq(Seq(Roles)) /\ \A i \in 1 .. Len(Waves) : Waves[i] \in Seq(Roles) \ {<<>>}
    BY WavesAssumption
  <2> QED BY <2>1 DEF Wave
<1>3. DispatchWave(p, tasks, timers) /\ conn' = conn
  BY DEF Start
<1>4. TypeOK /\ tasks \in [TaskIds -> Entries] /\ timers \in SUBSET Timers
  BY DEF IInv, TypeOK
<1> HIDE DEF p
<1> QED BY <1>1, <1>2, <1>3, <1>4, DispatchWaveGoesOn DEF Progress, Filled

LEMMA ResumeGoesOn ==
  ASSUME IInv, Progress, Resume, env' = env
  PROVE  Progress'
<1>0. TypeOK /\ tasks \in [TaskIds -> Entries] /\ timers \in SUBSET Timers /\ conn' = conn
  BY DEF Resume, IInv, TypeOK
<1>1. CASE disk = NoFile /\ UNCHANGED <<pipe, disk, tasks, timers, outcome>>
  <2>1. ~(Running /\ Tracked)
    <3>1. ASSUME Running, Tracked PROVE FALSE
      <4>1. disk = Saved(pipe) /\ GoodPipe(pipe)
        BY <3>1 DEF IInv, Placed, DiskIsCurrent, Tracked
      <4> QED BY <1>1, <4>1, SavedIsGood, GoodIsSome
    <3> QED BY <3>1
  <2>2. (Running' <=> Running) /\ (Tracked' <=> Tracked)
    BY <1>1 DEF Running, Tracked
  <2> QED BY <1>1, <2>1, <2>2 DEF Progress, Filled, NeverStuck
<1>2. CASE "stale" \in env.faults /\ disk' = NoFile /\ UNCHANGED <<pipe, tasks, timers>>
  <2>1. ~Tracked' /\ (Running' <=> Running)
    BY <1>2 DEF Tracked, Running
  <2> QED BY <1>2, <2>1 DEF Progress, Filled, NeverStuck
<1>3. CASE disk # NoFile /\ DispatchWave(Restored(disk), tasks, Orphaned(timers))
  <2> DEFINE p == Restored(disk)
             tms == Orphaned(timers)
  <2>1. GoodFile(disk)
    BY <1>3 DEF IInv, Placed
  <2>2. p \in Pipes /\ p.cur = disk.cur /\ p.waves = disk.waves
    BY <2>1 DEF GoodFile, Restored, Pipes, Saveds
  <2>3. p.cur >= 1 /\ p.waves \in Seq(Wave)
    BY <1>3, <2>1, <2>2 DEF GoodFile, Saveds, Progress, Filled
  <2>4. tms \in SUBSET Timers
    BY <1>0, OrphanedTypes
  <2>5. \A tm \in tms : tm.steps # 0
    BY <1>0 DEF Progress, Filled, Orphaned, Timers
  <2>6. DispatchWave(p, tasks, tms)
    BY <1>3
  <2> HIDE DEF p, tms
  <2> QED BY <1>0, <2>2, <2>3, <2>4, <2>5, <2>6, DispatchWaveGoesOn
<1> QED BY <1>1, <1>2, <1>3, Zenon DEF Resume

LEMMA LinkGoesOn ==
  ASSUME IInv, Progress, env' = env, Disconnect \/ Reconnect \/ Crash \/ Cancel
  PROVE  Progress'
<1>1. CASE Disconnect \/ Reconnect
  <2>1. UNCHANGED <<pipe, disk, tasks, timers>> /\ (conn' = "down" \/ resumeDue' > 0)
    BY <1>1 DEF Disconnect, Reconnect, IInv, TypeOK
  <2>2. Running /\ Tracked => \A t \in pipe.pending : Open(t)'
    BY <2>1 DEF Progress, NeverStuck, Open
  <2> QED BY <2>1, <2>2, QuietGoesOn
<1>2. CASE Crash
  <2>1. pipe' = NoPipe /\ timers' = {} /\ disk' = disk
    BY <1>2 DEF Crash
  <2> QED BY <2>1, NoPipeNotRunning DEF Progress, Filled, NeverStuck
<1>3. CASE Cancel
  BY <1>3, EndsFilled DEF Cancel, Drop, Progress, Filled, IInv, TypeOK
<1> QED BY <1>1, <1>2, <1>3

-----------------------------------------------------------------------------
THEOREM ProgressKept == IInv /\ Progress /\ [Next]_vars => Progress'
<1> SUFFICES ASSUME IInv, Progress, [Next]_vars PROVE Progress'
  OBVIOUS
<1>1. CASE UNCHANGED vars
  BY <1>1, QuietGoesOn DEF vars, Progress, NeverStuck, Open
<1>2. CASE Next
  <2>1. env' = env /\ Event
    BY <1>2 DEF Next
  <2>2. CASE \E t \in TaskIds : Extend(t) \/ Bail(t) \/ RateLimited(t) \/ Forget(t)
    BY <2>1, <2>2, DispatchGoesOn
  <2>3. CASE \E t \in TaskIds : Timeout(t)
    BY <2>1, <2>3, TimeoutGoesOn
  <2>4. CASE \E t \in TaskIds : \E content \in env.contents : Reply(t, content)
    BY <2>1, <2>4, ReplyGoesOn
  <2>5. CASE \E tm \in timers : RetryWave(tm)
    BY <2>1, <2>5, RetryWaveGoesOn
  <2> QED BY <2>1, <2>2, <2>3, <2>4, <2>5, StartGoesOn, LinkGoesOn, ResumeGoesOn DEF Event
<1> QED BY <1>1, <1>2

(* A running pipeline has something to wait for, as long as dispatches are *)
(* not rejected or replaced and no agent bails out: through timeouts,      *)
(* second copies, quality retries, fixers, disconnections and crashes no   *)
(* wave is left waiting for nothing.                                       *)
THEOREM SomethingToWaitFor == Spec => []NeverStuck
<1>1. Init => Progress
  BY DEF Init, Progress, Filled, NeverStuck, Running
<1>2. IInv /\ Progress /\ [Next]_vars => Progress'
  BY ProgressKept
<1>3. Progress => NeverStuck
  BY DEF Progress
<1> QED BY <1>1, <1>2, <1>3, Invariant, PTL DEF Spec

-----------------------------------------------------------------------------
(* The plan of a pipeline, and what happens to it.                         *)

\* The waves of a pipeline, in memory or after a crash on disk.
Planned == IF Running THEN pipe.waves ELSE IF disk # NoFile THEN disk.waves ELSE <<>>

\* The plan `new` is the plan `old` with a fixer and one more round of the wave
\* it has reached behind that wave: nothing is lost, changed or reordered.
FixedIn(old, new, at) ==
  /\ Len(new) = Len(old) + 2
  /\ \A i \in 1 .. at : new[i] = old[i]
  /\ new[at + 1] = <<"fixer">> /\ new[at + 2] = old[at]
  /\ \A i \in at + 1 .. Len(old) : new[i + 2] = old[i]

\* As long as something of a pipeline is left, its plan is the one it was started
\* with or the one before, the gate's insertion apart, which the pipeline moves
\* on to in the same step (wave-dispatcher.mjs:626-660, resumePipelines).
PlanHolds ==
  Running' \/ disk' # NoFile =>
    \/ Planned' = Planned
    \/ outcome = "none" /\ Planned' = Waves
    \/ FixedIn(Planned, Planned', Reached) /\ Reached' = Reached + 1

\* Where the waves of two sequences are when they are joined.
LEMMA Joined ==
  ASSUME NEW a \in Seq(Seq(Roles)), NEW b \in Seq(Seq(Roles)), NEW c, c = a \o b
  PROVE  /\ c \in Seq(Seq(Roles)) /\ Len(c) = Len(a) + Len(b)
         /\ \A i \in 1 .. Len(a) : c[i] = a[i]
         /\ \A i \in 1 .. Len(b) : c[Len(a) + i] = b[i]
<1>1. /\ a \o b \in Seq(Seq(Roles)) /\ Len(a \o b) = Len(a) + Len(b)
      /\ \A i \in 1 .. Len(a) + Len(b) :
           (a \o b)[i] = IF i <= Len(a) THEN a[i] ELSE b[i - Len(a)]
  BY ConcatProperties, Zenon
<1>2. Len(a) \in Nat /\ Len(b) \in Nat
  OBVIOUS
<1>3. ASSUME NEW i \in 1 .. Len(a) PROVE (a \o b)[i] = a[i]
  <2>1. i \in 1 .. Len(a) + Len(b) /\ i <= Len(a)
    BY <1>2
  <2> QED BY <1>1, <2>1, Zenon
<1>4. ASSUME NEW i \in 1 .. Len(b) PROVE (a \o b)[Len(a) + i] = b[i]
  <2> DEFINE k == Len(a) + i
  <2>1. k \in 1 .. Len(a) + Len(b) /\ ~(k <= Len(a)) /\ k - Len(a) = i
    BY <1>2
  <2> HIDE DEF k
  <2>2. (a \o b)[k] = b[k - Len(a)]
    BY <1>1, <2>1, Zenon
  <2>3. (a \o b)[k] = b[i]
    BY <2>1, <2>2, Zenon
  <2> QED BY <2>3 DEF k
<1> QED BY <1>1, <1>3, <1>4, Zenon

\* What an insertion leaves at each place.
LEMMA Insertion ==
  ASSUME NEW old \in Seq(Seq(Roles)), NEW at \in 1 .. Len(old)
  PROVE  FixedIn(old, SubSeq(old, 1, at) \o << <<"fixer">>, old[at] >>
                        \o SubSeq(old, at + 1, Len(old)), at)
<1> DEFINE before == SubSeq(old, 1, at)
           between == << <<"fixer">>, old[at] >>
           after == SubSeq(old, at + 1, Len(old))
<1>1. /\ Len(old) \in Nat /\ at \in Nat /\ at >= 1 /\ at <= Len(old)
      /\ \A i \in 1 .. Len(old) : old[i] \in Seq(Roles)
  OBVIOUS
<1>2. /\ before \in Seq(Seq(Roles)) /\ Len(before) = at
      /\ \A i \in 1 .. at : before[i] = old[i]
  <2>1. \A i \in 1 .. at : old[i] \in Seq(Roles)
    BY <1>1
  <2>2. /\ before \in Seq(Seq(Roles)) /\ Len(before) = IF 1 <= at THEN at - 1 + 1 ELSE 0
        /\ \A i \in 1 .. at - 1 + 1 : before[i] = old[1 + i - 1]
    BY <1>1, <2>1, SubSeqProperties
  <2> HIDE DEF before
  <2> QED BY <1>1, <2>2
<1>3. /\ after \in Seq(Seq(Roles)) /\ Len(after) = Len(old) - at
      /\ \A i \in 1 .. Len(old) - at : after[i] = old[at + i]
  <2>1. \A i \in at + 1 .. Len(old) : old[i] \in Seq(Roles)
    BY <1>1
  <2>2. at + 1 \in Int /\ Len(old) \in Int
    BY <1>1
  <2>3. /\ after \in Seq(Seq(Roles))
        /\ Len(after) = IF at + 1 <= Len(old) THEN Len(old) - (at + 1) + 1 ELSE 0
        /\ \A i \in 1 .. Len(old) - (at + 1) + 1 : after[i] = old[at + 1 + i - 1]
    BY <2>1, <2>2, SubSeqProperties
  <2> HIDE DEF after
  <2> QED BY <1>1, <2>3
<1>4. /\ between \in Seq(Seq(Roles)) /\ Len(between) = 2
      /\ between[1] = <<"fixer">> /\ between[2] = old[at]
  <2>1. <<"fixer">> \in Seq(Roles) /\ old[at] \in Seq(Roles)
    BY <1>1 DEF Roles
  <2> QED BY <2>1
<1> HIDE DEF before, between, after
<1> DEFINE head == before \o between
           all == head \o after
<1>5. /\ head \in Seq(Seq(Roles)) /\ Len(head) = Len(before) + Len(between)
      /\ \A i \in 1 .. Len(before) : head[i] = before[i]
      /\ \A i \in 1 .. Len(between) : head[Len(before) + i] = between[i]
  <2>1. before \in Seq(Seq(Roles)) /\ between \in Seq(Seq(Roles))
    BY <1>2, <1>4
  <2>2. head = before \o between
    OBVIOUS
  <2> HIDE DEF all, head
  <2> QED BY <2>1, <2>2, Joined
<1> HIDE DEF head
<1>6. /\ Len(all) = Len(head) + Len(after)
      /\ \A i \in 1 .. Len(head) : all[i] = head[i]
      /\ \A i \in 1 .. Len(after) : all[Len(head) + i] = after[i]
  <2>1. head \in Seq(Seq(Roles)) /\ after \in Seq(Seq(Roles))
    BY <1>3, <1>5
  <2>2. all = head \o after
    OBVIOUS
  <2> HIDE DEF all
  <2> QED BY <2>1, <2>2, Joined
<1> HIDE DEF all
<1>7. Len(head) = at + 2 /\ Len(all) = Len(old) + 2
  BY <1>1, <1>2, <1>3, <1>4, <1>5, <1>6
<1>8. \A i \in 1 .. at : all[i] = old[i]
  <2>1. \A i \in 1 .. at : i \in 1 .. Len(head)
    BY <1>1, <1>7
  <2> QED BY <1>2, <1>5, <1>6, <2>1, Zenon
<1>9. all[at + 1] = <<"fixer">> /\ all[at + 2] = old[at]
  <2>1. at + 1 \in 1 .. Len(head) /\ at + 2 \in 1 .. Len(head)
    BY <1>1, <1>7
  <2>2. 1 \in 1 .. Len(between) /\ 2 \in 1 .. Len(between)
    BY <1>4
  <2>3. head[at + 1] = between[1] /\ head[at + 2] = between[2]
    BY <1>2, <1>5, <2>2, Zenon
  <2> QED BY <1>4, <1>6, <2>1, <2>3, Zenon
<1>10. \A i \in at + 1 .. Len(old) : all[i + 2] = old[i]
  <2> SUFFICES ASSUME NEW i \in at + 1 .. Len(old) PROVE all[i + 2] = old[i]
    OBVIOUS
  <2> DEFINE k == i - at
  <2>1. /\ k \in 1 .. Len(after) /\ k \in 1 .. Len(old) - at
        /\ at + k = i /\ Len(head) + k = i + 2
    BY <1>1, <1>3, <1>7
  <2> HIDE DEF k
  <2>2. all[Len(head) + k] = after[k] /\ after[k] = old[at + k]
    BY <1>3, <1>6, <2>1, Zenon
  <2> QED BY <2>1, <2>2, Zenon
<1>11. FixedIn(old, all, at)
  BY <1>7, <1>8, <1>9, <1>10, Zenon DEF FixedIn
<1> QED BY <1>11 DEF all, head, before, between, after

\* The pipeline has ended, or goes on with these waves.
GoesOnWith(waves) ==
  (pipe' = NoPipe /\ disk' = NoFile) \/ (Running' /\ pipe'.waves = waves)

LEMMA DispatchKeepsWaves ==
  ASSUME TypeOK, NEW p \in Pipes, p.cur >= 1, Len(p.waves) <= MaxWaves,
         NEW ts \in [TaskIds -> Entries], NEW tms \in SUBSET Timers, DispatchWave(p, ts, tms)
  PROVE  GoesOnWith(p.waves)
<1>1. EndedNow("completed") \/ WaitsNow(p.cur, Len(p.waves))
  BY DispatchWaveShows
<1>2. CASE EndedNow("completed")
  BY <1>2 DEF EndedNow, GoesOnWith
<1>3. CASE WaitsNow(p.cur, Len(p.waves))
  <2>1. Running'
    BY <1>3, GoodIsSome DEF WaitsNow, Running
  <2>2. \E ids : pipe' = [p EXCEPT !.pending = ids, !.results = <<>>]
    <3>1. pipe' # NoPipe
      BY <2>1 DEF Running
    <3> QED BY <3>1, Zenon DEF DispatchWave, Drop
  <2>3. p = [waves |-> p.waves, cur |-> p.cur, retries |-> p.retries,
             qaLoops |-> p.qaLoops, pending |-> p.pending, results |-> p.results]
    BY DEF Pipes
  <2>4. pipe'.waves = p.waves
    BY ONLY <2>2, <2>3
  <2> QED BY <2>1, <2>4 DEF GoesOnWith
<1> QED BY <1>1, <1>2, <1>3

LEMMA AdvanceKeepsWaves ==
  ASSUME IInv, NEW p, GoodPipe(p), NEW ts \in [TaskIds -> Entries], Advance(p, ts)
  PROVE  GoesOnWith(p.waves)
<1> DEFINE q == [p EXCEPT !.cur = @ + 1]
<1>1. q = [waves |-> p.waves, cur |-> p.cur + 1, retries |-> p.retries,
           qaLoops |-> p.qaLoops, pending |-> p.pending, results |-> p.results]
  <2>1. p = [waves |-> p.waves, cur |-> p.cur, retries |-> p.retries,
             qaLoops |-> p.qaLoops, pending |-> p.pending, results |-> p.results]
    BY PipeFields
  <2> QED BY ONLY <2>1
<1>2. /\ p.waves \in Seq(Seq(Roles)) /\ p.retries \in [WaveIds -> Nat] /\ p.qaLoops \in [WaveIds -> Nat]
      /\ p.pending \in SUBSET TaskIds /\ p.results \in Seq(AllContents)
      /\ p.cur + 1 \in Nat /\ p.cur + 1 >= 1 /\ Len(p.waves) <= MaxWaves
  BY PipeFields
<1>3. DispatchWave(q, ts, timers) /\ TypeOK /\ timers \in SUBSET Timers
  BY DEF Advance, IInv, TypeOK
<1> HIDE DEF q
<1>4. q \in Pipes /\ q.cur >= 1 /\ q.waves = p.waves /\ Len(q.waves) <= MaxWaves
  <2>1. q \in Pipes
    BY <1>1, <1>2, MakePipe
  <2> QED BY <1>1, <1>2, <2>1
<1> QED BY <1>3, <1>4, DispatchKeepsWaves

LEMMA GateKeepsWaves ==
  ASSUME IInv, NEW p, GoodPipe(p), NEW ts \in [TaskIds -> Entries], Gate(p, ts)
  PROVE  \/ GoesOnWith(p.waves)
         \/ /\ Running' /\ FixedIn(p.waves, pipe'.waves, p.cur)
            /\ pipe'.cur = p.cur + 1
<1>0. TypeOK /\ timers \in SUBSET Timers
  BY DEF IInv, TypeOK
<1>1. CASE Len(p.waves) + 2 <= MaxWaves /\ DispatchWave(WithFixer(p), ts, timers)
  <2> DEFINE q == WithFixer(p)
  <2>1. q \in Pipes /\ q.cur = p.cur + 1 /\ q.cur >= 1 /\ Len(q.waves) <= MaxWaves
    BY <1>1, WithFixerShows, PipeFields
  <2>2. WaitsNow(p.cur + 1, Len(p.waves) + 2)
    BY <1>1, WithFixerDispatched
  <2>3. DispatchWave(q, ts, timers)
    BY <1>1
  <2>4. FixedIn(p.waves, q.waves, p.cur)
    <3>1. p = [waves |-> p.waves, cur |-> p.cur, retries |-> p.retries,
               qaLoops |-> p.qaLoops, pending |-> p.pending, results |-> p.results]
      BY PipeFields
    <3> DEFINE all == SubSeq(p.waves, 1, p.cur) \o << <<"fixer">>, p.waves[p.cur] >>
                        \o SubSeq(p.waves, p.cur + 1, Len(p.waves))
    <3>2. FixedIn(p.waves, all, p.cur)
      BY PipeFields, Insertion
    <3>3. q = [p EXCEPT !.waves = all, !.qaLoops[p.cur] = @ + 1, !.cur = @ + 1]
      BY DEF WithFixer
    <3> HIDE DEF all, q
    <3>4. q.waves = all
      BY ONLY <3>1, <3>3
    <3> QED BY <3>2, <3>4
  <2> HIDE DEF q
  <2>5. GoesOnWith(q.waves)
    BY <1>0, <2>1, <2>3, DispatchKeepsWaves
  <2>6. pipe' # NoPipe
    BY <2>2, GoodIsSome DEF WaitsNow
  <2> QED BY <2>2, <2>4, <2>5, <2>6 DEF WaitsNow, GoesOnWith
<1>2. CASE Advance(p, ts)
  BY <1>2, AdvanceKeepsWaves
<1>3. CASE Retry(p, ts)
  <2> DEFINE q == [p EXCEPT !.retries[p.cur] = @ + 1, !.pending = {}, !.results = <<>>]
  <2>1. pipe' = q
    BY <1>3 DEF Retry
  <2>2. q.waves = p.waves /\ q.cur = p.cur
    <3>1. p = [waves |-> p.waves, cur |-> p.cur, retries |-> p.retries,
               qaLoops |-> p.qaLoops, pending |-> p.pending, results |-> p.results]
      BY PipeFields
    <3>2. q = [p EXCEPT !.retries[p.cur] = @ + 1, !.pending = {}, !.results = <<>>]
      OBVIOUS
    <3> HIDE DEF q
    <3> QED BY ONLY <3>1, <3>2
  <2> HIDE DEF q
  <2>3. Running'
    BY <2>1, <2>2, PipeFields, NoPipeIsNoPipe DEF Running
  <2> QED BY <2>1, <2>2, <2>3 DEF GoesOnWith
<1>4. CASE Drop("halted")
  BY <1>4 DEF Drop, GoesOnWith
<1> QED BY <1>1, <1>2, <1>3, <1>4, Zenon DEF Gate

-----------------------------------------------------------------------------
\* A step that leaves the plan in memory alone, or ends the pipeline.
LEMMA SameWaves ==
  ASSUME IInv, Running, GoesOnWith(pipe.waves)
  PROVE  PlanHolds
<1>1. CASE pipe' = NoPipe /\ disk' = NoFile
  BY <1>1, NoPipeNotRunning DEF PlanHolds
<1>2. CASE Running' /\ pipe'.waves = pipe.waves
  BY <1>2 DEF PlanHolds, Planned
<1> QED BY <1>1, <1>2 DEF GoesOnWith

LEMMA SamePlan == ASSUME UNCHANGED <<pipe, disk>> PROVE PlanHolds
BY DEF PlanHolds, Planned, Running

LEMMA PlanReply ==
  ASSUME IInv, NEW t \in TaskIds, NEW content \in env.contents, Reply(t, content)
  PROVE  PlanHolds
<1> DEFINE ts == [tasks EXCEPT ![t].status = IF @ = "bailed" THEN @ ELSE "done"]
           p == [pipe EXCEPT !.pending = @ \ {t}, !.results = Append(@, content)]
<1>0. TypeOK /\ content \in AllContents
  BY EnvironmentAssumption DEF IInv, TypeOK, Circumstances
<1>1. ts \in [TaskIds -> Entries]
  BY <1>0, RepliedTypes
<1>2. Running => GoodPipe(p) /\ p.cur = pipe.cur /\ p.waves = pipe.waves
  BY <1>0, TookOff
<1> HIDE DEF ts, p
<1>3. CASE UNCHANGED <<pipe, disk>>
  BY <1>3, SamePlan
<1>4. CASE Running /\ pipe' = p
  <2>1. Running'
    BY <1>2, <1>4, GoodIsSome DEF Running
  <2> QED BY <1>2, <1>4, <2>1, SameWaves DEF GoesOnWith
<1>5. CASE Running /\ Gate(p, ts)
  <2>1. Running' /\ FixedIn(p.waves, pipe'.waves, p.cur) /\ pipe'.cur = p.cur + 1 => PlanHolds
    BY <1>2, <1>5 DEF PlanHolds, Planned, Reached
  <2> QED BY <1>1, <1>2, <1>5, <2>1, GateKeepsWaves, SameWaves
<1> QED BY <1>3, <1>4, <1>5, Zenon DEF Reply, ts, p

LEMMA PlanTimeout ==
  ASSUME IInv, NEW t \in TaskIds, Timeout(t)
  PROVE  PlanHolds
<1> DEFINE ts == [tasks EXCEPT ![t] = Gone]
           p == [pipe EXCEPT !.pending = @ \ {t}, !.results = Append(@, "report")]
<1>1. ts \in [TaskIds -> Entries]
  BY EntryTypes DEF IInv, TypeOK
<1>2. Running => GoodPipe(p) /\ p.cur = pipe.cur /\ p.waves = pipe.waves
  BY TookOff DEF AllContents
<1> HIDE DEF ts, p
<1>3. CASE UNCHANGED <<pipe, disk>>
  BY <1>3, SamePlan
<1>4. CASE Running /\ pipe' = p
  <2>1. Running'
    BY <1>2, <1>4, GoodIsSome DEF Running
  <2> QED BY <1>2, <1>4, <2>1, SameWaves DEF GoesOnWith
<1>5. CASE Running /\ Advance(p, ts)
  BY <1>1, <1>2, <1>5, AdvanceKeepsWaves, SameWaves
<1> QED BY <1>3, <1>4, <1>5, Zenon DEF Timeout, ts, p

LEMMA PlanRetry ==
  ASSUME IInv, NEW tm \in timers, RetryWave(tm)
  PROVE  PlanHolds
<1>1. CASE UNCHANGED <<pipe, disk>>
  BY <1>1, SamePlan
<1>2. CASE tm.live /\ \E pend : pipe' = [pipe EXCEPT !.pending = pend]
  <2>1. Running /\ GoodPipe(pipe)
    BY <1>2 DEF IInv, Placed
  <2>2. pipe = [waves |-> pipe.waves, cur |-> pipe.cur, retries |-> pipe.retries,
                qaLoops |-> pipe.qaLoops, pending |-> pipe.pending, results |-> pipe.results]
    BY <2>1, PipeFields
  <2>3. pipe'.waves = pipe.waves /\ pipe'.cur = pipe.cur
    BY ONLY <1>2, <2>2
  <2>4. Running'
    BY <2>1, <2>3, GoodIsSome, NoPipeIsNoPipe DEF Running
  <2> QED BY <2>1, <2>3, <2>4, SameWaves DEF GoesOnWith
<1> QED BY <1>1, <1>2 DEF RetryWave

\* What is left of a pipeline in memory is on disk.
LEMMA PlanCrash == ASSUME IInv, Crash PROVE PlanHolds
<1>1. pipe' = NoPipe /\ disk' = disk /\ ~Running'
  BY NoPipeNotRunning DEF Crash
<1>2. disk # NoFile /\ Running => disk.waves = pipe.waves
  BY Position DEF Saved
<1> QED BY <1>1, <1>2 DEF PlanHolds, Planned

LEMMA PlanResume == ASSUME IInv, Resume PROVE PlanHolds
<1>1. CASE UNCHANGED <<pipe, disk>>
  BY <1>1, SamePlan
<1>2. CASE disk' = NoFile /\ UNCHANGED pipe
  BY <1>2 DEF PlanHolds, Planned, Running
<1>3. CASE disk # NoFile /\ DispatchWave(Restored(disk), tasks, Orphaned(timers))
  <2> DEFINE p == Restored(disk)
             tms == Orphaned(timers)
  <2>1. TypeOK /\ tasks \in [TaskIds -> Entries] /\ timers \in SUBSET Timers /\ GoodFile(disk)
    BY <1>3 DEF IInv, TypeOK, Placed
  <2>2. p \in Pipes /\ p.cur = disk.cur /\ p.waves = disk.waves
    BY <2>1 DEF GoodFile, Restored, Pipes, Saveds
  <2>3. p.cur >= 1 /\ Len(p.waves) <= MaxWaves
    BY <2>1, <2>2 DEF GoodFile, Saveds
  <2>4. tms \in SUBSET Timers /\ DispatchWave(p, tasks, tms)
    BY <1>3, <2>1, OrphanedTypes
  <2>5. disk.waves = Planned
    BY <1>3, Position DEF Saved, Planned
  <2> HIDE DEF p, tms
  <2>6. GoesOnWith(Planned)
    BY <2>1, <2>2, <2>3, <2>4, <2>5, DispatchKeepsWaves
  <2>7. Running' /\ pipe'.waves = Planned => Planned' = Planned
    BY DEF Planned
  <2> QED BY <2>6, <2>7, NoPipeNotRunning DEF GoesOnWith, PlanHolds
<1> QED BY <1>1, <1>2, <1>3, Zenon DEF Resume

LEMMA PlanStart == ASSUME IInv, Start PROVE PlanHolds
<1>1. /\ TypeOK /\ tasks \in [TaskIds -> Entries] /\ timers \in SUBSET Timers
      /\ outcome = "none" /\ DispatchWave(NewPipe, tasks, timers)
  BY DEF Start, IInv, TypeOK
<1> DEFINE p == NewPipe
<1>2. p \in Pipes /\ p.cur = 1 /\ p.waves = Waves
  BY Bounds DEF NewPipe, Pipes
<1>3. Len(p.waves) <= MaxWaves /\ p.cur >= 1 /\ DispatchWave(p, tasks, timers)
  BY <1>1, <1>2, Bounds
<1> HIDE DEF p
<1>4. GoesOnWith(Waves)
  BY <1>1, <1>2, <1>3, DispatchKeepsWaves
<1>5. Running' /\ pipe'.waves = Waves => Planned' = Waves
  BY DEF Planned
<1> QED BY <1>1, <1>4, <1>5, NoPipeNotRunning DEF GoesOnWith, PlanHolds

(* No reply, timeout, retry, crash or resumption loses, changes or         *)
(* reorders a wave of a pipeline: its plan only grows, by the fixer and    *)
(* the repeated wave that the gate puts in behind the wave reached.        *)
THEOREM PlanKept == Spec => [][PlanHolds]_vars
<1>1. IInv /\ [Next]_vars => [PlanHolds]_vars
  <2> SUFFICES ASSUME IInv, Event PROVE PlanHolds
    BY DEF Next
  <2>1. CASE \E t \in TaskIds : Extend(t) \/ Bail(t) \/ RateLimited(t) \/ Forget(t)
    BY <2>1, SamePlan DEF Extend, Bail, RateLimited, Forget
  <2>2. CASE \E t \in TaskIds : Timeout(t)
    BY <2>2, PlanTimeout
  <2>3. CASE \E t \in TaskIds : \E content \in env.contents : Reply(t, content)
    BY <2>3, PlanReply
  <2>4. CASE \E tm \in timers : RetryWave(tm)
    BY <2>4, PlanRetry
  <2>5. CASE Cancel
    BY <2>5, NoPipeNotRunning DEF Cancel, Drop, PlanHolds
  <2>6. CASE Disconnect \/ Reconnect
    BY <2>6, SamePlan DEF Disconnect, Reconnect
  <2> QED BY <2>1, <2>2, <2>3, <2>4, <2>5, <2>6, PlanStart, PlanCrash, PlanResume DEF Event
<1> QED BY <1>1, Invariant, PTL DEF Spec
=============================================================================
