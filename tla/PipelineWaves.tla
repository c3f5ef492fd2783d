--------------------------- MODULE PipelineWaves ---------------------------
(***************************************************************************)
(* One pipeline of crew-lead: lib/crew-lead/wave-dispatcher.mjs and the    *)
(* pipeline part of lib/crew-lead/ws-router.mjs.                           *)
(*                                                                         *)
(* A pipeline is a sequence of waves, a wave a sequence of steps.  The     *)
(* steps of the current wave are dispatched together; replies, timeouts,   *)
(* quality-retry timers, reconnects and cancellations arrive in any order  *)
(* and each is handled in one synchronous run of the JavaScript thread, so *)
(* one handler is one action.  What outlives a crash is the state file     *)
(* pipelines/<id>.json.  A step is abstracted to the role of its agent and *)
(* a reply to what the quality gate can tell apart.                        *)
(***************************************************************************)
EXTENDS Integers, Sequences, FiniteSets

CONSTANTS
  Waves,           \* the waves the pipeline is created with
  MaxWaves,        \* bound on the waves after the QA loop has inserted some
  MaxTasks,        \* bound on the dispatches
  MaxResults,      \* bound on the results of a wave to which second copies are added
  MaxResumes,      \* bound on the disconnections and crashes
  Environments     \* the circumstances to check, see Circumstances

Roles == {"builder", "planner", "qa", "fixer"}
AllContents == {"work", "report", "FAIL", "question", "bail"}
AllFaults == {"duplicate", "reject", "ratelimit", "disconnect", "crash",
              "stale", "cancel"}

\* The replies agents give, the faults that can happen, the setting
\* CREWSWARM_PIPELINE_ADVANCE_ON_QUALITY_FAIL, and a bound on the dispatches.
Circumstances == [contents : SUBSET AllContents, faults : SUBSET AllFaults,
                  advance : BOOLEAN, dispatches : 0 .. MaxTasks]

ASSUME WavesAssumption ==
  /\ Waves \in Seq(Seq(Roles)) /\ Waves # <<>>
  /\ \A w \in 1 .. Len(Waves) : Waves[w] # <<>>
ASSUME BoundsAssumption ==
  /\ MaxWaves \in Nat /\ Len(Waves) <= MaxWaves
  /\ MaxTasks \in Nat /\ MaxResults \in Nat /\ MaxResumes \in Nat
ASSUME EnvironmentAssumption == Environments \subseteq Circumstances

MaxWaveRetries == 1
MaxQaFixLoops == 2

VARIABLES
  env,        \* the circumstances, fixed
  pipe,       \* the entry of pendingPipelines, or NoPipe
  disk,       \* pipelines/<id>.json, or NoFile
  tasks,      \* pendingDispatches: the entry of every task id
  timers,     \* pending quality-retry timeouts
  conn,       \* the link to the RT bus
  resumeDue,  \* how many setTimeout(resumePipelines, 2000) are pending
  resumes,    \* disconnections and crashes so far
  outcome     \* how the pipeline stands, as the user was told

vars == <<env, pipe, disk, tasks, timers, conn, resumeDue, resumes, outcome>>

-----------------------------------------------------------------------------
(* State *)

TaskIds == 1 .. MaxTasks
WaveIds == 1 .. MaxWaves

\* the serialised part of a pipeline: the waves, currentWave and the dynamic
\* keys _retries_wave_<i> and _qa_fix_retries_wave_<i>
Saveds == [waves : Seq(Seq(Roles)), cur : Nat,
           retries : [WaveIds -> Nat], qaLoops : [WaveIds -> Nat]]
NoFile == [cur |-> 0]
NoPipe == [cur |-> 0]
Saved(p) == [waves |-> p.waves, cur |-> p.cur,
             retries |-> p.retries, qaLoops |-> p.qaLoops]
Pipes == [waves : Seq(Seq(Roles)), cur : Nat, retries : [WaveIds -> Nat],
          qaLoops : [WaveIds -> Nat],
          pending : SUBSET TaskIds, results : Seq(AllContents)]
Running == pipe # NoPipe

\* sent, then waiting: claimed, or unclaimed and given its one extension; done
\* entries are kept for ten minutes; "bailed" is done with _bailRetried set
Entries == [status : {"unused", "sent", "waiting", "done", "bailed", "gone"},
            wave : Nat]
Unused == [status |-> "unused", wave |-> 0]
Gone == [Unused EXCEPT !.status = "gone"]
Open(t) == tasks[t].status \in {"sent", "waiting"}

\* live: the pipeline object the timeout captured is still the one in
\* pendingPipelines
Timers == [wave : WaveIds, steps : Nat, live : BOOLEAN]
Orphaned(ts) == {[t EXCEPT !.live = FALSE] : t \in ts}

TypeOK ==
  /\ env \in Environments
  /\ pipe \in Pipes \cup {NoPipe}
  /\ disk \in Saveds \cup {NoFile}
  /\ tasks \in [TaskIds -> Entries]
  /\ timers \in SUBSET Timers
  /\ conn \in {"up", "down"}
  /\ resumeDue \in Nat
  /\ resumes \in 0 .. MaxResumes
  /\ outcome \in {"none", "running", "completed", "halted", "cancelled", "dropped"}

Init ==
  /\ env \in Environments
  /\ pipe = NoPipe /\ disk = NoFile
  /\ tasks = [t \in TaskIds |-> Unused]
  /\ timers = {}
  /\ conn = "up" /\ resumeDue = 0 /\ resumes = 0
  /\ outcome = "none"

-----------------------------------------------------------------------------
(* dispatchTask *)

NextId(ts) == 1 + Cardinality({t \in TaskIds : ts[t].status # "unused"})

\* How many of a wave's n steps, taken in order, get a task id: all of them
\* through the bus, none through the openswitchctl fallback (it answers `true`).
\* The queue limit is shared with every other dispatch of crew-lead, and once it
\* is reached the rest of the wave is rejected.
Accepted(n) ==
  IF conn = "down" THEN {0} ELSE IF "reject" \in env.faults THEN 0 .. n ELSE {n}

IdsFrom(ts, n) == NextId(ts) .. NextId(ts) + n - 1
Free(ts, n) == IdsFrom(ts, n) \subseteq 1 .. env.dispatches
Dispatched(ts, n, entry) ==
  [t \in TaskIds |-> IF t \in IdsFrom(ts, n) THEN entry ELSE ts[t]]
Sent(w) == [status |-> "sent", wave |-> w]

-----------------------------------------------------------------------------
(* dispatchPipelineWave, savePipelineState, checkWaveQualityGate *)

\* Mutant of Drop: the state file stays.
DropKeepingFile(result) ==
  /\ pipe' = NoPipe /\ UNCHANGED disk
  /\ outcome' = result

\* The pipeline leaves pendingPipelines and its state file is removed.
Drop(result) ==
  /\ pipe' = NoPipe /\ disk' = NoFile
  /\ outcome' = result

\* dispatchPipelineWave(p) with the dispatches ts and the timers tms: past the
\* last wave the pipeline is complete; otherwise the state is saved before the
\* steps go out, and the wave waits for the ids it got.
DispatchWave(p, ts, tms) ==
  \/ /\ p.cur > Len(p.waves)
     /\ Drop("completed")
     /\ tasks' = ts /\ timers' = Orphaned(tms)
  \/ /\ p.cur <= Len(p.waves)
     /\ \E n \in Accepted(Len(p.waves[p.cur])) :
          /\ Free(ts, n)
          /\ tasks' = Dispatched(ts, n, Sent(p.cur))
          /\ pipe' = [p EXCEPT !.pending = IdsFrom(ts, n), !.results = <<>>]
     /\ disk' = Saved(p)
     /\ timers' = tms
     /\ outcome' = "running"

\* What the gate objects to: results are judged by position, the i-th reply to
\* arrive against the i-th step of the wave.
RoleAt(roles, i) == IF i <= Len(roles) THEN roles[i] ELSE "none"
NextWaveBuilds(p) ==
  p.cur < Len(p.waves) /\ \E i \in DOMAIN p.waves[p.cur + 1] : p.waves[p.cur + 1][i] = "builder"
Issue(p, i) ==
  LET role == RoleAt(p.waves[p.cur], i)
      content == p.results[i]
  IN  \/ content = "question"
      \/ role = "builder" /\ content # "work"
      \/ role = "planner" /\ NextWaveBuilds(p) /\ content # "work"
QaFails(p) ==
  /\ \E i \in 1 .. Len(p.results) :
       RoleAt(p.waves[p.cur], i) = "qa" /\ p.results[i] = "FAIL"
  /\ p.qaLoops[p.cur] < MaxQaFixLoops

\* A fixer wave and a copy of the QA wave go in after the current one.
WithFixer(p) ==
  [p EXCEPT !.waves = SubSeq(p.waves, 1, p.cur) \o << <<"fixer">>, p.waves[p.cur] >>
                        \o SubSeq(p.waves, p.cur + 1, Len(p.waves)),
            !.qaLoops[p.cur] = @ + 1,
            !.cur = @ + 1]

Advance(p, ts) == DispatchWave([p EXCEPT !.cur = @ + 1], ts, timers)

\* Mutant of Retry: the state is not saved.
RetryUnsaved(p, ts) ==
  /\ pipe' = [p EXCEPT !.retries[p.cur] = @ + 1, !.pending = {}, !.results = <<>>]
  /\ timers' = timers \cup {[wave |-> p.cur, steps |-> Len(p.waves[p.cur]), live |-> TRUE]}
  /\ tasks' = ts /\ UNCHANGED <<disk, outcome>>

\* Mutant of Retry: the retry is not counted.
RetryUncounted(p, ts) ==
  /\ LET q == [p EXCEPT !.pending = {}, !.results = <<>>]
     IN  pipe' = q /\ disk' = Saved(q)
  /\ timers' = timers \cup {[wave |-> p.cur, steps |-> Len(p.waves[p.cur]), live |-> TRUE]}
  /\ tasks' = ts /\ UNCHANGED outcome

\* The wave is given feedback and will be dispatched again after a short delay.
Retry(p, ts) ==
  /\ LET q == [p EXCEPT !.retries[p.cur] = @ + 1, !.pending = {}, !.results = <<>>]
     IN  pipe' = q /\ disk' = Saved(q)
  /\ timers' = timers \cup {[wave |-> p.cur, steps |-> Len(p.waves[p.cur]), live |-> TRUE]}
  /\ tasks' = ts /\ UNCHANGED outcome

\* checkWaveQualityGate and what its caller does with the verdict.
Gate(p, ts) ==
  LET issues == \E i \in 1 .. Len(p.results) : Issue(p, i)
  IN
  \/ /\ QaFails(p)
     /\ Len(p.waves) + 2 <= MaxWaves
     /\ DispatchWave(WithFixer(p), ts, timers)
  \/ /\ ~QaFails(p) /\ ~issues
     /\ Advance(p, ts)
  \/ /\ ~QaFails(p) /\ issues /\ p.retries[p.cur] < MaxWaveRetries
     /\ Retry(p, ts)
  \/ /\ ~QaFails(p) /\ issues /\ p.retries[p.cur] >= MaxWaveRetries
     /\ \/ env.advance /\ Advance(p, ts)
        \/ ~env.advance /\ Drop("halted") /\ tasks' = ts /\ timers' = Orphaned(timers)

-----------------------------------------------------------------------------
(* Operations *)

NewPipe == [waves |-> Waves, cur |-> 1, retries |-> [w \in WaveIds |-> 0],
            qaLoops |-> [w \in WaveIds |-> 0], pending |-> {}, results |-> <<>>]

\* pendingPipelines.set(...) and dispatchPipelineWave, from the chat handler,
\* the HTTP API or a crew-pm reply.
Start ==
  /\ outcome = "none"
  /\ DispatchWave(NewPipe, tasks, timers)
  /\ UNCHANGED <<conn, resumeDue, resumes>>

\* Either task.in_progress marks the dispatch claimed (markDispatchClaimed), or
\* checkDispatchTimeouts finds it over its limit unclaimed, sets _autoExtended
\* and asks the bus whether the agent is online: both ways it is over its limit
\* once more before it times out.
Extend(t) ==
  /\ tasks[t].status = "sent"
  /\ tasks' = [tasks EXCEPT ![t].status = "waiting"]
  /\ UNCHANGED <<pipe, disk, timers, conn, resumeDue, resumes, outcome>>

\* Mutant of Timeout: the wave is not told.
TimeoutUnnoticed(t) ==
  /\ tasks[t].status = "waiting"
  /\ tasks' = [tasks EXCEPT ![t] = Gone]
  /\ UNCHANGED <<pipe, disk, timers, conn, resumeDue, resumes, outcome>>

\* checkDispatchTimeouts: the dispatch is dropped and a wave that waits for
\* nothing else advances, past the quality gate.
Timeout(t) ==
  LET ts == [tasks EXCEPT ![t] = Gone]
      p == [pipe EXCEPT !.pending = @ \ {t}, !.results = Append(@, "report")]
  IN
  /\ tasks[t].status = "waiting"
  /\ \/ /\ ~Running
        /\ tasks' = ts /\ UNCHANGED <<pipe, disk, timers, outcome>>
     \/ /\ Running /\ p.pending # {}
        /\ pipe' = p /\ tasks' = ts /\ UNCHANGED <<disk, timers, outcome>>
     \/ /\ Running /\ p.pending = {}
        /\ Advance(p, ts)
  /\ UNCHANGED <<conn, resumeDue, resumes>>

\* A second copy of a reply, while the dispatch is remembered.
SecondCopy(t) ==
  /\ "duplicate" \in env.faults /\ tasks[t].status \in {"done", "bailed"}
  /\ Running => Len(pipe.results) < MaxResults

\* An agent that bailed out is given its task again, once per dispatch: a new
\* dispatch of the same pipeline, and the wave goes on waiting for the old one.
\* (A plan sent instead of code has a flag of its own and the same effects.)
Bail(t) ==
  LET ts == [tasks EXCEPT ![t].status = "bailed"]
  IN
  /\ conn = "up" /\ "bail" \in env.contents
  /\ Open(t) \/ (SecondCopy(t) /\ tasks[t].status = "done")
  /\ \E n \in Accepted(1) :
       /\ Free(ts, n)
       /\ tasks' = Dispatched(ts, n, Sent(tasks[t].wave))
  /\ UNCHANGED <<pipe, disk, timers, conn, resumeDue, resumes, outcome>>

\* task.done for a dispatch crew-lead knows: it counts for the wave that is
\* current now, and the reply that empties the wave runs the gate.  A second
\* copy of a reply is handled like the first for ten minutes.
Reply(t, content) ==
  LET ts == [tasks EXCEPT ![t].status = IF @ = "bailed" THEN @ ELSE "done"]
      p == [pipe EXCEPT !.pending = @ \ {t}, !.results = Append(@, content)]
  IN
  /\ conn = "up"
  /\ \/ Open(t) /\ content # "bail"
     \/ SecondCopy(t) /\ (content = "bail" => tasks[t].status = "bailed")
  /\ \/ /\ ~Running
        /\ tasks' = ts /\ UNCHANGED <<pipe, disk, timers, outcome>>
     \/ /\ Running /\ p.pending # {}
        /\ pipe' = p /\ tasks' = ts /\ UNCHANGED <<disk, timers, outcome>>
     \/ /\ Running /\ p.pending = {}
        /\ Gate(p, ts)
  /\ UNCHANGED <<conn, resumeDue, resumes>>

\* task.failed with a rate-limit error: the dispatch is replaced by one to a
\* fallback engine or agent, which no wave waits for and which inherits the
\* age and the claim of the old one.  Any other task.failed changes nothing.
RateLimited(t) ==
  LET ts == [tasks EXCEPT ![t] = Gone]
  IN
  /\ conn = "up" /\ "ratelimit" \in env.faults /\ Open(t)
  /\ \E n \in Accepted(1) :
       /\ Free(ts, n)
       /\ tasks' = Dispatched(ts, n, tasks[t])
  /\ UNCHANGED <<pipe, disk, timers, conn, resumeDue, resumes, outcome>>

\* The ten-minute timeout that forgets a finished dispatch; only a second copy
\* of its reply could tell.
Forget(t) ==
  /\ "duplicate" \in env.faults
  /\ tasks[t].status \in {"done", "bailed"}
  /\ tasks' = [tasks EXCEPT ![t] = Gone]
  /\ UNCHANGED <<pipe, disk, timers, conn, resumeDue, resumes, outcome>>

\* Mutant of RetryWave: the wave is not told its new task ids.
RetryWaveUntracked(tm) ==
  /\ tm \in timers
  /\ timers' = timers \ {tm}
  /\ \E n \in Accepted(tm.steps) :
       /\ Free(tasks, n)
       /\ tasks' = Dispatched(tasks, n, Sent(tm.wave))
  /\ UNCHANGED <<pipe, disk, conn, resumeDue, resumes, outcome>>

\* The timeout of a quality retry: the steps it captured are dispatched, and
\* the pipeline object it captured waits for them, current or not.
RetryWave(tm) ==
  /\ tm \in timers
  /\ timers' = timers \ {tm}
  /\ \E n \in Accepted(tm.steps) :
       /\ Free(tasks, n)
       /\ tasks' = Dispatched(tasks, n, Sent(tm.wave))
       /\ pipe' = IF tm.live THEN [pipe EXCEPT !.pending = @ \cup IdsFrom(tasks, n)] ELSE pipe
  /\ UNCHANGED <<disk, conn, resumeDue, resumes, outcome>>

\* cancelAllPipelines: nothing happens to dispatches and retry timers.
Cancel ==
  /\ "cancel" \in env.faults /\ Running
  /\ Drop("cancelled")
  /\ timers' = Orphaned(timers)
  /\ UNCHANGED <<tasks, conn, resumeDue, resumes>>

-----------------------------------------------------------------------------
(* Disconnection, crash, resumption *)

Disconnect ==
  /\ "disconnect" \in env.faults /\ conn = "up" /\ resumes < MaxResumes
  /\ conn' = "down" /\ resumes' = resumes + 1
  /\ UNCHANGED <<pipe, disk, tasks, timers, resumeDue, outcome>>

\* crew-lead dies: its maps and timeouts are lost.
Crash ==
  /\ "crash" \in env.faults /\ outcome # "none" /\ resumes < MaxResumes
  /\ conn' = "down" /\ resumes' = resumes + 1
  /\ pipe' = NoPipe /\ timers' = {} /\ resumeDue' = 0
  /\ tasks' = [t \in TaskIds |->
                 IF tasks[t].status = "unused" THEN Unused ELSE Gone]
  /\ UNCHANGED <<disk, outcome>>

\* hello.ack of a new connection: each schedules a resumption of its own.
Reconnect ==
  /\ conn = "down"
  /\ conn' = "up" /\ resumeDue' = resumeDue + 1
  /\ UNCHANGED <<pipe, disk, tasks, timers, resumes, outcome>>

\* Mutant of Restored: the dynamic keys are lost.
RestoredWithoutKeys(file) ==
  [waves |-> file.waves, cur |-> file.cur, retries |-> <<>>,
   qaLoops |-> <<>>, pending |-> {}, results |-> <<>>]

\* Mutant of Restored: the pipeline starts over.
RestoredFromStart(file) ==
  [waves |-> file.waves, cur |-> 1, retries |-> file.retries,
   qaLoops |-> file.qaLoops, pending |-> {}, results |-> <<>>]

\* The pipeline object made from a state file.
Restored(file) ==
  [waves |-> file.waves, cur |-> file.cur, retries |-> file.retries,
   qaLoops |-> file.qaLoops, pending |-> {}, results |-> <<>>]

\* resumePipelines: a state file older than two hours is removed, any other
\* gives a new pipeline object that takes the place of the one in memory, and
\* its current wave is dispatched again.
Resume ==
  /\ resumeDue > 0 /\ resumeDue' = resumeDue - 1
  /\ \/ /\ disk = NoFile
        /\ UNCHANGED <<pipe, disk, tasks, timers, outcome>>
     \/ /\ disk # NoFile /\ "stale" \in env.faults
        /\ disk' = NoFile
        /\ outcome' = IF Running THEN outcome ELSE "dropped"
        /\ UNCHANGED <<pipe, tasks, timers>>
     \/ /\ disk # NoFile
        /\ DispatchWave(Restored(disk), tasks, Orphaned(timers))
  /\ UNCHANGED <<conn, resumes>>

Event ==
  \/ Start
  \/ \E t \in TaskIds :
       \/ Extend(t) \/ Timeout(t)
       \/ Bail(t) \/ RateLimited(t) \/ Forget(t)
       \/ \E content \in env.contents : Reply(t, content)
  \/ \E tm \in timers : RetryWave(tm)
  \/ Cancel \/ Disconnect \/ Crash \/ Reconnect \/ Resume

Next == Event /\ UNCHANGED env

Spec == Init /\ [][Next]_vars

\* checkDispatchTimeouts runs from an interval, retries and resumption from
\* timeouts, reconnection from a backoff timer: all of them come round.  No
\* reply is promised.
Fixed(action) == action /\ UNCHANGED env
Fairness ==
  /\ WF_vars(Fixed(Start)) /\ WF_vars(Fixed(Reconnect)) /\ WF_vars(Fixed(Resume))
  /\ \A t \in TaskIds : WF_vars(Fixed(Extend(t))) /\ WF_vars(Fixed(Timeout(t)))
  /\ WF_vars(Fixed(\E tm \in timers : RetryWave(tm)))
FairSpec == Spec /\ Fairness

-----------------------------------------------------------------------------
(* What holds whatever happens *)

\* The state file is the pipeline in memory as far as a crash may need it:
\* waves, current wave and retry counters agree after every handler
\* (savePipelineState, wave-dispatcher.mjs:221-249).
DiskIsCurrent ==
  Running => \/ disk = Saved(pipe)
             \/ disk = NoFile /\ "stale" \in env.faults

\* The wave the pipeline has reached and how many it has, in memory or after a
\* crash on disk.
Reached == IF Running THEN pipe.cur ELSE disk.cur
WaveCount ==
  IF Running THEN Len(pipe.waves) ELSE IF disk # NoFile THEN Len(disk.waves) ELSE 0

\* The pipeline is a sequence of waves in the sense of WaveSequence: no reply,
\* timeout, crash or resumption moves it back or makes it skip a wave, it is
\* complete only after its last one, and an ended pipeline leaves nothing that
\* a late reply, a retry timer or resumePipelines could revive.
Sequence == INSTANCE WaveSequence
              WITH wave <- Reached, count <- WaveCount, verdict <- outcome
InWaveOrder == Sequence!Spec

\* A quality retry is scheduled only after it was counted on disk, so that no
\* crash gives a wave more than MAX_WAVE_RETRIES of them.
RetryCounted ==
  [][\A tm \in timers' :
       tm.wave \notin {old.wave : old \in timers} =>
         /\ disk'.retries[tm.wave] = pipe.retries[tm.wave] + 1
         /\ disk'.retries[tm.wave] <= MaxWaveRetries]_vars

-----------------------------------------------------------------------------
(* What holds when no dispatch is rejected, no agent bails out or is        *)
(* rate-limited and no state file is too old, whatever else is lost,        *)
(* duplicated, cancelled or crashes                                         *)

Tracked == env.faults \cap {"reject", "ratelimit", "stale"} = {} /\ "bail" \notin env.contents

\* A running pipeline always has something to wait for: an open dispatch for
\* every id of its wave, a retry timer or a resumption.
NeverStuck ==
  Running /\ Tracked =>
    /\ \A t \in pipe.pending : Open(t)
    /\ \/ pipe.pending # {}
       \/ \E tm \in timers : tm.live
       \/ conn = "down" \/ resumeDue > 0

\* Hence every pipeline that starts ends.
EventuallyEnds == (Tracked /\ outcome = "running") ~> (outcome # "running")

-----------------------------------------------------------------------------
(* What the documentation promises *)

\* docs/ORCHESTRATION-PROTOCOL.md:55, "Quality gates should stop advancement
\* by default unless explicitly configured otherwise.": a pipeline does not
\* advance over a result that the gate objects to.
GateStopsAdvance ==
  [][Running /\ Running' /\ pipe'.cur > pipe.cur =>
       ~\E i \in 1 .. Len(pipe.results) : Issue(pipe, i)]_vars
=============================================================================
