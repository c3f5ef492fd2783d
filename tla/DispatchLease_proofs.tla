------------------------ MODULE DispatchLease_proofs ------------------------
(***************************************************************************)
(* Theorems about DispatchLease, for every set of attempts and daemons.    *)
(***************************************************************************)
EXTENDS DispatchLease, TLAPS

\* What a step may be, for one attempt or one daemon.
AttemptStep(a) == Acquire(a) \/ Heartbeat(a) \/ Work(a)

-----------------------------------------------------------------------------
(* Ownership: which handlers a running heartbeat belongs to *)

\* A heartbeat runs only for a handler past acquireTaskLease and before the
\* end of its finally block.
BeatInv == \A a \in Attempts :
  beat[a] # "off" => pc[a] \in {"executing", "recorded", "orphaned"}

OwnerInv == TypeOK /\ BeatInv /\ LeaseHasOwner

-----------------------------------------------------------------------------
(* Contention: who is left when handlers are turned away *)

\* What a handler leaves behind shows that it acquired the claim.
TraceInv ==
  /\ \A a \in Attempts :
       beat[a] # "off" \/ pc[a] \in {"executing", "recorded", "orphaned", "unlink", "ended"}
         => a \in acquired
  /\ done.state = "done" => acquired # {}
  /\ lease.state = "held" => acquired # {}

\* As long as nobody has acquired the claim and no daemon has died, an empty
\* lease directory is being written by someone, and when there is none some
\* delivery that has arrived is still on its way to making it.
Unclaimed == acquired = {} /\ \A a \in Attempts : pc[a] # "dead"
ContentionInv ==
  Unclaimed =>
    /\ lease = Blank => \E b \in Attempts : pc[b] \in Writing
    /\ lease = Absent /\ (\E a \in Attempts : pc[a] # "idle")
         => \E b \in Attempts : pc[b] \in Choosing

ClaimInv == TypeOK /\ TraceInv /\ ContentionInv

-----------------------------------------------------------------------------
(* One daemon with timely heartbeats *)

\* All deliveries reach the same process, and its heartbeats fire in time.
SingleDaemon == \A a, b \in Attempts : DaemonOf[a] = DaemonOf[b]

Claiming == {"mkdir", "readLease", "rmLease", "remkdir"} \cup Writing

OneBusy == \A a, b \in Attempts : Busy(a) /\ Busy(b) => a = b

\* A running heartbeat means the lease is this handler's and not expired.
HeldInv == \A a \in Attempts :
  /\ beat[a] \in {"on", "open"} => HeldBy(a) /\ lease.expires > clock
  /\ beat[a] = "fill" => lease = Blank
  /\ pc[a] = "unlink" => HeldBy(a)
  /\ Working(a) => beat[a] # "off"

\* A handler that is about to remove or to write the lease is alone.
AloneInv == \A a \in Attempts :
  pc[a] \in {"rmLease", "remkdir"} \cup Writing =>
    \A b \in Attempts : beat[b] = "off"

\* No time passes in the middle of a synchronous sequence.
NowInv == \A a \in Attempts :
  pc[a] \in Claiming \/ beat[a] \in {"open", "fill"} => now[a] = clock

DoneInv == \A a \in Attempts :
  /\ pc[a] \in Claiming \cup {"executing"} => done = NoRecord
  /\ pc[a] = "rmDone" => ~Fresh

SoloInv == /\ TypeOK /\ BeatInv /\ OneBusy /\ HeldInv
           /\ AloneInv /\ NowInv /\ DoneInv

-----------------------------------------------------------------------------
(* Type correctness *)

\* The records written to disk have the shape safeReadJson gives back.
LEMMA RecordTypes ==
  ASSUME NEW a \in Attempts, NEW t \in Nat
  PROVE  Lease(a, t) \in Leases /\ Record(a, t) \in Records
         /\ Absent \in Leases /\ Blank \in Leases /\ NoRecord \in Records
  BY DEF Lease, Record, Leases, Records, Absent, Blank, NoRecord

\* The control states of each group are control states.
LEMMA StepTypes ==
  Choosing \cup Writing \cup TurnedAway
    \cup {"idle", "executing", "recorded", "orphaned", "unlink", "ended", "dead"} = Steps
  BY DEF Steps

\* Every variable keeps its type: the lease and the done record of
\* dispatch.mjs, the handlers and their heartbeats.
THEOREM TypeCorrect == Spec => []TypeOK
<1>1. Init => TypeOK
  BY DEF Init, TypeOK, Leases, Records, Absent, NoRecord, Steps
<1>2. TypeOK /\ [Next]_vars => TypeOK'
  <2> SUFFICES ASSUME TypeOK, [Next]_vars PROVE TypeOK'
    OBVIOUS
  <2> USE DEF TypeOK, Goto
  <2>1. ASSUME NEW a \in Attempts, Acquire(a) PROVE TypeOK'
    <3>1. CASE ReadDone(a)
      BY <3>1 DEF ReadDone, Steps, Choosing, TurnedAway
    <3>2. CASE RemoveStaleDone(a)
      BY <3>2, RecordTypes DEF RemoveStaleDone, Steps, Choosing
    <3>3. CASE MakeDir(a)
      BY <3>3, RecordTypes DEF MakeDir, Steps, Choosing, Writing, TurnedAway
    <3>4. CASE WriteLease(a)
      <4>1. now[a] + LeaseMs \in Nat
        BY TimeAssumption
      <4>2. Lease(a, now[a] + LeaseMs) \in Leases
        BY <4>1, RecordTypes
      <4> QED BY <3>4, <4>2 DEF WriteLease, Steps, TurnedAway
    <3>5. CASE ReadLease(a)
      BY <3>5 DEF ReadLease, Steps, Choosing, TurnedAway
    <3>6. CASE TakeOver(a)
      BY <3>6, RecordTypes DEF TakeOver, RemoveDir, Steps, Choosing
    <3> QED BY <2>1, <3>1, <3>2, <3>3, <3>4, <3>5, <3>6 DEF Acquire
  <2>2. ASSUME NEW a \in Attempts, Heartbeat(a) PROVE TypeOK'
    <3>1. CASE HeartbeatRead(a)
      BY <3>1 DEF HeartbeatRead
    <3>2. CASE HeartbeatOpen(a)
      BY <3>2, RecordTypes DEF HeartbeatOpen, Die, Steps
    <3>3. CASE HeartbeatFill(a)
      <4>1. now[a] + LeaseMs \in Nat
        BY TimeAssumption
      <4>2. Lease(a, now[a] + LeaseMs) \in Leases
        BY <4>1, RecordTypes
      <4> QED BY <3>3, <4>2 DEF HeartbeatFill
    <3> QED BY <2>2, <3>1, <3>2, <3>3 DEF Heartbeat
  <2>3. ASSUME NEW a \in Attempts, Work(a) PROVE TypeOK'
    <3>1. CASE MarkTaskDone(a)
      BY <3>1, RecordTypes DEF MarkTaskDone, Steps
    <3>2. CASE Finally(a)
      BY <3>2 DEF Finally, Steps
    <3>3. CASE FinallyThrows(a)
      BY <3>3 DEF FinallyThrows, Steps
    <3>4. CASE Release(a)
      BY <3>4, RecordTypes DEF Release, RemoveDir, Steps
    <3> QED BY <2>3, <3>1, <3>2, <3>3, <3>4 DEF Work
  <2>4. ASSUME NEW d \in Daemons, Crash(d) PROVE TypeOK'
    BY <2>4 DEF Crash, Die, Steps
  <2>5. CASE Tick
    BY <2>5 DEF Tick
  <2>6. CASE UNCHANGED vars
    BY <2>6 DEF vars
  <2> QED BY <2>1, <2>2, <2>3, <2>4, <2>5, <2>6 DEF Next
<1> QED BY <1>1, <1>2, PTL DEF Spec

-----------------------------------------------------------------------------
(* No handler that ended leaves its lease behind *)

\* Heartbeats run for live handlers, and a lease names a running heartbeat.
LEMMA Owners == Spec => []OwnerInv
<1>1. Init => OwnerInv
  BY TypeCorrect DEF Init, OwnerInv, BeatInv, LeaseHasOwner, Absent, TypeOK, Leases, Records, NoRecord, Steps
<1>2. OwnerInv /\ TypeOK' /\ [Next]_vars => OwnerInv'
  <2> SUFFICES ASSUME OwnerInv, TypeOK', [Next]_vars
               PROVE BeatInv' /\ LeaseHasOwner'
    BY DEF OwnerInv
  <2> USE DEF OwnerInv, TypeOK, BeatInv, LeaseHasOwner, Goto
  <2>h. lease.state = "held" => lease.holder \in Attempts
    BY DEF Leases, Absent, Blank
  <2>1. ASSUME NEW a \in Attempts, Acquire(a) PROVE BeatInv' /\ LeaseHasOwner'
    <3>1. CASE ReadDone(a) \/ RemoveStaleDone(a) \/ ReadLease(a)
      BY <3>1, <2>h DEF ReadDone, RemoveStaleDone, ReadLease
    <3>2. CASE MakeDir(a)
      BY <3>2, <2>h DEF MakeDir, Blank
    <3>3. CASE WriteLease(a)
      BY <3>3, <2>h DEF WriteLease, Lease, Writing, Absent
    <3>4. CASE TakeOver(a)
      BY <3>4 DEF TakeOver, RemoveDir, Absent
    <3> QED BY <2>1, <3>1, <3>2, <3>3, <3>4 DEF Acquire
  <2>2. ASSUME NEW a \in Attempts, Heartbeat(a) PROVE BeatInv' /\ LeaseHasOwner'
    <3>1. CASE HeartbeatRead(a)
      BY <3>1, <2>h DEF HeartbeatRead
    <3>2. CASE HeartbeatOpen(a)
      BY <3>2 DEF HeartbeatOpen, Die, Absent, Blank, TurnedAway
    <3>3. CASE HeartbeatFill(a)
      BY <3>3 DEF HeartbeatFill, Lease
    <3> QED BY <2>2, <3>1, <3>2, <3>3 DEF Heartbeat
  <2>3. ASSUME NEW a \in Attempts, Work(a) PROVE BeatInv' /\ LeaseHasOwner'
    <3>1. CASE MarkTaskDone(a)
      BY <3>1, <2>h DEF MarkTaskDone
    <3>2. CASE Finally(a)
      BY <3>2, <2>h DEF Finally, HeldBy
    <3>3. CASE FinallyThrows(a)
      BY <3>3, <2>h DEF FinallyThrows
    <3>4. CASE Release(a)
      BY <3>4 DEF Release, RemoveDir, Absent
    <3> QED BY <2>3, <3>1, <3>2, <3>3, <3>4 DEF Work
  <2>4. ASSUME NEW d \in Daemons, Crash(d) PROVE BeatInv' /\ LeaseHasOwner'
    BY <2>4, <2>h DEF Crash, Die, TurnedAway
  <2>5. CASE Tick \/ UNCHANGED vars
    BY <2>5 DEF Tick, vars
  <2> QED BY <2>1, <2>2, <2>3, <2>4, <2>5 DEF Next
<1> QED BY <1>1, <1>2, TypeCorrect, PTL DEF Spec

\* The owner of a lease on disk is alive or died with its daemon.
THEOREM LeaseOwned == Spec => []LeaseHasOwner
BY Owners, PTL DEF OwnerInv

-----------------------------------------------------------------------------
(* Contention never turns every delivery away *)

\* Once somebody has acquired the claim, somebody always has; a dead handler
\* stays dead.
LEMMA UnclaimedBefore ==
  ASSUME TypeOK, [Next]_vars PROVE Unclaimed' => Unclaimed
<1> USE DEF Unclaimed, TypeOK, Goto
<1>1. ASSUME NEW a \in Attempts, Acquire(a), Unclaimed' PROVE Unclaimed
  BY <1>1 DEF Acquire, ReadDone, RemoveStaleDone, MakeDir, WriteLease, ReadLease,
              TakeOver, Choosing, Writing
<1>2. ASSUME NEW a \in Attempts, Heartbeat(a), Unclaimed' PROVE Unclaimed
  BY <1>2 DEF Heartbeat, HeartbeatRead, HeartbeatOpen, HeartbeatFill, Die
<1>3. ASSUME NEW a \in Attempts, Work(a), Unclaimed' PROVE Unclaimed
  BY <1>3 DEF Work, MarkTaskDone, Finally, FinallyThrows, Release
<1>4. ASSUME NEW d \in Daemons, Crash(d), Unclaimed' PROVE Unclaimed
  BY <1>4 DEF Crash, Die
<1>5. CASE Tick \/ UNCHANGED vars
  BY <1>5 DEF Tick, vars
<1> QED BY <1>1, <1>2, <1>3, <1>4, <1>5 DEF Next

\* Traces of an acquired claim are left only by who acquired it.
LEMMA TraceStep ==
  ASSUME TypeOK, TraceInv, [Next]_vars PROVE TraceInv'
<1> USE DEF TypeOK, TraceInv, Goto
<1>1. ASSUME NEW a \in Attempts, Acquire(a) PROVE TraceInv'
  <2>1. CASE ReadDone(a)
    BY <2>1 DEF ReadDone, TurnedAway
  <2>2. CASE RemoveStaleDone(a)
    BY <2>2 DEF RemoveStaleDone, NoRecord
  <2>3. CASE MakeDir(a)
    BY <2>3 DEF MakeDir, Blank
  <2>4. CASE WriteLease(a)
    BY <2>4 DEF WriteLease, Writing
  <2>5. CASE ReadLease(a)
    BY <2>5 DEF ReadLease
  <2>6. CASE TakeOver(a)
    BY <2>6 DEF TakeOver, RemoveDir, Absent
  <2> QED BY <1>1, <2>1, <2>2, <2>3, <2>4, <2>5, <2>6 DEF Acquire
<1>2. ASSUME NEW a \in Attempts, Heartbeat(a) PROVE TraceInv'
  <2>1. CASE HeartbeatRead(a)
    BY <2>1 DEF HeartbeatRead
  <2>2. CASE HeartbeatOpen(a)
    BY <2>2 DEF HeartbeatOpen, Die, Blank
  <2>3. CASE HeartbeatFill(a)
    BY <2>3 DEF HeartbeatFill
  <2> QED BY <1>2, <2>1, <2>2, <2>3 DEF Heartbeat
<1>3. ASSUME NEW a \in Attempts, Work(a) PROVE TraceInv'
  <2>1. CASE MarkTaskDone(a)
    BY <2>1 DEF MarkTaskDone
  <2>2. CASE Finally(a)
    BY <2>2 DEF Finally
  <2>3. CASE FinallyThrows(a)
    BY <2>3 DEF FinallyThrows
  <2>4. CASE Release(a)
    BY <2>4 DEF Release, RemoveDir, Absent
  <2> QED BY <1>3, <2>1, <2>2, <2>3, <2>4 DEF Work
<1>4. ASSUME NEW d \in Daemons, Crash(d) PROVE TraceInv'
  BY <1>4 DEF Crash, Die
<1>5. CASE Tick \/ UNCHANGED vars
  BY <1>5 DEF Tick, vars
<1> QED BY <1>1, <1>2, <1>3, <1>4, <1>5 DEF Next

\* While the claim is open, a delivery that gives up leaves another behind:
\* the one whose directory it met, or the one that removed its own.
LEMMA ContentionStep ==
  ASSUME TypeOK, TraceInv, ContentionInv, [Next]_vars PROVE ContentionInv'
<1> SUFFICES ASSUME Unclaimed'
             PROVE /\ lease' = Blank => \E b \in Attempts : pc'[b] \in Writing
                   /\ lease' = Absent /\ (\E a \in Attempts : pc'[a] # "idle")
                        => \E b \in Attempts : pc'[b] \in Choosing
  BY DEF ContentionInv
<1>u. Unclaimed
  BY UnclaimedBefore
<1>l. /\ lease = Blank => \E b \in Attempts : pc[b] \in Writing
      /\ lease = Absent /\ (\E a \in Attempts : pc[a] # "idle")
           => \E b \in Attempts : pc[b] \in Choosing
      /\ lease # Absent => lease = Blank
      /\ done = NoRecord
      /\ \A a \in Attempts : beat[a] = "off"
      /\ \A a \in Attempts :
           pc[a] \notin {"executing", "recorded", "orphaned", "unlink", "ended"}
  BY <1>u DEF ContentionInv, TraceInv, Unclaimed, TypeOK, Leases, Records, Blank, Absent, NoRecord
<1> USE DEF TypeOK, Goto
<1>1. ASSUME NEW a \in Attempts, Acquire(a) PROVE ContentionInv'
  <2>1. CASE ReadDone(a)
    <3>1. pc'[a] = "mkdir" /\ lease' = lease
          /\ \A b \in Attempts \ {a} : pc'[b] = pc[b]
      BY <2>1, <1>l DEF ReadDone, NoRecord, Fresh
    <3> QED BY <3>1, <1>l, <2>1 DEF ContentionInv, Choosing, Writing, ReadDone
  <2>2. CASE RemoveStaleDone(a)
    BY <2>2, <1>l DEF ContentionInv, RemoveStaleDone, Choosing, Writing
  <2>3. CASE MakeDir(a) /\ lease = Absent
    BY <2>3 DEF ContentionInv, MakeDir, Writing, Absent, Blank
  <2>4. CASE MakeDir(a) /\ lease # Absent
    <3>1. PICK b \in Attempts : pc[b] \in Writing
      BY <1>l, <2>4
    <3>2. pc'[b] \in Writing /\ lease' = Blank
      BY <3>1, <2>4, <1>l DEF MakeDir, Writing
    <3> QED BY <3>2 DEF ContentionInv, Absent, Blank
  <2>5. CASE WriteLease(a) /\ lease = Absent
    <3>1. PICK b \in Attempts : pc[b] \in Choosing
      BY <1>l, <2>5 DEF WriteLease, Writing
    <3>2. pc'[b] \in Choosing /\ lease' = Absent
      BY <3>1, <2>5 DEF WriteLease, Writing, Choosing
    <3> QED BY <3>2 DEF ContentionInv, Absent, Blank
  <2>6. CASE WriteLease(a) /\ lease # Absent
    BY <2>6 DEF WriteLease, ContentionInv, Unclaimed
  <2>7. CASE ReadLease(a)
    <3>1. pc'[a] = "rmLease" /\ lease' = lease
          /\ \A b \in Attempts \ {a} : pc'[b] = pc[b]
      BY <2>7, <1>l DEF ReadLease, Blank, Absent
    <3> QED BY <3>1, <1>l, <2>7 DEF ContentionInv, Choosing, Writing, ReadLease
  <2>8. CASE TakeOver(a)
    BY <2>8 DEF ContentionInv, TakeOver, RemoveDir, Choosing, Absent, Blank
  <2> QED BY <1>1, <2>1, <2>2, <2>3, <2>4, <2>5, <2>6, <2>7, <2>8 DEF Acquire
<1>2. ASSUME NEW a \in Attempts, Heartbeat(a) PROVE ContentionInv'
  BY <1>2, <1>l DEF Heartbeat, HeartbeatRead, HeartbeatOpen, HeartbeatFill
<1>3. ASSUME NEW a \in Attempts, Work(a) PROVE ContentionInv'
  BY <1>3, <1>l DEF Work, MarkTaskDone, Finally, FinallyThrows, Release
<1>4. ASSUME NEW d \in Daemons, Crash(d) PROVE ContentionInv'
  BY <1>4 DEF Crash, Die, ContentionInv, Unclaimed
<1>5. CASE Tick \/ UNCHANGED vars
  BY <1>5, <1>l DEF Tick, vars, ContentionInv
<1> QED BY <1>1, <1>2, <1>3, <1>4, <1>5 DEF Next, ContentionInv

\* A handler is turned away only when some delivery has the claim, is still
\* contending for it, or died: the task is never dropped by contention.
THEOREM ClaimKept == Spec => []ClaimNeverLost
<1>1. Init => TraceInv /\ ContentionInv
  BY DEF Init, TraceInv, ContentionInv, NoRecord, Absent, Blank
<1>2. TypeOK /\ TraceInv /\ ContentionInv /\ [Next]_vars => TraceInv' /\ ContentionInv'
  BY TraceStep, ContentionStep
<1>3. TypeOK /\ TraceInv /\ ContentionInv => ClaimNeverLost
  <2> SUFFICES ASSUME TypeOK, TraceInv, ContentionInv,
                      NEW a \in Attempts, pc[a] \in TurnedAway, Unclaimed
               PROVE \E b \in Attempts : pc[b] \in Choosing \cup Writing
    BY DEF ClaimNeverLost, Unclaimed, TypeOK
  <2>1. lease = Absent \/ lease = Blank
    BY DEF TraceInv, Unclaimed, TypeOK, Leases
  <2>2. pc[a] # "idle"
    BY DEF TurnedAway
  <2> QED BY <2>1, <2>2 DEF ContentionInv
<1> QED BY <1>1, <1>2, <1>3, TypeCorrect, PTL DEF Spec

-----------------------------------------------------------------------------
(* One daemon with timely heartbeats: exclusion and deduplication *)

\* A handler is interrupted by no other handler of its daemon.
LEMMA BusyAlone ==
  ASSUME SingleDaemon, OneBusy, NEW a \in Attempts, Busy(a) \/ MayRun(a)
  PROVE  \A b \in Attempts \ {a} : ~Busy(b)
BY DEF SingleDaemon, OneBusy, MayRun

\* At most one handler is in the middle of its synchronous calls.
LEMMA OneBusyStep ==
  ASSUME SingleDaemon, SoloInv, TypeOK', [Next]_vars PROVE OneBusy'
<1> USE DEF SoloInv, TypeOK, Goto
<1>1. ASSUME NEW a \in Attempts, AttemptStep(a),
             Busy(a) \/ MayRun(a) PROVE OneBusy'
  <2>1. \A b \in Attempts \ {a} : ~Busy(b)
    BY <1>1, BusyAlone
  <2>2. \A b \in Attempts \ {a} : ~Busy(b)'
    <3> SUFFICES ASSUME NEW b \in Attempts \ {a} PROVE ~Busy(b)'
      OBVIOUS
    <3>1. pc'[b] \in {pc[b], "dead"} /\ beat'[b] \in {beat[b], "on", "off"}
      BY <1>1 DEF AttemptStep, Acquire, Heartbeat, Work, ReadDone, RemoveStaleDone,
           MakeDir, WriteLease, ReadLease, TakeOver, RemoveDir, HeartbeatRead,
           HeartbeatOpen, HeartbeatFill, Die, MarkTaskDone, Finally, FinallyThrows, Release
    <3> QED BY <2>1, <3>1 DEF Busy, Midway, Choosing, Writing
  <2> QED BY <2>2 DEF OneBusy
<1>2. ASSUME NEW a \in Attempts, AttemptStep(a) PROVE Busy(a) \/ MayRun(a)
  BY <1>2 DEF AttemptStep, Acquire, Heartbeat, Work, ReadDone, RemoveStaleDone, MakeDir,
       WriteLease, ReadLease, TakeOver, HeartbeatRead, HeartbeatOpen, HeartbeatFill,
       MarkTaskDone, Finally, FinallyThrows, Release, Busy, Midway, Choosing
<1>3. ASSUME NEW d \in Daemons, Crash(d) PROVE OneBusy'
  <2>1. \A b \in Attempts : pc'[b] \in {pc[b], "dead"} /\ beat'[b] \in {beat[b], "off"}
    BY <1>3 DEF Crash, Die
  <2> QED BY <2>1 DEF OneBusy, Busy, Midway, Choosing, Writing
<1>4. CASE Tick \/ UNCHANGED vars
  BY <1>4 DEF Tick, vars, OneBusy, Busy
<1> QED BY <1>1, <1>2, <1>3, <1>4 DEF Next, AttemptStep

\* The parts of SoloInv that relate the handlers to the disk and the clock.
Held == HeldInv /\ AloneInv /\ NowInv /\ DoneInv

\* The calls of acquireTaskLease keep exclusion: a handler that may write the
\* lease has met no other.
LEMMA SoloAcquire ==
  ASSUME SingleDaemon, Timely, SoloInv, TypeOK', NEW a \in Attempts, Acquire(a)
  PROVE  Held'
<1> USE DEF SoloInv, TypeOK, BeatInv, HeldInv, AloneInv, NowInv, DoneInv, Held, Goto, Working
<1>1. CASE ReadDone(a)
  <2>1. \A b \in Attempts : ~Busy(b)
    BY <1>1, BusyAlone DEF ReadDone, Busy, Midway, Choosing, Writing
  <2>2. \A b \in Attempts : pc[b] = "executing" => done = NoRecord
    OBVIOUS
  <2> QED BY <1>1, <2>1, <2>2 DEF ReadDone, Busy, HeldBy, Fresh, Claiming, Writing, Midway, Choosing, NoRecord
<1> CASE ~ReadDone(a)
  <2>b. \A b \in Attempts \ {a} : ~Busy(b)
    BY BusyAlone DEF Acquire, RemoveStaleDone, MakeDir, WriteLease, ReadLease, TakeOver,
         Busy, Midway, Choosing, Writing
  <2>c. \A b \in Attempts \ {a} : beat[b] \notin {"open", "fill"}
    BY <2>b DEF Busy
  <2>2. CASE RemoveStaleDone(a)
    BY <2>2, <2>b DEF RemoveStaleDone, HeldBy, Claiming, Writing, Busy, Midway, Choosing, Fresh
  <2>3. CASE MakeDir(a)
    <3>1. CASE lease = Absent
      <4>1. \A b \in Attempts : beat[b] = "off" /\ pc[b] # "unlink"
        BY <3>1, <2>3, <2>c DEF MakeDir, HeldBy, Absent
      <4> QED BY <2>3, <3>1, <4>1 DEF MakeDir, HeldBy, Claiming, Writing, Fresh
    <3>2. CASE lease # Absent
      BY <2>3, <3>2 DEF MakeDir, HeldBy, Claiming, Writing, Fresh
    <3> QED BY <3>1, <3>2
  <2>4. CASE WriteLease(a)
    <3>1. CASE lease = Absent
      BY <2>4, <3>1 DEF WriteLease, HeldBy, Claiming, Writing, Fresh
    <3>2. CASE lease # Absent
      <4>1. now[a] = clock /\ now[a] + LeaseMs > clock
        BY <2>4, TimeAssumption DEF WriteLease, Claiming
      <4>2. \A b \in Attempts \ {a} : beat[b] = "off" /\ pc[b] \notin Midway
        BY <2>4, <2>b DEF WriteLease, Busy
      <4>3. HeldBy(a)' /\ lease'.expires > clock'
        BY <2>4, <3>2, <4>1 DEF WriteLease, HeldBy, Lease
      <4> QED BY <2>4, <3>2, <4>1, <4>2, <4>3 DEF WriteLease, Claiming, Writing, Fresh, Midway, Choosing
    <3> QED BY <3>1, <3>2
  <2>5. CASE ReadLease(a)
    <3>1. now[a] = clock
      BY <2>5 DEF ReadLease, Claiming
    <3>2. pc'[a] = "rmLease" => \A b \in Attempts : beat[b] = "off"
      BY <2>5, <3>1, <2>c DEF ReadLease, HeldBy
    <3> QED BY <2>5, <3>1, <3>2 DEF ReadLease, HeldBy, Claiming, Writing, Fresh
  <2>6. CASE TakeOver(a)
    <3>1. \A b \in Attempts : beat[b] = "off" /\ (b # a => pc[b] \notin Midway)
      BY <2>6, <2>b DEF TakeOver, Busy
    <3> QED BY <2>6, <3>1 DEF TakeOver, RemoveDir, HeldBy, Claiming, Writing, Midway, Choosing, Fresh
  <2> QED BY <2>2, <2>3, <2>4, <2>5, <2>6 DEF Acquire
<1> QED BY <1>1

\* A heartbeat in time renews the handler's own lease.
LEMMA SoloHeartbeat ==
  ASSUME SingleDaemon, Timely, SoloInv, TypeOK', NEW a \in Attempts, Heartbeat(a)
  PROVE  Held'
<1> USE DEF SoloInv, TypeOK, BeatInv, HeldInv, AloneInv, NowInv, DoneInv, Held, Working
<1>b. \A b \in Attempts \ {a} : ~Busy(b)
  BY BusyAlone DEF Heartbeat, HeartbeatRead, HeartbeatOpen, HeartbeatFill, Busy
<1>a. pc[a] \in {"executing", "recorded", "orphaned"} /\ beat[a] # "off"
  BY DEF Heartbeat, HeartbeatRead, HeartbeatOpen, HeartbeatFill
<1>o. \A b \in Attempts \ {a} : beat[b] = "off" /\ pc[b] # "unlink"
  BY <1>b, <1>a DEF HeldBy, Heartbeat, HeartbeatRead, HeartbeatOpen, HeartbeatFill, Busy, Midway, Blank
<1>1. CASE HeartbeatRead(a)
  BY <1>1, <1>a, <1>o DEF HeartbeatRead, HeldBy, Claiming, Writing, Choosing, Fresh
<1>2. CASE HeartbeatOpen(a)
  <2>1. lease # Absent
    BY <1>2 DEF HeartbeatOpen, HeldBy, Absent
  <2> QED BY <1>2, <2>1, <1>a, <1>o DEF HeartbeatOpen, HeldBy, Claiming, Writing, Choosing, Fresh
<1>3. CASE HeartbeatFill(a)
  <2>1. HeldBy(a)' /\ lease'.expires > clock'
    BY <1>3, TimeAssumption DEF HeartbeatFill, HeldBy, Lease
  <2> QED BY <1>3, <2>1, <1>a, <1>o DEF HeartbeatFill, Claiming, Writing, Choosing, Fresh
<1> QED BY <1>1, <1>2, <1>3 DEF Heartbeat

\* Ending a handler gives up a lease that is its own.
LEMMA SoloWork ==
  ASSUME SingleDaemon, Timely, SoloInv, TypeOK', NEW a \in Attempts, Work(a)
  PROVE  Held'
<1> USE DEF SoloInv, TypeOK, BeatInv, HeldInv, AloneInv, NowInv, DoneInv, Held, Working, Goto
<1>b. \A b \in Attempts \ {a} : ~Busy(b)
  BY BusyAlone DEF Work, MarkTaskDone, Finally, FinallyThrows, Release, Busy, Midway
<1>o. \A b \in Attempts \ {a} : beat[b] = "off" /\ pc[b] \notin {"unlink", "executing"} \cup Claiming \cup {"rmDone"}
  <2>1. HeldBy(a)
    BY DEF Work, MarkTaskDone, Finally, FinallyThrows, Release
  <2> QED BY <1>b, <2>1 DEF HeldBy, Busy, Midway, Choosing, Writing, Claiming
<1>1. CASE MarkTaskDone(a)
  BY <1>1, <1>o DEF MarkTaskDone, HeldBy, Claiming, Writing, Fresh
<1>2. CASE Finally(a)
  BY <1>2, <1>o DEF Finally, HeldBy, Claiming, Writing, Fresh
<1>3. CASE FinallyThrows(a)
  BY <1>3, <1>o DEF FinallyThrows, HeldBy, Claiming, Writing, Fresh
<1>4. CASE Release(a)
  <2>1. beat[a] = "off"
    BY <1>4 DEF Release
  <2> QED BY <1>4, <2>1, <1>o DEF Release, RemoveDir, HeldBy, Claiming, Writing, Fresh
<1> QED BY <1>1, <1>2, <1>3, <1>4 DEF Work

\* A crash stops every heartbeat, and no lease in use runs out.
LEMMA SoloClock ==
  ASSUME SingleDaemon, Timely, SoloInv, TypeOK',
         Tick \/ (\E d \in Daemons : Crash(d)) \/ UNCHANGED vars
  PROVE  Held'
<1> USE DEF SoloInv, TypeOK, BeatInv, HeldInv, AloneInv, NowInv, DoneInv, Held, Working
<1>1. CASE Tick
  <2>1. \A a \in Attempts : ~Busy(a) /\ (beat[a] = "on" => lease.expires > clock + 1)
    BY <1>1 DEF Tick
  <2> QED BY <1>1, <2>1 DEF Tick, HeldBy, Claiming, Writing, Choosing, Midway, Busy
<1>2. ASSUME NEW d \in Daemons, Crash(d) PROVE Held'
  BY <1>2 DEF Crash, Die, HeldBy, Claiming, Writing, Choosing, TurnedAway, Fresh
<1>3. CASE UNCHANGED vars
  BY <1>3 DEF vars, HeldBy, Fresh
<1> QED BY <1>1, <1>2, <1>3

\* The inductive invariant behind exclusion and deduplication.
LEMMA Solo == SingleDaemon /\ Timely => (Spec => []SoloInv)
<1> SUFFICES ASSUME SingleDaemon, Timely PROVE Spec => []SoloInv
  OBVIOUS
<1>1. Init => OneBusy /\ Held
  BY DEF Init, OneBusy, Busy, Midway, Held, HeldInv, AloneInv, NowInv, DoneInv,
       Choosing, Writing, Claiming, Working
<1>2. SoloInv /\ TypeOK' /\ [Next]_vars => OneBusy' /\ Held'
  <2> SUFFICES ASSUME SoloInv, TypeOK', [Next]_vars PROVE OneBusy' /\ Held'
    OBVIOUS
  <2>1. OneBusy'
    BY OneBusyStep
  <2>2. Held'
    BY SoloAcquire, SoloHeartbeat, SoloWork, SoloClock DEF Next
  <2> QED BY <2>1, <2>2
<1>3. SoloInv <=> TypeOK /\ BeatInv /\ OneBusy /\ Held
  BY DEF SoloInv, Held
<1>4. OwnerInv => TypeOK /\ BeatInv
  BY DEF OwnerInv
<1> QED BY <1>1, <1>2, <1>3, <1>4, Owners, PTL DEF Spec

\* Whoever works holds the lease, and there is one lease.
LEMMA Exclusive == SoloInv => MutualExclusion
<1> SUFFICES ASSUME SoloInv, NEW a \in Attempts, NEW b \in Attempts,
                    Working(a), Working(b)
             PROVE a = b
  BY DEF MutualExclusion
<1>1. beat[a] \in {"on", "open", "fill"} /\ beat[b] \in {"on", "open", "fill"}
  BY DEF SoloInv, HeldInv, TypeOK
<1>2. CASE beat[a] = "fill" /\ beat[b] = "fill"
  BY <1>2 DEF SoloInv, OneBusy, Busy
<1>3. CASE beat[a] # "fill" /\ beat[b] # "fill"
  BY <1>1, <1>3 DEF SoloInv, HeldInv, HeldBy
<1>4. CASE (beat[a] = "fill") # (beat[b] = "fill")
  BY <1>1, <1>4 DEF SoloInv, HeldInv, HeldBy, Blank
<1> QED BY <1>2, <1>3, <1>4

\* Two deliveries of a task to one daemon are never worked on together, as
\* long as its heartbeats fire before the lease expires.
THEOREM ExclusionOneDaemon == SingleDaemon /\ Timely => (Spec => []MutualExclusion)
BY Exclusive, Solo, PTL

\* A daemon with timely heartbeats never runs a finished task again while the
\* done record is fresh.
THEOREM DedupOneDaemon == SingleDaemon /\ Timely => (Spec => NoRerunWhileFresh)
<1>1. SoloInv /\ [Next]_vars => [\A a \in Attempts : a \in acquired' \ acquired => ~Fresh]_vars
  <2> SUFFICES ASSUME SoloInv, [Next]_vars, NEW a \in Attempts, a \in acquired' \ acquired
               PROVE ~Fresh
    OBVIOUS
  <2>1. WriteLease(a)
    BY DEF Next, vars, Acquire, Heartbeat, Work, ReadDone, RemoveStaleDone, MakeDir,
         WriteLease, ReadLease, TakeOver, HeartbeatRead, HeartbeatOpen, HeartbeatFill,
         MarkTaskDone, Finally, FinallyThrows, Release, Crash, Tick
  <2> QED BY <2>1 DEF WriteLease, SoloInv, DoneInv, Claiming, Fresh, NoRecord
<1> QED BY <1>1, Solo, PTL DEF Spec, NoRerunWhileFresh

\* Nor does it lose or replace a done record before its time to live is over.
THEOREM RecordKeptOneDaemon == SingleDaemon /\ Timely => (Spec => FreshRecordKept)
<1>1. SoloInv /\ [Next]_vars => [Fresh => done' = done]_vars
  <2> SUFFICES ASSUME SoloInv, [Next]_vars, Fresh, done' # done PROVE FALSE
    OBVIOUS
  <2>1. \E a \in Attempts : RemoveStaleDone(a) \/ MarkTaskDone(a)
    BY DEF Next, vars, Acquire, Heartbeat, Work, ReadDone, RemoveStaleDone, MakeDir,
         WriteLease, ReadLease, TakeOver, HeartbeatRead, HeartbeatOpen, HeartbeatFill,
         MarkTaskDone, Finally, FinallyThrows, Release, Crash, Tick
  <2> QED BY <2>1 DEF RemoveStaleDone, MarkTaskDone, SoloInv, DoneInv, Fresh, NoRecord
<1> QED BY <1>1, Solo, PTL DEF Spec, FreshRecordKept
-----------------------------------------------------------------------------
(* One daemon implements SerialTask *)

\* What no step but a few touches.
SameTask == /\ UNCHANGED <<clock, done>>
            /\ \A a \in Attempts : Working(a)' <=> Working(a)

LEMMA Stutter == ASSUME SameTask PROVE UNCHANGED Serial!vars
<1>1. AtWork' = AtWork /\ Notes' = Notes
  BY DEF SameTask, AtWork, Notes
<1> QED BY <1>1 DEF SameTask, Serial!vars

LEMMA FreshNotes == TypeOK => (Serial!Fresh <=> Fresh)
<1> SUFFICES ASSUME TypeOK PROVE Serial!Fresh <=> Fresh
  OBVIOUS
<1>1. CASE done.state = "done"
  BY <1>1 DEF Serial!Fresh, Notes, Fresh
<1>2. CASE done.state # "done"
  BY <1>2 DEF Serial!Fresh, Notes, Fresh
<1> QED BY <1>1, <1>2

\* acquireTaskLease begins the work, on a task without a done record, or
\* forgets a stale one.
LEMMA SerialAcquire ==
  ASSUME SoloInv, NEW a \in Attempts, Acquire(a)
  PROVE  Serial!Next \/ UNCHANGED Serial!vars
<1> USE DEF SoloInv, TypeOK, Goto, Working
<1>1. CASE ReadDone(a) \/ MakeDir(a) \/ ReadLease(a) \/ TakeOver(a)
  <2>1. SameTask
    BY <1>1 DEF ReadDone, MakeDir, ReadLease, TakeOver, SameTask
  <2> QED BY <2>1, Stutter
<1>2. CASE RemoveStaleDone(a)
  <2>1. ~Serial!Fresh
    BY <1>2, FreshNotes DEF RemoveStaleDone, DoneInv
  <2>2. AtWork' = AtWork /\ Notes' = {} /\ clock' = clock
    BY <1>2 DEF RemoveStaleDone, AtWork, Notes, NoRecord
  <2> QED BY <2>1, <2>2 DEF Serial!Next, Serial!Forget
<1>3. CASE WriteLease(a) /\ pc'[a] # "executing"
  <2>1. SameTask
    BY <1>3 DEF WriteLease, Writing, SameTask
  <2> QED BY <2>1, Stutter
<1>4. CASE WriteLease(a) /\ pc'[a] = "executing"
  <2>1. AtWork = {}
    BY <1>4 DEF WriteLease, AloneInv, HeldInv, AtWork
  <2>2. AtWork' = {a}
    BY <1>4, <2>1 DEF WriteLease, AtWork
  <2>3. Notes = {} /\ Notes' = Notes /\ clock' = clock
    BY <1>4 DEF WriteLease, DoneInv, Claiming, Notes, NoRecord
  <2>4. Serial!Begin(a)
    BY <2>1, <2>2, <2>3 DEF Serial!Begin, Serial!Fresh
  <2> QED BY <2>4 DEF Serial!Next
<1> QED BY <1>1, <1>2, <1>3, <1>4 DEF Acquire

\* The death of the one daemon, in a heartbeat or anywhere, ends the work.
LEMMA SerialDeath ==
  ASSUME SingleDaemon, TypeOK, NEW a \in Attempts, NEW d, DaemonOf[a] = d, Die(d), UNCHANGED <<clock, done>>
  PROVE  Serial!Next \/ UNCHANGED Serial!vars
<1>1. AtWork' = {}
  BY DEF SingleDaemon, Die, AtWork, Working, TurnedAway
<1>2. Notes' = Notes
  BY DEF Notes
<1> QED BY <1>1, <1>2 DEF Serial!Next, Serial!End, Serial!vars

LEMMA SerialHeartbeat ==
  ASSUME SingleDaemon, SoloInv, NEW a \in Attempts, Heartbeat(a)
  PROVE  Serial!Next \/ UNCHANGED Serial!vars
<1>1. CASE HeartbeatOpen(a) /\ lease = Absent
  BY <1>1, SerialDeath DEF HeartbeatOpen, SoloInv
<1>2. CASE HeartbeatRead(a) \/ HeartbeatFill(a) \/ (HeartbeatOpen(a) /\ lease # Absent)
  <2>1. SameTask
    BY <1>2 DEF HeartbeatRead, HeartbeatFill, HeartbeatOpen, SameTask, Working
  <2> QED BY <2>1, Stutter
<1> QED BY <1>1, <1>2 DEF Heartbeat

\* The handler finishes the task, and ends.
LEMMA SerialWork ==
  ASSUME SoloInv, NEW a \in Attempts, Work(a)
  PROVE  Serial!Next \/ UNCHANGED Serial!vars
<1> USE DEF SoloInv, TypeOK, Goto, Working
<1>1. Working(a) => AtWork = {a}
  BY Exclusive DEF MutualExclusion, AtWork
<1>2. CASE MarkTaskDone(a)
  <2>1. AtWork = {a} /\ AtWork' = AtWork /\ clock' = clock
    BY <1>1, <1>2 DEF MarkTaskDone, AtWork
  <2>2. Notes = {} /\ Notes' = {[claim |-> a, at |-> clock]}
    BY <1>2 DEF MarkTaskDone, DoneInv, Notes, NoRecord, Record
  <2>3. Serial!Finish(a)
    BY <2>1, <2>2 DEF Serial!Finish, Serial!Fresh
  <2> QED BY <2>3 DEF Serial!Next
<1>3. CASE Finally(a) \/ FinallyThrows(a)
  <2>1. AtWork = {a} /\ AtWork' = {} /\ clock' = clock /\ Notes' = Notes
    BY <1>1, <1>3 DEF Finally, FinallyThrows, AtWork, Notes
  <2> QED BY <2>1 DEF Serial!Next, Serial!End
<1>4. CASE Release(a)
  <2>1. SameTask
    BY <1>4 DEF Release, SameTask
  <2> QED BY <2>1, Stutter
<1> QED BY <1>2, <1>3, <1>4 DEF Work

\* One daemon with timely heartbeats keeps the promise of SerialTask: its
\* handlers work on the task one after the other, none of them beside a fresh
\* done record, and no fresh record is lost.
THEOREM ImplementsSerialTask == SingleDaemon /\ Timely => (Spec => OneAfterAnother)
<1> SUFFICES ASSUME SingleDaemon, Timely PROVE Spec => OneAfterAnother
  OBVIOUS
<1>1. Init => Serial!Init
  <2> SUFFICES ASSUME Init PROVE Serial!Init
    OBVIOUS
  <2>1. AtWork = {} /\ Notes = {}
    BY DEF Init, AtWork, Working, Notes, NoRecord
  <2> QED BY <2>1 DEF Init, Serial!Init
<1>2. SoloInv /\ [Next]_vars => [Serial!Next]_(Serial!vars)
  <2> SUFFICES ASSUME SoloInv, [Next]_vars PROVE Serial!Next \/ UNCHANGED Serial!vars
    OBVIOUS
  <2>1. CASE \E a \in Attempts : Acquire(a) \/ Heartbeat(a) \/ Work(a)
    BY <2>1, SerialAcquire, SerialHeartbeat, SerialWork
  <2>2. ASSUME NEW d \in Daemons, Crash(d) PROVE Serial!Next \/ UNCHANGED Serial!vars
    BY <2>2, SerialDeath DEF Crash, SoloInv
  <2>3. CASE Tick
    <3>1. AtWork' = AtWork /\ Notes' = Notes /\ clock' = clock + 1
      BY <2>3 DEF Tick, AtWork, Working, Notes
    <3> QED BY <3>1 DEF Serial!Next, Serial!Tick
  <2>4. CASE UNCHANGED vars
    <3>1. SameTask
      BY <2>4 DEF vars, SameTask, Working
    <3> QED BY <3>1, Stutter
  <2> QED BY <2>1, <2>2, <2>3, <2>4 DEF Next
<1> QED BY <1>1, <1>2, Solo, PTL DEF Spec, OneAfterAnother, Serial!Spec
=============================================================================
