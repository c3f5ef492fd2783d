--------------------------- MODULE DispatchLease ---------------------------
(***************************************************************************)
(* The dispatch guard of lib/agents/dispatch.mjs as the task handler of    *)
(* lib/engines/rt-envelope.mjs drives it, for ONE dispatch key.            *)
(*                                                                         *)
(* Every delivery of the task (a broadcast reaches several daemons, a      *)
(* retry or a second copy reaches the same daemon again) is an attempt.    *)
(* The attempts contend for <key>.lease, a directory holding lease.json,   *)
(* and for <key>.done.json, both on a disk the daemons share.  One action  *)
(* is one file-system call, because the calls of two daemons interleave.   *)
(* Inside one daemon the whole sequence of synchronous calls runs without  *)
(* interruption (one JavaScript thread): that is the guard MayRun.         *)
(***************************************************************************)
EXTENDS Integers, FiniteSets

CONSTANTS
  Attempts,   \* deliveries of the task to a handler
  Daemons,    \* gateway processes, one per running agent daemon
  DaemonOf,   \* the process that handles each attempt
  LeaseMs,    \* CREWSWARM_RT_DISPATCH_LEASE_MS, in ticks
  Ttl,        \* CREWSWARM_RT_TASK_STATE_TTL_MS, in ticks
  Timely,     \* TRUE: heartbeats fire before the lease runs out
  MaxClock    \* bound on the clock (model checking only)

ASSUME AttemptsAssumption == DaemonOf \in [Attempts -> Daemons]
ASSUME TimeAssumption == /\ LeaseMs \in Nat /\ LeaseMs > 1
                         /\ Ttl \in Nat /\ MaxClock \in Nat
                         /\ Timely \in BOOLEAN

VARIABLES
  clock,     \* Date.now(), the same for all daemons (one host)
  lease,     \* the lease directory and what lease.json reads as
  done,      \* <key>.done.json
  pc,        \* where each attempt's handler is
  now,       \* the handler's local `now` (and renewTaskLease's)
  beat,      \* the handler's dispatchHeartbeat interval
  acquired   \* attempts whose dispatchClaim.acquired is true

vars == <<clock, lease, done, pc, now, beat, acquired>>

-----------------------------------------------------------------------------
(* The disk *)

Absent == [state |-> "absent"]
\* mkdir done and lease.json missing, or truncated by a writer that has not
\* filled it yet: safeReadJson gives null
Blank == [state |-> "blank"]
Lease(a, t) == [state |-> "held", holder |-> a, expires |-> t]
Leases == {Absent, Blank} \cup
          [state : {"held"}, holder : Attempts, expires : Nat]
HeldBy(a) == lease.state = "held" /\ lease.holder = a

NoRecord == [state |-> "none"]
Record(a, t) == [state |-> "done", claim |-> a, at |-> t]
Records == {NoRecord} \cup [state : {"done"}, claim : Attempts, at : Nat]
Fresh == done.state = "done" /\ clock - done.at <= Ttl

(* The handler *)

\* inside acquireTaskLease, before the directory is (re)made ...
Choosing == {"rmDone", "mkdir", "readLease", "rmLease", "remkdir"}
\* ... and between the mkdir and the write of lease.json
Writing == {"write", "rewrite"}
TurnedAway == {"skipped", "refused"}
Steps == {"idle", "executing", "recorded", "orphaned", "unlink", "ended", "dead"}
            \cup Choosing \cup Writing \cup TurnedAway
Midway == Choosing \cup Writing \cup {"recorded", "unlink"}

Busy(a) == pc[a] \in Midway \/ beat[a] \in {"open", "fill"}
MayRun(a) == \A b \in Attempts \ {a} : DaemonOf[b] = DaemonOf[a] => ~Busy(b)

TypeOK ==
  /\ clock \in Nat
  /\ lease \in Leases
  /\ done \in Records
  /\ pc \in [Attempts -> Steps]
  /\ now \in [Attempts -> Nat]
  /\ beat \in [Attempts -> {"off", "on", "open", "fill"}]
  /\ acquired \in SUBSET Attempts

Init ==
  /\ clock = 0
  /\ lease = Absent
  /\ done = NoRecord
  /\ pc = [a \in Attempts |-> "idle"]
  /\ now = [a \in Attempts |-> 0]
  /\ beat = [a \in Attempts |-> "off"]
  /\ acquired = {}

Goto(a, step) == pc' = [pc EXCEPT ![a] = step]

-----------------------------------------------------------------------------
(* acquireTaskLease *)

\* Mutant of ReadDone: the done record is not looked at.
ReadDoneUnchecked(a) ==
  /\ pc[a] = "idle" /\ MayRun(a)
  /\ Goto(a, "mkdir") /\ now' = [now EXCEPT ![a] = clock]
  /\ UNCHANGED <<clock, lease, done, beat, acquired>>

\* Mutant of ReadDone: a record of any age counts as stale.
ReadDoneAllStale(a) ==
  /\ pc[a] = "idle" /\ MayRun(a)
  /\ IF done = NoRecord
     THEN Goto(a, "mkdir") /\ now' = [now EXCEPT ![a] = clock]
     ELSE Goto(a, "rmDone") /\ UNCHANGED now
  /\ UNCHANGED <<clock, lease, done, beat, acquired>>

\* A fresh done record ends the attempt ("already_done"); a stale one is
\* removed first; with none, `now` is read and the directory is made.
ReadDone(a) ==
  /\ pc[a] = "idle" /\ MayRun(a)
  /\ \/ /\ Fresh
        /\ Goto(a, "skipped") /\ UNCHANGED now
     \/ /\ done.state = "done" /\ ~Fresh
        /\ Goto(a, "rmDone") /\ UNCHANGED now
     \/ /\ done = NoRecord
        /\ Goto(a, "mkdir") /\ now' = [now EXCEPT ![a] = clock]
  /\ UNCHANGED <<clock, lease, done, beat, acquired>>

\* rmSync of the record judged stale: it removes whatever is there by now.
RemoveStaleDone(a) ==
  /\ pc[a] = "rmDone"
  /\ done' = NoRecord
  /\ Goto(a, "mkdir") /\ now' = [now EXCEPT ![a] = clock]
  /\ UNCHANGED <<clock, lease, beat, acquired>>

\* fs.mkdirSync of writeNewLease: it fails with EEXIST when the directory is
\* there, which the first try answers by reading the lease and the second by
\* reporting "claimed".
MakeDir(a) ==
  /\ pc[a] \in {"mkdir", "remkdir"}
  /\ \/ /\ lease = Absent
        /\ lease' = Blank
        /\ Goto(a, IF pc[a] = "mkdir" THEN "write" ELSE "rewrite")
     \/ /\ lease # Absent
        /\ Goto(a, IF pc[a] = "mkdir" THEN "readLease" ELSE "skipped")
        /\ UNCHANGED lease
  /\ UNCHANGED <<clock, done, now, beat, acquired>>

\* writeLeaseRecord: ENOENT when another daemon removed the directory (the
\* first try rethrows it and the handler acks "dispatch claim error", the
\* second reports "claimed").  After a successful write the handler starts
\* the heartbeat and acks; an ack on a closing socket throws before the try
\* block is entered and leaves the heartbeat running with nobody at work.
WriteLease(a) ==
  /\ pc[a] \in Writing
  /\ \/ /\ lease = Absent
        /\ Goto(a, IF pc[a] = "write" THEN "refused" ELSE "skipped")
        /\ UNCHANGED <<lease, beat, acquired>>
     \/ /\ lease # Absent
        /\ lease' = Lease(a, now[a] + LeaseMs)
        /\ acquired' = acquired \cup {a}
        /\ beat' = [beat EXCEPT ![a] = "on"]
        /\ \E step \in {"executing", "orphaned"} : Goto(a, step)
  /\ UNCHANGED <<clock, done, now>>

\* Mutant of ReadLease: the comparison with `now` the wrong way round.
ReadLeaseInverted(a) ==
  /\ pc[a] = "readLease"
  /\ Goto(a, IF lease.state = "held" /\ lease.expires <= now[a]
             THEN "skipped" ELSE "rmLease")
  /\ UNCHANGED <<clock, lease, done, now, beat, acquired>>

\* An unexpired lease turns the attempt away; an expired one, and one whose
\* lease.json cannot be read (or is gone), is taken over.
ReadLease(a) ==
  /\ pc[a] = "readLease"
  /\ Goto(a, IF lease.state = "held" /\ lease.expires > now[a]
             THEN "skipped" ELSE "rmLease")
  /\ UNCHANGED <<clock, lease, done, now, beat, acquired>>

\* rmSync(leaseDir): a heartbeat that has lease.json open now fills a file
\* that is no longer linked.
RemoveDir(a) ==
  /\ lease' = Absent
  /\ beat' = [b \in Attempts |-> IF beat[b] = "fill" THEN "on" ELSE beat[b]]

\* Mutant of TakeOver: writeNewLease is not tried again.
TakeOverWithoutRetry(a) ==
  /\ pc[a] = "rmLease"
  /\ RemoveDir(a)
  /\ Goto(a, "skipped")
  /\ UNCHANGED <<clock, done, now, acquired>>

TakeOver(a) ==
  /\ pc[a] = "rmLease"
  /\ RemoveDir(a)
  /\ Goto(a, "remkdir")
  /\ UNCHANGED <<clock, done, now, acquired>>

-----------------------------------------------------------------------------
(* The heartbeat: renewTaskLease from setInterval *)

\* The lease is renewed only when lease.json still names this claim.
HeartbeatRead(a) ==
  /\ beat[a] = "on" /\ pc[a] \notin Midway /\ MayRun(a)
  /\ HeldBy(a)
  /\ beat' = [beat EXCEPT ![a] = "open"]
  /\ now' = [now EXCEPT ![a] = clock]
  /\ UNCHANGED <<clock, lease, done, pc, acquired>>

\* What the death of a process leaves: its handlers and timers are gone, the
\* lease and the done record stay on disk.
Die(d) ==
  /\ pc' = [a \in Attempts |->
              IF DaemonOf[a] = d /\ pc[a] \notin TurnedAway \cup {"idle", "ended"}
              THEN "dead" ELSE pc[a]]
  /\ beat' = [a \in Attempts |-> IF DaemonOf[a] = d THEN "off" ELSE beat[a]]

\* writeFileSync opens and truncates lease.json; when the directory has been
\* removed it throws ENOENT inside the timer callback, which nothing catches,
\* and the daemon exits.
HeartbeatOpen(a) ==
  /\ beat[a] = "open"
  /\ \/ /\ lease # Absent
        /\ lease' = Blank
        /\ beat' = [beat EXCEPT ![a] = "fill"]
        /\ UNCHANGED pc
     \/ /\ lease = Absent
        /\ Die(DaemonOf[a])
        /\ UNCHANGED lease
  /\ UNCHANGED <<clock, done, now, acquired>>

\* Mutant of HeartbeatFill: the lease time is subtracted.
HeartbeatFillBackwards(a) ==
  /\ beat[a] = "fill"
  /\ lease' = Lease(a, now[a] - LeaseMs)
  /\ beat' = [beat EXCEPT ![a] = "on"]
  /\ UNCHANGED <<clock, done, pc, now, acquired>>

HeartbeatFill(a) ==
  /\ beat[a] = "fill"
  /\ lease' = Lease(a, now[a] + LeaseMs)
  /\ beat' = [beat EXCEPT ![a] = "on"]
  /\ UNCHANGED <<clock, done, pc, now, acquired>>

-----------------------------------------------------------------------------
(* The rest of the handler *)

\* The reply is in and valid: markTaskDone, before the result is published.
\* From here to the end of the handler nothing is awaited.
MarkTaskDone(a) ==
  /\ pc[a] = "executing" /\ MayRun(a) /\ beat[a] = "on"
  /\ done' = Record(a, clock)
  /\ Goto(a, "recorded")
  /\ UNCHANGED <<clock, lease, now, beat, acquired>>

\* Mutant of Finally: only a successful handler releases the lease.
FinallyOnSuccess(a) ==
  /\ pc[a] \in {"executing", "recorded"} /\ MayRun(a) /\ beat[a] = "on"
  /\ beat' = [beat EXCEPT ![a] = "off"]
  /\ Goto(a, IF HeldBy(a) /\ pc[a] = "recorded" THEN "unlink" ELSE "ended")
  /\ UNCHANGED <<clock, lease, done, now, acquired>>

\* The finally block, after success ("recorded") or failure ("executing"):
\* the heartbeat is cleared and releaseTaskLease reads the lease, which it
\* removes only when it names this claim.
Finally(a) ==
  /\ pc[a] \in {"executing", "recorded"} /\ MayRun(a) /\ beat[a] = "on"
  /\ beat' = [beat EXCEPT ![a] = "off"]
  /\ Goto(a, IF HeldBy(a) THEN "unlink" ELSE "ended")
  /\ UNCHANGED <<clock, lease, done, now, acquired>>

\* agent_idle is published first in the finally block: on a closing socket it
\* throws, and neither the heartbeat nor the lease is given up.
FinallyThrows(a) ==
  /\ pc[a] \in {"executing", "recorded"} /\ MayRun(a) /\ beat[a] = "on"
  /\ Goto(a, "orphaned")
  /\ UNCHANGED <<clock, lease, done, now, beat, acquired>>

\* rmSync of releaseTaskLease, a second call after the read.
Release(a) ==
  /\ pc[a] = "unlink"
  /\ RemoveDir(a)
  /\ Goto(a, "ended")
  /\ UNCHANGED <<clock, done, now, acquired>>

\* A daemon dies in the middle of its handlers; a restarted one handles the
\* attempts that are still idle.
Crash(d) ==
  /\ \E a \in Attempts : DaemonOf[a] = d /\ pc[a] \notin TurnedAway \cup {"idle", "ended", "dead"}
  /\ Die(d)
  /\ UNCHANGED <<clock, lease, done, now, acquired>>

\* Time passes.  With Timely, not in the middle of a synchronous sequence and
\* not past the expiry of a lease that a running heartbeat still renews.
Tick ==
  /\ clock < MaxClock
  /\ Timely => \A a \in Attempts :
                 /\ ~Busy(a)
                 /\ beat[a] = "on" /\ HeldBy(a) => lease.expires > clock + 1
  /\ clock' = clock + 1
  /\ UNCHANGED <<lease, done, pc, now, beat, acquired>>

Acquire(a) == \/ ReadDone(a) \/ RemoveStaleDone(a) \/ MakeDir(a)
              \/ WriteLease(a) \/ ReadLease(a) \/ TakeOver(a)
Heartbeat(a) == HeartbeatRead(a) \/ HeartbeatOpen(a) \/ HeartbeatFill(a)
Work(a) == MarkTaskDone(a) \/ Finally(a) \/ FinallyThrows(a) \/ Release(a)

Next ==
  \/ \E a \in Attempts : Acquire(a) \/ Heartbeat(a) \/ Work(a)
  \/ \E d \in Daemons : Crash(d)
  \/ Tick

Spec == Init /\ [][Next]_vars

-----------------------------------------------------------------------------
(* Properties for any daemons and any timing *)

\* Contention never turns every delivery away: when a handler acks "skipped"
\* or "dispatch claim error" (rt-envelope.mjs:322-381), some delivery holds
\* or held the claim, is still contending for it, or died with its daemon.
ClaimNeverLost ==
  (\E a \in Attempts : pc[a] \in TurnedAway) =>
    \E b \in Attempts : b \in acquired \/ pc[b] \in Choosing \cup Writing \cup {"dead"}

\* A lease on disk names a delivery whose heartbeat runs, that is about to
\* remove it, or whose daemon died: no handler that ended leaves a lease
\* that turns later deliveries away (dispatch.mjs:154-164).
LeaseHasOwner ==
  lease.state = "held" =>
    \/ beat[lease.holder] # "off"
    \/ pc[lease.holder] \in {"unlink", "dead"}

-----------------------------------------------------------------------------
(* Properties of the deliveries to one daemon with timely heartbeats *)

Working(a) == pc[a] \in {"executing", "recorded"}

\* Two deliveries of a task are never worked on at the same time.
MutualExclusion ==
  \A a, b \in Attempts : Working(a) /\ Working(b) => a = b

\* No delivery acquires the claim while a fresh done record is on disk
\* (dispatch.mjs:82-90): a finished task is not run again.
NoRerunWhileFresh ==
  [][\A a \in Attempts : a \in acquired' \ acquired => ~Fresh]_vars

\* A done record is removed or replaced only after its time to live.
FreshRecordKept ==
  [][Fresh => done' = done]_vars

\* The guard keeps the promise of SerialTask: the handlers of the task work one
\* after the other, none begins beside a fresh done record, and the record is
\* made by the one at work (rt-envelope.mjs:320-433, 1122-1131).
AtWork == {a \in Attempts : Working(a)}
Notes == IF done.state = "done" THEN {[claim |-> done.claim, at |-> done.at]} ELSE {}
Serial == INSTANCE SerialTask WITH working <- AtWork, notes <- Notes
OneAfterAnother == Serial!Spec
=============================================================================
