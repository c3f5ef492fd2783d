---------------------------- MODULE StartupGuard ----------------------------
(***************************************************************************)
(* The startup guard (lib/runtime/startup-guard.mjs) of one service: a PID *)
(* file, a probe of the process it names and, for the services that listen *)
(* on a port, a look at who holds the port.  Every process runs the guard  *)
(* once when it starts.  The guard itself is synchronous, but processes    *)
(* interleave: one step is one call of the file or process system.         *)
(***************************************************************************)
EXTENDS Naturals

CONSTANTS
    Processes,  \* the processes that are started, by their PIDs
    NoPid,      \* nobody
    Services    \* how the services call the guard: port and killStale

ASSUME ProcessesAssumption == {NoPid, "absent", "invalid"} \cap Processes = {}
ASSUME ServicesAssumption == Services \subseteq [port : BOOLEAN, killStale : BOOLEAN]

VARIABLES
    service,    \* the service, fixed
    pidFile,    \* what its PID file says
    pc,         \* where each process is
    saved,      \* the PID each process has read, from the file or for the port
    port,       \* the process that listens on the port
    reused,     \* PIDs of dead processes that unrelated programs now have
    disturbed   \* a process has moved while another one started or stopped (history)

vars == <<service, pidFile, pc, saved, port, reused, disturbed>>

Probing == {"look", "read", "probe", "probePort", "remove", "askPort", "kill", "wait"}
Writing == {"write", "fill", "fillUnlinked"}
\* The process believes that it is the one; with a port, it has yet to listen.
Locked == {"locked", "serving"}
Exiting == {"cleanup", "unlink"}
Gone == {"refused", "dead"}
Places == {"off"} \cup Probing \cup Writing \cup Locked \cup Exiting \cup Gone

TypeOK ==
    /\ service \in Services
    /\ pidFile \in Processes \cup {"absent", "invalid"}
    /\ pc \in [Processes -> Places]
    /\ saved \in [Processes -> Processes \cup {NoPid}]
    /\ port \in Processes \cup {NoPid}
    /\ reused \subseteq Processes
    /\ disturbed \in BOOLEAN

Init ==
    /\ service \in Services
    /\ pidFile \in {"absent", "invalid"}
    /\ pc = [p \in Processes |-> "off"]
    /\ saved = [p \in Processes |-> NoPid]
    /\ port = NoPid
    /\ reused = {}
    /\ disturbed = FALSE

Running(p) == pc[p] \notin {"off"} \cup Gone
Alive(p) == Running(p) \/ p \in reused
Holds(p) == pc[p] \in Locked
\* Starting, which with a port lasts until the process listens, or stopping.
Busy(p) == pc[p] \in Probing \cup Writing \cup Exiting \/ (pc[p] = "locked" /\ service.port)

Goto(p, place) == pc' = [pc EXCEPT ![p] = place]
AfterFile == IF service.port THEN "askPort" ELSE "write"

\* What every step does besides: note a disturbance.
Noted ==
    disturbed' = (disturbed \/ \E p, q \in Processes :
                                 p # q /\ Busy(p) /\ pc'[p] = pc[p] /\ pc'[q] # pc[q])

-----------------------------------------------------------------------------
(* acquireStartupLock                                                      *)
Start(p) ==
    /\ pc[p] = "off" /\ p \notin reused
    /\ Goto(p, "look")
    /\ UNCHANGED <<pidFile, saved, port>>

Look(p) ==
    /\ pc[p] = "look"
    /\ Goto(p, IF pidFile = "absent" THEN AfterFile ELSE "read")
    /\ UNCHANGED <<pidFile, saved, port>>

\* Mutant: what the file says is not tested.
ReadUntested(p) ==
    /\ pc[p] = "read"
    /\ saved' = [saved EXCEPT ![p] = pidFile]
    /\ Goto(p, "probe")
    /\ UNCHANGED <<pidFile, port>>

\* A file that is not there any more or names no PID is to be removed.
Read(p) ==
    /\ pc[p] = "read"
    /\ \/ /\ pidFile \in Processes
          /\ saved' = [saved EXCEPT ![p] = pidFile]
          /\ Goto(p, "probe")
       \/ pidFile \notin Processes /\ Goto(p, "remove") /\ UNCHANGED saved
    /\ UNCHANGED <<pidFile, port>>

\* Mutant: the answer of the probe the wrong way round.
ProbeInverted(p) ==
    /\ pc[p] = "probe"
    /\ Goto(p, IF Alive(saved[p]) THEN "remove"
               ELSE IF service.port THEN "probePort" ELSE "refused")
    /\ UNCHANGED <<pidFile, saved, port>>

\* Signal 0 to the PID of the file: dead, the file is stale.
Probe(p) ==
    /\ pc[p] = "probe"
    /\ Goto(p, IF ~Alive(saved[p]) THEN "remove"
               ELSE IF service.port THEN "probePort" ELSE "refused")
    /\ UNCHANGED <<pidFile, saved, port>>

\* Mutant: with a port, whoever is alive is the service.
ProbePortUnasked(p) ==
    /\ pc[p] = "probePort"
    /\ Goto(p, "refused")
    /\ UNCHANGED <<pidFile, saved, port>>

\* The process is alive but nobody listens: another program has its PID now.
ProbePort(p) ==
    /\ pc[p] = "probePort"
    /\ Goto(p, IF port = NoPid THEN "remove" ELSE "refused")
    /\ UNCHANGED <<pidFile, saved, port>>

\* The file is gone: its inode lives on in the hands of those who write it.
Unlink == pidFile' = "absent"
Unlinked(place) == IF place = "fill" THEN "fillUnlinked" ELSE place

Remove(p) ==
    /\ pc[p] = "remove"
    /\ \/ pidFile = "absent" /\ Goto(p, "refused") /\ UNCHANGED pidFile
       \/ /\ pidFile # "absent"
          /\ Unlink
          /\ pc' = [q \in Processes |-> IF q = p THEN AfterFile ELSE Unlinked(pc[q])]
    /\ UNCHANGED <<saved, port>>

\* The owner of the port is to be killed, or the process gives up.
AskPort(p) ==
    /\ pc[p] = "askPort"
    /\ \/ port = NoPid /\ Goto(p, "write") /\ UNCHANGED saved
       \/ /\ port # NoPid /\ service.killStale
          /\ Goto(p, "kill") /\ saved' = [saved EXCEPT ![p] = port]
       \/ port # NoPid /\ ~service.killStale /\ Goto(p, "refused") /\ UNCHANGED saved
    /\ UNCHANGED <<pidFile, port>>

Kill(p) ==
    LET victim == saved[p]
    IN  /\ pc[p] = "kill"
        /\ \/ ~Alive(victim) /\ Goto(p, "refused") /\ UNCHANGED <<port, reused>>
           \/ /\ Alive(victim)
              /\ pc' = [pc EXCEPT ![p] = "wait", ![victim] = "dead"]
              /\ port' = IF port = victim THEN NoPid ELSE port
              /\ reused' = reused \ {victim}
        /\ UNCHANGED <<pidFile, saved>>

\* Six tries to find the port free.
Wait(p) ==
    /\ pc[p] = "wait"
    /\ Goto(p, IF port = NoPid THEN "write" ELSE "refused")
    /\ UNCHANGED <<pidFile, saved, port>>

\* writeFileSync opens and truncates the file, whoever's it is, then fills it.
Open(p) ==
    /\ pc[p] = "write"
    /\ pidFile' = "invalid"
    /\ Goto(p, "fill")
    /\ UNCHANGED <<saved, port>>

Fill(p) ==
    /\ pc[p] \in {"fill", "fillUnlinked"}
    /\ pidFile' = IF pc[p] = "fill" THEN p ELSE pidFile
    /\ Goto(p, IF service.port THEN "locked" ELSE "serving")
    /\ UNCHANGED <<saved, port>>

-----------------------------------------------------------------------------
\* Mutant: a process that cannot listen goes on without.
ListenAnyway(p) ==
    /\ pc[p] = "locked"
    /\ Goto(p, "serving")
    /\ port' = IF port = NoPid THEN p ELSE port
    /\ UNCHANGED <<pidFile, saved>>

(* The service listens; EADDRINUSE, after its retries, ends the process.   *)
Listen(p) ==
    /\ pc[p] = "locked"
    /\ \/ port = NoPid /\ port' = p /\ Goto(p, "serving")
       \/ port # NoPid /\ UNCHANGED port /\ Goto(p, "cleanup")
    /\ UNCHANGED <<pidFile, saved>>

Stop(p) ==
    /\ Holds(p)
    /\ Goto(p, "cleanup")
    /\ UNCHANGED <<pidFile, saved, port>>

Freed(p) == port' = IF port = p THEN NoPid ELSE port

\* cleanup: the file is removed when it names this process, in two calls.
Cleanup(p) ==
    /\ pc[p] = "cleanup"
    /\ \/ pidFile = p /\ Goto(p, "unlink") /\ UNCHANGED port
       \/ pidFile # p /\ Goto(p, "dead") /\ Freed(p)
    /\ UNCHANGED <<pidFile, saved>>

CleanupUnlink(p) ==
    /\ pc[p] = "unlink"
    /\ Unlink
    /\ pc' = [q \in Processes |-> IF q = p THEN "dead" ELSE Unlinked(pc[q])]
    /\ Freed(p)
    /\ UNCHANGED saved

(* kill -9, a crash: the file stays.                                       *)
Crash(p) ==
    /\ Running(p)
    /\ Goto(p, "dead")
    /\ Freed(p)
    /\ UNCHANGED <<pidFile, saved>>

(* The PID of a dead process is given to an unrelated program, which ends. *)
Reuse(p) ==
    /\ pc[p] \in Gone /\ p \notin reused
    /\ reused' = reused \cup {p}
    /\ UNCHANGED <<pidFile, pc, saved, port>>

Release(p) ==
    /\ p \in reused
    /\ reused' = reused \ {p}
    /\ UNCHANGED <<pidFile, pc, saved, port>>

GuardStep(p) ==
    \/ /\ Look(p) \/ Read(p) \/ Probe(p) \/ ProbePort(p) \/ Remove(p) \/ AskPort(p)
          \/ Wait(p) \/ Open(p) \/ Fill(p) \/ Listen(p) \/ Cleanup(p) \/ CleanupUnlink(p)
       /\ UNCHANGED reused
    \/ Kill(p)

Step(p) ==
    \/ GuardStep(p)
    \/ (Start(p) \/ Stop(p) \/ Crash(p)) /\ UNCHANGED reused
    \/ Reuse(p)
    \/ Release(p)

Next == (\E p \in Processes : Step(p)) /\ Noted /\ UNCHANGED service

Spec == Init /\ [][Next]_vars

\* What runs goes on; nobody has to start, stop or crash a process.
FairSpec == Spec /\ \A p \in Processes : WF_vars(GuardStep(p) /\ Noted /\ UNCHANGED service)

-----------------------------------------------------------------------------
(* When nothing moves while a process starts (with a port, until it        *)
(* listens) or stops, the service has one instance and the PID file names  *)
(* it, through crashes, stale and invalid files and PIDs used again.       *)
OneInstance ==
    ~disturbed =>
        \A p, q \in Processes : Holds(p) => pidFile = p /\ (Holds(q) => p = q)

(* A process that is refused was in the way of a living one, of a program  *)
(* with its PID, or of a start or a stop that went on meanwhile: what dead *)
(* processes left behind never keeps a service from starting.              *)
RefusedForCause ==
    [][\A p \in Processes : pc[p] # "refused" /\ pc'[p] = "refused" /\ ~disturbed' =>
        \E q \in Processes \ {p} : IF service.port THEN Running(q) ELSE Alive(q)]_vars

(* For a service with a port, two instances do not last, however their     *)
(* starts interleaved: the port decides, and whoever fails to get it ends. *)
PortDecides == <>[](service.port => \A p, q \in Processes : Holds(p) /\ Holds(q) => p = q)
=============================================================================
