------------------------- MODULE StartupGuard_proofs -------------------------
(***************************************************************************)
(* Proofs about the startup guard, for any set of processes and services:  *)
(* its types, that there is one instance when no two starts or stops       *)
(* overlap, and that then nobody is refused because of what is dead.       *)
(***************************************************************************)
EXTENDS StartupGuard, TLAPS

-----------------------------------------------------------------------------
(* The inductive invariant                                                 *)

\* The port belongs to a process that has got past Listen; only services with a
\* port look at it.
Ported ==
  /\ port # NoPid => service.port /\ pc[port] \in {"serving"} \cup Exiting
  /\ \A p \in Processes : pc[p] \in {"probePort", "askPort", "kill", "wait", "locked"} => service.port

\* The PID in the file is that of a process that wrote it.
Written == pidFile \in Processes => pc[pidFile] \in Locked \cup Exiting \cup Gone

\* Where a process is says what it knows of the file and the port.
Knows(p) ==
  /\ pc[p] \notin {"fillUnlinked", "kill", "wait"}
  /\ Holds(p) => pidFile = p /\ (pc[p] = "serving" /\ service.port => port = p)
  /\ pc[p] \in {"read", "remove"} => pidFile # "absent"
  /\ pc[p] \in {"probe", "probePort"} => pidFile = saved[p] /\ saved[p] \in Processes
  /\ pc[p] = "unlink" => pidFile = p
  /\ pc[p] \in {"remove", "askPort", "write", "fill"} => port = NoPid /\ \A q \in Processes : ~Holds(q)

\* As long as nothing moved while a process started or stopped.
Settled ==
  /\ \A p, q \in Processes : Busy(p) /\ Busy(q) => p = q
  /\ port # NoPid => pidFile = port
  /\ \A p \in Processes : Knows(p)

IInv == TypeOK /\ Ported /\ Written /\ (~disturbed => Settled)

-----------------------------------------------------------------------------
\* After the file, a service with a port asks who has it; the others write the file.
LEMMA AfterFilePlace == AfterFile \in {"askPort", "write"} /\ (AfterFile = "askPort" => service.port)
BY DEF AfterFile

\* The steps of a process, each with what it leaves alone.
Moves(p) ==
  \/ Start(p) \/ Stop(p) \/ Crash(p) \/ Look(p) \/ Read(p) \/ Probe(p) \/ ProbePort(p) \/ Remove(p) \/ AskPort(p)
  \/ Wait(p) \/ Open(p) \/ Fill(p) \/ Listen(p) \/ Cleanup(p) \/ CleanupUnlink(p)

\* A step is a move, a kill, or a PID that is used again or released.
LEMMA StepMoves ==
  ASSUME NEW p, Step(p)
  PROVE  (Moves(p) /\ UNCHANGED reused) \/ Kill(p) \/ Reuse(p) \/ Release(p)
BY DEF Step, GuardStep, Moves

\* Where a move takes the processes.
LEMMA MovePlaces ==
  ASSUME TypeOK, NEW p \in Processes, Moves(p)
  PROVE  /\ pc' \in [Processes -> Places] /\ pc'[p] # pc[p]
         /\ \A q \in Processes \ {p} : pc'[q] = pc[q] \/ (pc[p] \in {"remove", "unlink"} /\ pc'[q] = Unlinked(pc[q]))
<1>0. /\ "remove" \in Places /\ "probe" \in Places /\ "read" \in Places /\ "look" \in Places /\ "refused" \in Places
      /\ "probePort" \in Places /\ "kill" \in Places /\ "write" \in Places /\ "fill" \in Places
      /\ "locked" \in Places /\ "serving" \in Places /\ "cleanup" \in Places /\ "unlink" \in Places
      /\ "dead" \in Places /\ AfterFile \in Places /\ \A place \in Places : Unlinked(place) \in Places
  BY AfterFilePlace DEF Places, Probing, Writing, Locked, Exiting, Gone, Unlinked
<1> USE <1>0 DEF TypeOK, Goto
<1>1. CASE Start(p)
  BY <1>1 DEF Start
<1>2. CASE Stop(p)
  BY <1>2 DEF Stop, Holds, Locked
<1>3. CASE Crash(p)
  BY <1>3 DEF Crash, Running, Gone
<1>4. CASE Look(p)
  BY <1>4, AfterFilePlace DEF Look
<1>5. CASE Read(p)
  BY <1>5 DEF Read
<1>6. CASE Probe(p)
  BY <1>6 DEF Probe
<1>7. CASE ProbePort(p)
  BY <1>7 DEF ProbePort
<1>8. CASE Remove(p)
  BY <1>8, AfterFilePlace DEF Remove
<1>9. CASE AskPort(p)
  BY <1>9 DEF AskPort
<1>10. CASE Wait(p)
  BY <1>10 DEF Wait
<1>11. CASE Open(p)
  BY <1>11 DEF Open
<1>12. CASE Fill(p)
  BY <1>12 DEF Fill
<1>13. CASE Listen(p)
  BY <1>13 DEF Listen
<1>14. CASE Cleanup(p)
  BY <1>14 DEF Cleanup
<1>15. CASE CleanupUnlink(p)
  BY <1>15 DEF CleanupUnlink
<1> QED BY <1>1, <1>2, <1>3, <1>4, <1>5, <1>6, <1>7, <1>8, <1>9, <1>10, <1>11, <1>12, <1>13, <1>14, <1>15 DEF Moves

\* Every step keeps the types.
LEMMA StepTypes ==
  ASSUME TypeOK, NEW p \in Processes, Step(p), Noted, UNCHANGED service
  PROVE  TypeOK'
<1>1. disturbed' \in BOOLEAN
  BY DEF Noted, TypeOK
<1>2. CASE Moves(p) /\ UNCHANGED reused
  <2>1. pc' \in [Processes -> Places]
    BY <1>2, MovePlaces
  <2>2. pidFile' \in Processes \cup {"absent", "invalid"}
    BY <1>2 DEF TypeOK, Moves, Start, Stop, Crash, Look, Read, Probe, ProbePort, Remove, AskPort, Wait, Open, Fill,
       Listen, Cleanup, CleanupUnlink, Unlink
  <2>3. port' \in Processes \cup {NoPid}
    BY <1>2 DEF TypeOK, Moves, Start, Stop, Crash, Look, Read, Probe, ProbePort, Remove, AskPort, Wait, Open, Fill,
       Listen, Cleanup, CleanupUnlink, Freed
  <2>4. saved' \in [Processes -> Processes \cup {NoPid}]
    <3>1. saved' = saved \/ Read(p) \/ AskPort(p)
      BY <1>2 DEF Moves, Start, Stop, Crash, Look, Probe, ProbePort, Remove, Wait, Open, Fill,
         Listen, Cleanup, CleanupUnlink
    <3> QED BY <3>1 DEF TypeOK, Read, AskPort
  <2> QED BY <1>1, <1>2, <2>1, <2>2, <2>3, <2>4 DEF TypeOK
<1>3. CASE Kill(p)
  <2>1. "wait" \in Places /\ "dead" \in Places /\ "refused" \in Places
    BY DEF Places, Probing, Gone
  <2>2. pc' \in [Processes -> Places]
    BY <1>3, <2>1 DEF TypeOK, Kill, Goto
  <2> QED BY <1>1, <1>3, <2>2 DEF TypeOK, Kill
<1>4. CASE Reuse(p)
  BY <1>1, <1>4 DEF TypeOK, Reuse
<1>5. CASE Release(p)
  BY <1>1, <1>5 DEF TypeOK, Release
<1> QED BY <1>2, <1>3, <1>4, <1>5, StepMoves

\* Every step keeps it that who has the port has got past Listen.
LEMMA PortedKept ==
  ASSUME TypeOK, Ported, NEW p \in Processes, Step(p), UNCHANGED service
  PROVE  Ported'
<1>1. NoPid \notin Processes /\ port \in Processes \cup {NoPid} /\ pc \in [Processes -> Places]
  BY ProcessesAssumption DEF TypeOK
<1>2. CASE Moves(p)
  <2>1. CASE Start(p)
    BY <1>1, AfterFilePlace, <2>1 DEF TypeOK, Ported, Exiting, Locked, Running, Gone, Holds, Start, Goto
  <2>2. CASE Stop(p)
    BY <1>1, AfterFilePlace, <2>2 DEF TypeOK, Ported, Exiting, Locked, Running, Gone, Holds, Stop, Goto
  <2>3. CASE Crash(p)
    BY <1>1, AfterFilePlace, <2>3 DEF TypeOK, Ported, Exiting, Locked, Running, Gone, Holds, Crash, Goto, Freed
  <2>4. CASE Look(p)
    BY <1>1, AfterFilePlace, <2>4 DEF TypeOK, Ported, Exiting, Locked, Running, Gone, Holds, Look, Goto
  <2>5. CASE Read(p)
    BY <1>1, AfterFilePlace, <2>5 DEF TypeOK, Ported, Exiting, Locked, Running, Gone, Holds, Read, Goto
  <2>6. CASE Probe(p)
    BY <1>1, AfterFilePlace, <2>6 DEF TypeOK, Ported, Exiting, Locked, Running, Gone, Holds, Probe, Goto
  <2>7. CASE ProbePort(p)
    BY <1>1, AfterFilePlace, <2>7 DEF TypeOK, Ported, Exiting, Locked, Running, Gone, Holds, ProbePort, Goto
  <2>8. CASE Remove(p)
    BY <1>1, AfterFilePlace, <2>8 DEF TypeOK, Ported, Exiting, Locked, Running, Gone, Holds, Remove,
       Goto, Unlink, Unlinked
  <2>9. CASE AskPort(p)
    BY <1>1, AfterFilePlace, <2>9 DEF TypeOK, Ported, Exiting, Locked, Running, Gone, Holds, AskPort, Goto
  <2>10. CASE Wait(p)
    BY <1>1, AfterFilePlace, <2>10 DEF TypeOK, Ported, Exiting, Locked, Running, Gone, Holds, Wait, Goto
  <2>11. CASE Open(p)
    BY <1>1, AfterFilePlace, <2>11 DEF TypeOK, Ported, Exiting, Locked, Running, Gone, Holds, Open, Goto
  <2>12. CASE Fill(p)
    BY <1>1, AfterFilePlace, <2>12 DEF TypeOK, Ported, Exiting, Locked, Running, Gone, Holds, Fill, Goto
  <2>13. CASE Listen(p)
    BY <1>1, AfterFilePlace, <2>13 DEF TypeOK, Ported, Exiting, Locked, Running, Gone, Holds, Listen, Goto
  <2>14. CASE Cleanup(p)
    BY <1>1, AfterFilePlace, <2>14 DEF TypeOK, Ported, Exiting, Locked, Running, Gone, Holds, Cleanup, Goto, Freed
  <2>15. CASE CleanupUnlink(p)
    BY <1>1, AfterFilePlace, <2>15 DEF TypeOK, Ported, Exiting, Locked, Running, Gone, Holds, CleanupUnlink,
       Freed, Unlink, Unlinked
  <2> QED BY <1>2, <2>1, <2>2, <2>3, <2>4, <2>5, <2>6, <2>7, <2>8,
          <2>9, <2>10, <2>11, <2>12, <2>13, <2>14, <2>15 DEF Moves
<1>3. CASE Kill(p)
  BY <1>1, <1>3 DEF Kill, Goto, Ported, Exiting, TypeOK
<1>4. CASE Reuse(p)
  BY <1>4 DEF Reuse, Ported
<1>5. CASE Release(p)
  BY <1>5 DEF Release, Ported
<1> QED BY <1>2, <1>3, <1>4, <1>5, StepMoves

\* Every step keeps it that the PID in the file is of one that wrote it.
LEMMA WrittenKept ==
  ASSUME TypeOK, Written, NEW p \in Processes, Step(p), UNCHANGED service
  PROVE  Written'
<1>1. /\ pc \in [Processes -> Places] /\ "absent" \notin Processes /\ "invalid" \notin Processes
      /\ \A q \in Processes : pc[q] \in Locked \cup Exiting \cup Gone => Unlinked(pc[q]) = pc[q]
  BY ProcessesAssumption DEF TypeOK, Unlinked, Locked, Exiting, Gone
<1>2. CASE Moves(p)
  <2>1. CASE Start(p)
    BY <1>1, AfterFilePlace, <2>1 DEF Written, Exiting, Locked, Running, Gone, Holds, Start, Goto
  <2>2. CASE Stop(p)
    BY <1>1, AfterFilePlace, <2>2 DEF Written, Exiting, Locked, Running, Gone, Holds, Stop, Goto
  <2>3. CASE Crash(p)
    BY <1>1, AfterFilePlace, <2>3 DEF Written, Exiting, Locked, Running, Gone, Holds, Crash, Goto, Freed
  <2>4. CASE Look(p)
    BY <1>1, AfterFilePlace, <2>4 DEF Written, Exiting, Locked, Running, Gone, Holds, Look, Goto
  <2>5. CASE Read(p)
    BY <1>1, AfterFilePlace, <2>5 DEF Written, Exiting, Locked, Running, Gone, Holds, Read, Goto
  <2>6. CASE Probe(p)
    BY <1>1, AfterFilePlace, <2>6 DEF Written, Exiting, Locked, Running, Gone, Holds, Probe, Goto
  <2>7. CASE ProbePort(p)
    BY <1>1, AfterFilePlace, <2>7 DEF Written, Exiting, Locked, Running, Gone, Holds, ProbePort, Goto
  <2>8. CASE Remove(p)
    BY <1>1, AfterFilePlace, <2>8 DEF Written, Exiting, Locked, Running, Gone, Holds, Remove, Goto, Unlink
  <2>9. CASE AskPort(p)
    BY <1>1, AfterFilePlace, <2>9 DEF Written, Exiting, Locked, Running, Gone, Holds, AskPort, Goto
  <2>10. CASE Wait(p)
    BY <1>1, AfterFilePlace, <2>10 DEF Written, Exiting, Locked, Running, Gone, Holds, Wait, Goto
  <2>11. CASE Open(p)
    BY <1>1, AfterFilePlace, <2>11 DEF Written, Exiting, Locked, Running, Gone, Holds, Open, Goto
  <2>12. CASE Fill(p)
    BY <1>1, AfterFilePlace, <2>12 DEF Written, Exiting, Locked, Running, Gone, Holds, Fill, Goto
  <2>13. CASE Listen(p)
    BY <1>1, AfterFilePlace, <2>13 DEF Written, Exiting, Locked, Running, Gone, Holds, Listen, Goto
  <2>14. CASE Cleanup(p)
    BY <1>1, AfterFilePlace, <2>14 DEF Written, Exiting, Locked, Running, Gone, Holds, Cleanup, Goto, Freed
  <2>15. CASE CleanupUnlink(p)
    BY <1>1, AfterFilePlace, <2>15 DEF Written, Exiting, Locked, Running, Gone, Holds, CleanupUnlink, Freed, Unlink
  <2> QED BY <1>2, <2>1, <2>2, <2>3, <2>4, <2>5, <2>6, <2>7, <2>8,
          <2>9, <2>10, <2>11, <2>12, <2>13, <2>14, <2>15 DEF Moves
<1>3. CASE Kill(p)
  BY <1>1, <1>3 DEF Kill, Goto, Written, Exiting, Locked, Gone
<1>4. CASE Reuse(p)
  BY <1>4 DEF Reuse, Written
<1>5. CASE Release(p)
  BY <1>5 DEF Release, Written
<1> QED BY <1>2, <1>3, <1>4, <1>5, StepMoves

-----------------------------------------------------------------------------
(* Undisturbed starts and stops                                            *)

\* When a move disturbs nobody, the other processes rest.
LEMMA OthersRest ==
  ASSUME TypeOK, Ported, Settled, NEW p \in Processes, Moves(p), Noted, ~disturbed'
  PROVE  \A q \in Processes \ {p} : pc'[q] = pc[q] /\ pc[q] \in {"off", "serving", "refused", "dead"}
<1> TAKE q \in Processes \ {p}
<1>1. pc'[p] # pc[p] /\ (pc'[q] = pc[q] \/ (pc[p] \in {"remove", "unlink"} /\ pc'[q] = Unlinked(pc[q])))
  BY MovePlaces
<1>2. ~Busy(q) /\ pc'[q] = pc[q]
  <2>1. CASE pc'[q] = pc[q]
    BY <1>1, <2>1 DEF Noted
  <2>2. CASE pc[p] \in {"remove", "unlink"} /\ pc'[q] = Unlinked(pc[q])
    <3>1. Busy(p) /\ ~Busy(q)
      BY <2>2 DEF Settled, Busy, Probing, Exiting
    <3>2. pc[q] # "fill"
      BY <3>1 DEF Busy, Writing
    <3> QED BY <2>2, <3>1, <3>2 DEF Unlinked
  <2> QED BY <1>1, <2>1, <2>2
<1>3. pc[q] \in Places /\ (pc[q] = "locked" => service.port)
  BY DEF TypeOK, Ported
<1> QED BY <1>2, <1>3 DEF Busy, Places, Locked, Gone

\* What a move does to what its process knows, to the port and to an instance.
LEMMA MoveKnows ==
  ASSUME TypeOK, Ported, Written, Settled, NEW p \in Processes, Moves(p), Noted, UNCHANGED service, ~disturbed'
  PROVE  /\ Knows(p)'
         /\ port' # NoPid => pidFile' = port'
         /\ \A q \in Processes \ {p} : pc[q] = "serving" => pidFile' = q /\ (service.port => port' = q)
<1>0. /\ {NoPid, "absent", "invalid"} \cap Processes = {} /\ port \in Processes \cup {NoPid}
      /\ pc \in [Processes -> Places] /\ saved \in [Processes -> Processes \cup {NoPid}]
  BY ProcessesAssumption DEF TypeOK
<1>1. \A q \in Processes \ {p} : pc'[q] = pc[q] /\ pc[q] \in {"off", "serving", "refused", "dead"}
  BY OthersRest
<1>2. /\ Knows(p) /\ (port # NoPid => pidFile = port)
      /\ \A q \in Processes \ {p} : pc[q] = "serving" => pidFile = q /\ (service.port => port = q)
      /\ pc[p] \in {"probePort", "askPort", "locked"} => service.port
      /\ port # NoPid => service.port /\ pc[port] \in {"serving"} \cup Exiting
  BY DEF Settled, Knows, Holds, Locked, Ported
<1>3. CASE Start(p)
  BY <1>0, <1>1, <1>2, AfterFilePlace, <1>3 DEF Knows, Holds, Locked, Exiting, Start, Goto
<1>4. CASE Stop(p)
  BY <1>0, <1>1, <1>2, AfterFilePlace, <1>4 DEF Knows, Holds, Locked, Exiting, Stop, Goto
<1>5. CASE Crash(p)
  BY <1>0, <1>1, <1>2, AfterFilePlace, <1>5 DEF Knows, Holds, Locked, Exiting, Crash, Goto, Freed
<1>6. CASE Look(p)
  BY <1>0, <1>1, <1>2, AfterFilePlace, <1>6 DEF Knows, Holds, Locked, Exiting, Look, Goto
<1>7. CASE Read(p)
  BY <1>0, <1>1, <1>2, AfterFilePlace, <1>7 DEF Knows, Holds, Locked, Exiting, Read, Goto
<1>8. CASE Probe(p)
  <2>1. /\ pc[p] = "probe" /\ pidFile = saved[p] /\ saved[p] \in Processes
        /\ pidFile' = pidFile /\ saved' = saved /\ port' = port
        /\ pc'[p] = IF ~Alive(saved[p]) THEN "remove" ELSE IF service.port THEN "probePort" ELSE "refused"
    BY <1>0, <1>2, <1>8 DEF Knows, Probe, Goto
  <2>2. CASE Alive(saved[p])
    BY <1>2, <2>1, <2>2 DEF Knows, Holds, Locked
  <2>3. CASE ~Alive(saved[p])
    <3>1. port = NoPid /\ \A q \in Processes \ {p} : pc[q] # "serving"
      BY <1>2, <2>1, <2>3 DEF Alive, Running, Exiting, Gone
    <3>2. pidFile # "absent"
      BY <1>0, <2>1
    <3> QED BY <1>0, <1>1, <1>2, <2>1, <2>3, <3>1, <3>2 DEF Knows, Holds, Locked
  <2> QED BY <2>2, <2>3
<1>9. CASE ProbePort(p)
  BY <1>0, <1>1, <1>2, AfterFilePlace, <1>9 DEF Knows, Holds, Locked, Exiting, ProbePort, Goto
<1>10. CASE Remove(p)
  BY <1>0, <1>1, <1>2, AfterFilePlace, <1>10 DEF Knows, Holds, Locked, Exiting, Remove, Goto, Unlink
<1>11. CASE AskPort(p)
  BY <1>0, <1>1, <1>2, AfterFilePlace, <1>11 DEF Knows, Holds, Locked, Exiting, AskPort, Goto
<1>12. CASE Wait(p)
  BY <1>0, <1>1, <1>2, AfterFilePlace, <1>12 DEF Knows, Holds, Locked, Exiting, Wait, Goto
<1>13. CASE Open(p)
  BY <1>0, <1>1, <1>2, AfterFilePlace, <1>13 DEF Knows, Holds, Locked, Exiting, Open, Goto
<1>14. CASE Fill(p)
  BY <1>0, <1>1, <1>2, AfterFilePlace, <1>14 DEF Knows, Holds, Locked, Exiting, Fill, Goto
<1>15. CASE Listen(p)
  BY <1>0, <1>1, <1>2, AfterFilePlace, <1>15 DEF Knows, Holds, Locked, Exiting, Listen, Goto
<1>16. CASE Cleanup(p)
  BY <1>0, <1>1, <1>2, AfterFilePlace, <1>16 DEF Knows, Holds, Locked, Exiting, Cleanup, Goto, Freed
<1>17. CASE CleanupUnlink(p)
  BY <1>0, <1>1, <1>2, AfterFilePlace, <1>17 DEF Knows, Holds, Locked, Exiting, CleanupUnlink, Freed, Unlink
<1> QED BY <1>3, <1>4, <1>5, <1>6, <1>7, <1>8, <1>9, <1>10, <1>11,
        <1>12, <1>13, <1>14, <1>15, <1>16, <1>17 DEF Moves

\* A step that is no disturbance keeps what undisturbed processes know.
LEMMA SettledKept ==
  ASSUME TypeOK, Ported, Written, Settled, NEW p \in Processes, Step(p), Noted, UNCHANGED service, ~disturbed'
  PROVE  Settled'
<1>1. CASE Moves(p)
  <2>1. \A q \in Processes \ {p} : pc'[q] = pc[q] /\ pc[q] \in {"off", "serving", "refused", "dead"}
    BY <1>1, OthersRest
  <2>2. /\ Knows(p)' /\ (port' # NoPid => pidFile' = port')
        /\ \A q \in Processes \ {p} : pc[q] = "serving" => pidFile' = q /\ (service.port => port' = q)
    BY <1>1, MoveKnows
  <2>3. \A q \in Processes \ {p} : ~Busy(q)'
    BY <2>1 DEF Busy, Probing, Writing, Exiting
  <2>4. \A q \in Processes \ {p} : Knows(q)'
    BY <2>1, <2>2 DEF Knows, Holds, Locked
  <2> QED BY <2>2, <2>3, <2>4 DEF Settled
<1>2. ~Kill(p)
  BY DEF Kill, Settled, Knows
<1>3. CASE Reuse(p) \/ Release(p)
  BY <1>3 DEF Reuse, Release, Settled, Busy, Knows, Holds
<1> QED BY <1>1, <1>2, <1>3, StepMoves

\* The invariant is inductive.
LEMMA Inductive == Spec => []IInv
<1>1. Init => IInv
  BY ProcessesAssumption DEF Init, IInv, TypeOK, Ported, Written, Settled, Knows, Holds, Busy, Places, Probing, Writing,
     Locked, Exiting, Gone
<1>2. IInv /\ [Next]_vars => IInv'
  <2> SUFFICES ASSUME IInv, [Next]_vars PROVE IInv'
    OBVIOUS
  <2>1. CASE Next
    <3>1. PICK p \in Processes : Step(p)
      BY <2>1 DEF Next
    <3>2. Noted /\ UNCHANGED service
      BY <2>1 DEF Next
    <3>3. TypeOK' /\ Ported' /\ Written'
      BY <3>1, <3>2, StepTypes, PortedKept, WrittenKept DEF IInv
    <3>4. ~disturbed' => ~disturbed
      BY <3>2 DEF Noted
    <3> QED BY <3>1, <3>2, <3>3, <3>4, SettledKept DEF IInv
  <2>2. CASE UNCHANGED vars
    BY <2>2 DEF vars, IInv, TypeOK, Ported, Written, Settled, Knows, Holds, Busy
  <2> QED BY <2>1, <2>2
<1> QED BY <1>1, <1>2, PTL DEF Spec

-----------------------------------------------------------------------------
(* The theorems                                                            *)

\* The variables of the startup guard have their types.
THEOREM TypeCorrect == Spec => []TypeOK
<1>1. IInv => TypeOK
  BY DEF IInv
<1> QED BY <1>1, Inductive, PTL

\* When no two starts or stops overlap, whoever believes it holds the lock is the only
\* one and the PID file names it, through crashes, stale files and PIDs used again.
THEOREM OneHolder == Spec => []OneInstance
<1>1. IInv => OneInstance
  BY DEF IInv, Settled, Knows, OneInstance
<1> QED BY <1>1, Inductive, PTL

\* What dead processes left behind never keeps a service from starting: a process
\* refused without a disturbance has a living one, or a program with its PID, before it.
THEOREM RefusedRightly == Spec => RefusedForCause
<1> DEFINE Cause == \A p \in Processes : pc[p] # "refused" /\ pc'[p] = "refused" /\ ~disturbed' =>
                      \E q \in Processes \ {p} : IF service.port THEN Running(q) ELSE Alive(q)
<1>1. ASSUME IInv, Next PROVE Cause
  <2> SUFFICES ASSUME NEW p \in Processes, pc[p] # "refused", pc'[p] = "refused", ~disturbed'
               PROVE  \E q \in Processes \ {p} : IF service.port THEN Running(q) ELSE Alive(q)
    OBVIOUS
  <2>1. PICK r \in Processes : Step(r)
    BY <1>1 DEF Next
  <2>2. Noted /\ UNCHANGED service /\ TypeOK /\ Ported /\ Written /\ Settled
    BY <1>1 DEF Next, Noted, IInv
  <2>3. Moves(r)
    BY <2>1, <2>2, StepMoves DEF Kill, Settled, Knows, Reuse, Release
  <2>4. p = r
    BY <2>2, <2>3, OthersRest
  <2>5. Knows(p) /\ NoPid \notin Processes /\ pc \in [Processes -> Places]
    BY <2>2, ProcessesAssumption DEF Settled, TypeOK
  <2>6. pc[p] \in {"probe", "probePort"}
    BY <2>3, <2>4, <2>5, AfterFilePlace DEF Knows, Moves, Goto, Start, Stop, Crash, Look, Read, Probe, ProbePort, Remove,
       AskPort, Wait, Open, Fill, Listen, Cleanup, CleanupUnlink
  <2>7. saved[p] \in Processes /\ saved[p] = pidFile /\ saved[p] # p
    BY <2>2, <2>5, <2>6 DEF Knows, Written, Locked, Exiting, Gone
  <2>8. CASE pc[p] = "probe"
    <3>1. Alive(saved[p]) /\ ~service.port
      BY <2>3, <2>4, <2>5, <2>8 DEF Moves, Goto, Start, Stop, Crash, Look, Read, Probe, ProbePort, Remove, AskPort,
         Wait, Open, Fill, Listen, Cleanup, CleanupUnlink, Running, Holds, Locked
    <3> QED BY <2>7, <3>1
  <2>9. CASE pc[p] = "probePort"
    <3>1. port # NoPid
      BY <2>3, <2>4, <2>5, <2>9 DEF Moves, Goto, Start, Stop, Crash, Look, Read, Probe, ProbePort, Remove, AskPort,
         Wait, Open, Fill, Listen, Cleanup, CleanupUnlink, Running, Holds, Locked
    <3>2. port \in Processes /\ port # p /\ service.port /\ Running(port)
      BY <2>2, <2>9, <3>1 DEF TypeOK, Ported, Running, Exiting, Gone
    <3> QED BY <3>2
  <2> QED BY <2>6, <2>8, <2>9
<1>2. IInv /\ [Next]_vars => [Cause]_vars
  BY <1>1
<1> QED BY <1>2, Inductive, PTL DEF Spec, RefusedForCause
=============================================================================
