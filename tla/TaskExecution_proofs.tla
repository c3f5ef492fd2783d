------------------------ MODULE TaskExecution_proofs ------------------------
(***************************************************************************)
(* Theorems about TaskExecution, for every number of retries, every set of *)
(* errors and every sequence of connections.                               *)
(***************************************************************************)
EXTENDS TaskExecution, TLAPS

\* Clients are used one after the other.
ClientsInv == \A c \in Clients :
  clients[c] # "none" => \A d \in Clients : d < c => clients[d] = "closed"

\* The task is in at most one place: on its way, in a handler, in a timer.
OnePlace ==
  /\ \A e, f \in mail : e = f
  /\ mail # {} => run = NoEnvelope /\ timer = NoEnvelope
  /\ run # NoEnvelope => timer = NoEnvelope

\* Where it is, it carries the number of executions so far.
Counted ==
  /\ \A e \in mail : executions = e.attempt /\ e.attempt <= MaxRetries
  /\ timer # NoEnvelope => executions = timer.attempt /\ timer.attempt <= MaxRetries
  /\ run # NoEnvelope => executions = run.attempt + 1 /\ run.attempt <= MaxRetries

\* Nothing happens before the task is sent.
Unsent == ~sent =>
  /\ mail = {} /\ run = NoEnvelope /\ timer = NoEnvelope
  /\ executions = 0 /\ lease = "free" /\ ~done /\ escalated = 0

\* After an escalation nothing is under way.
Escalation == escalated = 1 => run = NoEnvelope /\ timer = NoEnvelope /\ mail = {}

Properties == BoundedExecutions /\ DoneNotRetried /\ EscalatedOnce /\ RetryCanClaim
IInv == TypeOK /\ ClientsInv /\ OnePlace /\ Counted /\ Unsent /\ Escalation /\ Properties

-----------------------------------------------------------------------------
(* The pieces of the handler *)

\* No envelope is the absence of one.
LEMMA NotAnEnvelope == NoEnvelope \notin Envelopes
  BY DEF NoEnvelope, Envelopes

\* A retry carries the next attempt through the same client.
LEMMA RetryType ==
  ASSUME NEW e \in Envelopes
  PROVE  /\ RetryOf(e) \in Envelopes
         /\ RetryOf(e).attempt = e.attempt + 1
         /\ RetryOf(e).client = e.client
  BY DEF RetryOf, Envelopes

\* What crew-lead hears stays within the kinds of messages there are.
LEMMA TellType ==
  ASSUME TypeOK, NEW e \in Envelopes,
         NEW what \in {"in_progress", "retrying", "done", "failed"}, Tell(e, what)
  PROVE  told' \in SUBSET {"in_progress", "retrying", "done", "failed"}
  BY DEF TypeOK, Tell

\* The end of a failed attempt: what it leaves in every variable.
LEMMA CatchEffect ==
  ASSUME IInv, run # NoEnvelope, NEW err \in Errors, CatchFinally(err)
  PROVE  /\ run' = NoEnvelope
         /\ dlq' \in BOOLEAN /\ (dlq => dlq')
         /\ told' \in SUBSET {"in_progress", "retrying", "done", "failed"}
         /\ lease' \in {"free", "held"}
         /\ \/ timer' = NoEnvelope /\ escalated' = escalated
            \/ /\ timer' = NoEnvelope /\ escalated' = escalated + 1
               /\ dlq' /\ clients[run.client] = "open"
            \/ /\ timer' = RetryOf(run) /\ run.attempt < MaxRetries
               /\ escalated' = escalated /\ lease' = "free" /\ err.retryable
<1>1. run \in Envelopes /\ timer = NoEnvelope
  BY DEF IInv, TypeOK, OnePlace
<1>2. run.attempt \in Nat
  BY <1>1 DEF Envelopes
<1>3. dlq' \in BOOLEAN /\ (dlq => dlq')
  BY <1>2, RetriesAssumption DEF CatchFinally, DeadLettered, GivesUp, Errors, IInv, TypeOK
<1>4. CASE clients[run.client] = "closing"
  BY <1>1, <1>3, <1>4 DEF CatchFinally, IInv, TypeOK
<1>5. CASE clients[run.client] # "closing" /\ Retried(err, run.attempt)
  BY <1>1, <1>3, <1>5, TellType DEF CatchFinally, ScheduleRetry, Retried, IInv
<1>6. CASE clients[run.client] # "closing" /\ ~Retried(err, run.attempt)
  <2>1. ReportFailure /\ run' = NoEnvelope
    BY <1>6 DEF CatchFinally
  <2>2. told' \in SUBSET {"in_progress", "retrying", "done", "failed"}
    BY <2>1, <1>1, TellType DEF ReportFailure, IInv
  <2>3. escalated' = escalated
        \/ (escalated' = escalated + 1 /\ dlq' /\ clients[run.client] = "open")
    BY <2>1 DEF ReportFailure, CatchFinally, DeadLettered
  <2> QED BY <1>1, <1>3, <2>1, <2>2, <2>3 DEF ReportFailure
<1> QED BY <1>4, <1>5, <1>6

-----------------------------------------------------------------------------
(* One lemma per group of actions *)

\* Sending the task: at most one client is open.
LEMMA SendKeeps == ASSUME IInv, Send PROVE IInv'
<1> USE DEF IInv
<1>1. \A c, d \in Clients : clients[c] = "open" /\ clients[d] = "open" => c = d
  BY AgentAssumption DEF ClientsInv, Clients, TypeOK
<1>2. mail' \in SUBSET Envelopes
  BY DEF Send, Envelopes
<1>3. \A e, f \in mail' : e = f
  BY <1>1 DEF Send
<1>4. \A e \in mail' : e.attempt = 0
  BY DEF Send
<1>5. ~sent /\ run = NoEnvelope /\ timer = NoEnvelope /\ executions = 0 /\ lease = "free"
      /\ ~done /\ escalated = 0
  BY DEF Send, Unsent
<1> QED BY <1>2, <1>3, <1>4, <1>5, RetriesAssumption
        DEF Send, TypeOK, ClientsInv, OnePlace, Counted, Unsent, Escalation,
            Properties, BoundedExecutions, DoneNotRetried, EscalatedOnce, RetryCanClaim

\* The connection comes and goes: envelopes are only lost.
LEMMA LinkKeeps ==
  ASSUME IInv, NEW c \in Clients, BeginClose(c) \/ Close(c) \/ Connect(c) \/ Crash(c)
  PROVE  IInv'
<1> USE DEF IInv
<1>1. ClientsInv' /\ clients' \in [Clients -> ClientStates]
  <2>1. CASE BeginClose(c)
    BY <2>1, AgentAssumption DEF BeginClose, ClientsInv, TypeOK, ClientStates, Clients
  <2>2. CASE Close(c)
    BY <2>2, AgentAssumption DEF Close, ClientsInv, TypeOK, ClientStates, Clients
  <2>3. CASE Connect(c)
    BY <2>3, AgentAssumption DEF Connect, ClientsInv, TypeOK, ClientStates, Clients
  <2>4. CASE Crash(c)
    BY <2>4, AgentAssumption DEF Crash, ClientsInv, TypeOK, ClientStates, Clients
  <2> QED BY <2>1, <2>2, <2>3, <2>4
<1>2. /\ mail' \subseteq mail
      /\ UNCHANGED <<sent, lease, done, dlq, escalated, told, executions>>
      /\ UNCHANGED <<run, timer>> \/ (run' = NoEnvelope /\ timer' = NoEnvelope)
  BY DEF BeginClose, Close, Connect, Crash
<1>3. TypeOK'
  BY <1>1, <1>2 DEF TypeOK
<1> QED BY <1>1, <1>2, <1>3
        DEF OnePlace, Counted, Unsent, Escalation,
            Properties, BoundedExecutions, DoneNotRetried, EscalatedOnce, RetryCanClaim

\* An envelope becomes a handler.
LEMMA DeliverKeeps == ASSUME IInv, NEW e \in mail, Deliver(e) PROVE IInv'
<1> USE DEF IInv
<1>1. e \in Envelopes /\ e # NoEnvelope /\ e.attempt \in Nat
  BY NotAnEnvelope DEF TypeOK, Envelopes
<1>2. mail' = {} /\ ~done /\ lease = "free" /\ run = NoEnvelope /\ timer = NoEnvelope
  BY DEF Deliver, OnePlace, Properties, DoneNotRetried, RetryCanClaim
<1>3. /\ run' = e /\ lease' = "held" /\ executions' = executions + 1
      /\ Tell(e, "in_progress")
      /\ UNCHANGED <<sent, clients, timer, done, dlq, escalated>>
  BY <1>2 DEF Deliver
<1>4. TypeOK'
  BY <1>1, <1>2, <1>3, TellType DEF TypeOK
<1>5. executions = e.attempt /\ e.attempt <= MaxRetries /\ sent /\ escalated # 1
  BY DEF Counted, Unsent, Escalation
<1> QED BY <1>1, <1>2, <1>3, <1>4, <1>5, RetriesAssumption
        DEF ClientsInv, OnePlace, Counted, Unsent, Escalation,
            Properties, BoundedExecutions, DoneNotRetried, EscalatedOnce, RetryCanClaim, TypeOK

\* A failed attempt ends or leaves one retry.
LEMMA FailKeeps == ASSUME IInv, NEW err \in Failures, Fail(err) PROVE IInv'
<1> USE DEF IInv
<1>1. err \in Errors /\ run # NoEnvelope /\ CatchFinally(err)
      /\ UNCHANGED <<sent, mail, clients, done, executions>>
  BY FailuresAssumption DEF Fail
<1>2. /\ run \in Envelopes /\ run.attempt \in Nat /\ mail = {} /\ timer = NoEnvelope
      /\ ~done /\ sent /\ escalated = 0
      /\ executions = run.attempt + 1 /\ run.attempt <= MaxRetries
  BY <1>1 DEF TypeOK, Envelopes, OnePlace, Counted, Unsent, Escalation, Properties,
              DoneNotRetried, EscalatedOnce
<1>3. RetryOf(run) \in Envelopes /\ RetryOf(run).attempt = run.attempt + 1
      /\ RetryOf(run) # NoEnvelope
  BY <1>2, RetryType, NotAnEnvelope
<1>4. TypeOK'
  BY <1>1, <1>2, <1>3, CatchEffect DEF TypeOK
<1> QED BY <1>1, <1>2, <1>3, <1>4, CatchEffect, RetriesAssumption
        DEF ClientsInv, OnePlace, Counted, Unsent, Escalation,
            Properties, BoundedExecutions, DoneNotRetried, EscalatedOnce, RetryCanClaim

\* A finished attempt leaves nothing under way, with the socket open or not.
LEMMA SucceedKeeps == ASSUME IInv, Succeed PROVE IInv'
<1> USE DEF IInv
<1>1. /\ run \in Envelopes /\ run # NoEnvelope /\ mail = {} /\ timer = NoEnvelope
      /\ sent /\ escalated = 0
  BY DEF Succeed, TypeOK, OnePlace, Unsent, Escalation, Properties, EscalatedOnce
<1>2. SocketError \in Errors /\ ~SocketError.retryable
  BY DEF SocketError, Errors
<1>3. /\ run' = NoEnvelope /\ timer' = NoEnvelope /\ escalated' = 0
      /\ dlq' \in BOOLEAN /\ lease' \in {"free", "held"}
      /\ told' \in SUBSET {"in_progress", "retrying", "done", "failed"}
  <2>1. CASE clients[run.client] = "open"
    <3>1. Tell(run, "done") /\ run' = NoEnvelope /\ lease' = "free"
          /\ UNCHANGED <<timer, dlq, escalated>>
      BY <2>1 DEF Succeed
    <3> QED BY <3>1, <1>1, TellType DEF TypeOK
  <2>2. CASE clients[run.client] # "open"
    <3>1. CatchFinally(SocketError)
      BY <2>2 DEF Succeed
    <3> QED BY <3>1, <2>2, <1>1, <1>2, CatchEffect
  <2> QED BY <2>1, <2>2
<1>4. done' = TRUE /\ UNCHANGED <<sent, mail, clients, executions>>
  BY DEF Succeed
<1> QED BY <1>1, <1>3, <1>4
        DEF TypeOK, ClientsInv, OnePlace, Counted, Unsent, Escalation,
            Properties, BoundedExecutions, DoneNotRetried, EscalatedOnce, RetryCanClaim

\* The timer becomes an envelope or is lost.
LEMMA RetryKeeps == ASSUME IInv, FireRetry PROVE IInv'
<1> USE DEF IInv
<1>1. timer \in Envelopes /\ mail = {} /\ run = NoEnvelope /\ timer' = NoEnvelope
  BY DEF FireRetry, TypeOK, OnePlace
<1>2. mail' = {} \/ mail' = {timer}
  BY <1>1 DEF FireRetry
<1>3. UNCHANGED <<sent, clients, run, lease, done, dlq, escalated, told, executions>>
      /\ timer # NoEnvelope
  BY DEF FireRetry
<1> QED BY <1>1, <1>2, <1>3
        DEF TypeOK, ClientsInv, OnePlace, Counted, Unsent, Escalation,
            Properties, BoundedExecutions, DoneNotRetried, EscalatedOnce, RetryCanClaim

-----------------------------------------------------------------------------
(* The theorems *)

\* IInv is an inductive invariant.
LEMMA Inductive == Spec => []IInv
<1>1. Init => IInv
  <2> SUFFICES ASSUME Init PROVE IInv
    OBVIOUS
  <2>1. TypeOK
    BY DEF Init, TypeOK, ClientStates
  <2>2. ClientsInv
    BY DEF Init, ClientsInv, Clients
  <2>3. OnePlace /\ Counted /\ Unsent /\ Escalation
    BY DEF Init, OnePlace, Counted, Unsent, Escalation
  <2>4. Properties
    BY RetriesAssumption
       DEF Init, Properties, BoundedExecutions, DoneNotRetried, EscalatedOnce, RetryCanClaim
  <2> QED BY <2>1, <2>2, <2>3, <2>4 DEF IInv
<1>2. IInv /\ [Next]_vars => IInv'
  <2> SUFFICES ASSUME IInv, [Next]_vars PROVE IInv'
    OBVIOUS
  <2>1. CASE Send
    BY <2>1, SendKeeps
  <2>2. ASSUME NEW c \in Clients, BeginClose(c) \/ Close(c) \/ Connect(c) \/ Crash(c)
        PROVE  IInv'
    BY <2>2, LinkKeeps
  <2>3. ASSUME NEW e \in mail, Deliver(e) PROVE IInv'
    BY <2>3, DeliverKeeps
  <2>4. ASSUME NEW err \in Failures, Fail(err) PROVE IInv'
    BY <2>4, FailKeeps
  <2>5. CASE Succeed
    BY <2>5, SucceedKeeps
  <2>6. CASE FireRetry
    BY <2>6, RetryKeeps
  <2>7. CASE UNCHANGED vars
    BY <2>7 DEF vars, IInv, TypeOK, ClientsInv, OnePlace, Counted, Unsent, Escalation,
       Properties, BoundedExecutions, DoneNotRetried, EscalatedOnce, RetryCanClaim
  <2> QED BY <2>1, <2>2, <2>3, <2>4, <2>5, <2>6, <2>7 DEF Next
<1> QED BY <1>1, <1>2, PTL DEF Spec

\* Every variable of the handler keeps its type.
THEOREM TypeCorrect == Spec => []TypeOK
<1>1. IInv => TypeOK
  BY DEF IInv
<1> QED BY <1>1, Inductive, PTL

\* However errors, broken connections and crashes alternate, the engine runs the
\* task at most MaxRetries + 1 times (rt-envelope.mjs:1427-1512).
THEOREM ExecutionsBounded == Spec => []BoundedExecutions
<1>1. IInv => BoundedExecutions
  BY DEF IInv, Properties
<1> QED BY <1>1, Inductive, PTL

\* Once the done record is written nothing under way can run the task again.
THEOREM FinishedForGood == Spec => []DoneNotRetried
<1>1. IInv => DoneNotRetried
  BY DEF IInv, Properties
<1> QED BY <1>1, Inductive, PTL

\* crew-fixer is sent at most one task, for one that is in the DLQ and not done.
THEOREM EscalationOnce == Spec => []EscalatedOnce
<1>1. IInv => EscalatedOnce
  BY DEF IInv, Properties
<1> QED BY <1>1, Inductive, PTL

\* A retry is never turned away by the lease of the attempt before it.
THEOREM RetryClaims == Spec => []RetryCanClaim
<1>1. IInv => RetryCanClaim
  BY DEF IInv, Properties
<1> QED BY <1>1, Inductive, PTL

-----------------------------------------------------------------------------
(* The daemon implements BoundedTask: each handler's end is a step of it.  *)

\* What crew-lead, the connection and the timer do is none of its business.
LEMMA Elsewhere ==
  ASSUME IInv, UNCHANGED <<executions, run, done, escalated>>
  PROVE  UNCHANGED Promise!vars
BY DEF Promise!vars

\* A connection that takes the handler with it stops the attempt.
LEMMA LinkStep ==
  ASSUME IInv, NEW c \in Clients, BeginClose(c) \/ Close(c) \/ Connect(c) \/ Crash(c)
  PROVE  Promise!Next \/ UNCHANGED Promise!vars
<1>1. /\ UNCHANGED <<done, escalated, executions>>
      /\ run' = run \/ run' = NoEnvelope
  BY DEF BeginClose, Close, Connect, Crash
<1>2. CASE run' = run
  BY <1>1, <1>2, Elsewhere
<1>3. CASE run' = NoEnvelope /\ run # NoEnvelope
  BY <1>1, <1>3 DEF Promise!Next, Promise!Stop
<1> QED BY <1>1, <1>2, <1>3

\* An envelope that is taken up is the next attempt.
LEMMA DeliverStep ==
  ASSUME IInv, NEW e \in mail, Deliver(e)
  PROVE  Promise!Next
<1>1. /\ e \in Envelopes /\ e # NoEnvelope /\ e.attempt \in Nat
      /\ run = NoEnvelope /\ ~done /\ lease = "free" /\ executions = e.attempt /\ e.attempt <= MaxRetries
  BY NotAnEnvelope DEF IInv, TypeOK, Envelopes, OnePlace, Counted, Properties, DoneNotRetried, RetryCanClaim
<1>2. escalated = 0
  BY DEF IInv, TypeOK, Properties, EscalatedOnce, Escalation
<1>3. run' = e /\ executions' = executions + 1 /\ UNCHANGED <<done, escalated>>
  BY <1>1 DEF Deliver
<1>4. executions < MaxRetries + 1
  BY <1>1, RetriesAssumption
<1> QED BY <1>1, <1>2, <1>3, <1>4 DEF Promise!Next, Promise!Try

\* An attempt that fails stops, or hands the task over after the last one.
LEMMA FailStep ==
  ASSUME IInv, NEW err \in Failures, Fail(err)
  PROVE  Promise!Next
<1>1. /\ run # NoEnvelope /\ run \in Envelopes /\ run' = NoEnvelope /\ CatchFinally(err)
      /\ UNCHANGED <<done, executions>>
      /\ executions = run.attempt + 1 /\ run.attempt <= MaxRetries /\ run.attempt \in Nat
  BY DEF Fail, CatchFinally, IInv, TypeOK, Counted, Envelopes
<1>2. CASE escalated' = escalated
  BY <1>1, <1>2 DEF Promise!Next, Promise!Stop
<1>3. CASE escalated' # escalated
  <2>1. ReportFailure
    BY <1>1, <1>3 DEF CatchFinally, ScheduleRetry
  <2>2. GivesUp(run.attempt) /\ escalated' = escalated + 1
    BY <1>3, <2>1 DEF ReportFailure
  <2>3. executions = MaxRetries + 1
    BY <1>1, <2>2, RetriesAssumption DEF GivesUp
  <2> QED BY <1>1, <2>2, <2>3 DEF Promise!Next, Promise!HandOver
<1> QED BY <1>2, <1>3

\* A valid reply finishes the task; that the socket is gone changes nothing.
LEMMA SucceedStep ==
  ASSUME IInv, Succeed
  PROVE  Promise!Next
<1>1. run # NoEnvelope /\ done' = TRUE /\ UNCHANGED executions
  BY DEF Succeed
<1>2. run' = NoEnvelope /\ escalated' = escalated
  BY DEF Succeed, CatchFinally, ScheduleRetry, ReportFailure
<1> QED BY <1>1, <1>2 DEF Promise!Next, Promise!Finish

LEMMA PromiseStep ==
  IInv /\ [Next]_vars => [Promise!Next]_(Promise!vars)
<1> SUFFICES ASSUME IInv, [Next]_vars PROVE Promise!Next \/ UNCHANGED Promise!vars
  OBVIOUS
<1>1. CASE Send \/ FireRetry \/ UNCHANGED vars
  BY <1>1, Elsewhere DEF Send, FireRetry, vars
<1>2. CASE Next
  BY <1>1, <1>2, LinkStep, DeliverStep, FailStep, SucceedStep DEF Next
<1> QED BY <1>1, <1>2

\* The daemon keeps the promise of BoundedTask through every error, broken
\* connection and crash: one attempt at a time, within the limit, none after
\* the task is finished or escalated, and no escalation before the last one.
THEOREM ImplementsBoundedTask == Spec => KeepsPromise
<1>1. Init => Promise!Init
  BY DEF Init, Promise!Init
<1> QED BY <1>1, PromiseStep, Inductive, PTL DEF Spec, KeepsPromise, Promise!Spec

-----------------------------------------------------------------------------
(* What crew-lead does hear: the other side of the run that refutes        *)
(* ResultReachesLead.                                                      *)

\* While the first connection holds, crew-lead hears how the first attempt ended,
\* and that the task is finished if that attempt finished it.
FirstHeard == clients[1] = "open" =>
  /\ executions > 1 \/ (executions = 1 /\ run = NoEnvelope)
       => told \cap {"done", "failed", "retrying"} # {}
  /\ done /\ executions = 1 => "done" \in told

\* An envelope has come in through a client, and a first attempt from crew-lead.
CameIn(e) == clients[e.client] # "none" /\ (e.attempt = 0 => e.from = "crew-lead")

Origins ==
  /\ \A e \in mail : CameIn(e)
  /\ run # NoEnvelope => CameIn(run)
  /\ timer # NoEnvelope => CameIn(timer)

HeardInv == Origins /\ FirstHeard

\* While the first client is open no other has been made.
LEMMA OnlyFirst ==
  ASSUME IInv, NEW c \in Clients, clients[c] # "none", clients[1] = "open"
  PROVE  c = 1
BY AgentAssumption DEF IInv, ClientsInv, Clients

\* The bus hands the task to the clients that are open, as a first attempt.
LEMMA SendHeard == ASSUME IInv, HeardInv, Send PROVE HeardInv'
<1>1. \A e \in mail' : CameIn(e)'
  BY DEF Send, CameIn
<1>2. run = NoEnvelope /\ timer = NoEnvelope /\ executions = 0 /\ ~done
  BY DEF Send, IInv, Unsent
<1> QED BY <1>1, <1>2 DEF Send, HeardInv, Origins, FirstHeard

\* A client once used stays so, and the first one does not open again.
LEMMA LinkHeard ==
  ASSUME IInv, HeardInv, NEW c \in Clients,
         BeginClose(c) \/ Close(c) \/ Connect(c) \/ Crash(c)
  PROVE  HeardInv'
<1>1. /\ mail' \subseteq mail /\ UNCHANGED <<done, told, executions>>
      /\ UNCHANGED <<run, timer>> \/ (run' = NoEnvelope /\ timer' = NoEnvelope)
  BY DEF BeginClose, Close, Connect, Crash
<1>2. \A d \in Clients : clients[d] # "none" => clients'[d] # "none"
  BY DEF BeginClose, Close, Connect, Crash, IInv, TypeOK
<1>3. 1 \in Clients /\ (clients'[1] = "open" => clients[1] = "open" /\ UNCHANGED run)
  BY AgentAssumption DEF BeginClose, Close, Connect, Crash, IInv, TypeOK, Clients, ClientsInv
<1>4. \A e \in Envelopes : e.client \in Clients
  BY DEF Envelopes
<1>5. \A e \in Envelopes : CameIn(e) => CameIn(e)'
  BY <1>2, <1>4 DEF CameIn
<1>6. Origins'
  BY <1>1, <1>5 DEF HeardInv, Origins, IInv, TypeOK
<1> QED BY <1>1, <1>3, <1>6 DEF HeardInv, FirstHeard

\* An envelope that is taken up keeps its origin.
LEMMA DeliverHeard == ASSUME IInv, HeardInv, NEW e \in mail, Deliver(e) PROVE HeardInv'
<1>1. /\ e \in Envelopes /\ e.attempt \in Nat /\ run = NoEnvelope /\ timer = NoEnvelope
      /\ ~done /\ lease = "free" /\ executions = e.attempt /\ e # NoEnvelope
  BY NotAnEnvelope DEF IInv, TypeOK, Envelopes, OnePlace, Counted, Properties, DoneNotRetried, RetryCanClaim
<1>2. /\ run' = e /\ executions' = e.attempt + 1 /\ mail' \subseteq mail
      /\ UNCHANGED <<clients, timer, done>> /\ Tell(e, "in_progress")
  BY <1>1 DEF Deliver
<1>3. told \subseteq told'
  BY <1>2 DEF Tell
<1>4. Origins'
  BY <1>1, <1>2 DEF HeardInv, Origins, CameIn
<1>5. executions' > 1 => executions > 1 \/ (executions = 1 /\ run = NoEnvelope)
  BY <1>1, <1>2
<1> QED BY <1>1, <1>2, <1>3, <1>4, <1>5 DEF HeardInv, FirstHeard

\* What a handler that ends has told crew-lead, if the connection holds: something
\* of a first attempt, nothing new of a later one.
LEMMA CatchTells ==
  ASSUME IInv, run # NoEnvelope, NEW err \in Errors, CatchFinally(err)
  PROVE  /\ told \subseteq told'
         /\ clients[run.client] = "open" /\ run.from = "crew-lead"
              => told' \cap {"failed", "retrying"} # {}
<1>1. CASE clients[run.client] = "closing" /\ UNCHANGED told
  BY <1>1
<1>2. CASE Tell(run, "retrying")
  BY <1>2 DEF Tell
<1>3. CASE Tell(run, "failed")
  BY <1>3 DEF Tell
<1> QED BY <1>1, <1>2, <1>3 DEF CatchFinally, ScheduleRetry, ReportFailure

\* The end of an attempt, in the terms of the two lemmas that follow.
LEMMA EndHeard ==
  ASSUME IInv, HeardInv, run # NoEnvelope, run' = NoEnvelope,
         UNCHANGED <<mail, clients, executions>>, told \subseteq told',
         timer' = NoEnvelope \/ timer' = RetryOf(run),
         clients[run.client] = "open" /\ run.from = "crew-lead"
           => told' \cap {"done", "failed", "retrying"} # {},
         done' /\ clients[run.client] = "open" /\ run.from = "crew-lead" => "done" \in told'
  PROVE  HeardInv'
<1>1. /\ run \in Envelopes /\ run.attempt \in Nat /\ mail = {} /\ ~done
      /\ run.client \in Clients /\ executions = run.attempt + 1 /\ CameIn(run)
  BY DEF IInv, TypeOK, Envelopes, OnePlace, Counted, HeardInv, Origins, Properties, DoneNotRetried
<1>2. Origins'
  <2>1. RetryOf(run).client = run.client /\ RetryOf(run).attempt # 0
    BY <1>1, RetryType
  <2> QED BY <1>1, <2>1 DEF Origins, CameIn
<1>3. ASSUME clients[1] = "open" PROVE clients[run.client] = "open"
  BY <1>1, <1>3, OnlyFirst DEF CameIn
<1>4. executions = 1 => run.from = "crew-lead"
  BY <1>1 DEF CameIn
<1>5. executions > 1 \/ executions = 1
  BY <1>1
<1> QED BY <1>2, <1>3, <1>4, <1>5 DEF HeardInv, FirstHeard

LEMMA FailHeard == ASSUME IInv, HeardInv, NEW err \in Failures, Fail(err) PROVE HeardInv'
<1>1. /\ err \in Errors /\ run # NoEnvelope /\ CatchFinally(err)
      /\ UNCHANGED <<mail, clients, done, executions>>
  BY FailuresAssumption DEF Fail
<1>2. ~done
  BY <1>1 DEF IInv, Properties, DoneNotRetried
<1> QED BY <1>1, <1>2, CatchEffect, CatchTells, EndHeard

LEMMA SucceedHeard == ASSUME IInv, HeardInv, Succeed PROVE HeardInv'
<1>1. run # NoEnvelope /\ UNCHANGED <<mail, clients, executions>>
  BY DEF Succeed
<1>2. CASE clients[run.client] = "open"
  <2>1. /\ run' = NoEnvelope /\ UNCHANGED timer /\ Tell(run, "done")
        /\ timer = NoEnvelope
    BY <1>1, <1>2 DEF Succeed, IInv, OnePlace
  <2>2. told \subseteq told' /\ (run.from = "crew-lead" => "done" \in told')
    BY <1>2, <2>1 DEF Tell
  <2> QED BY <1>1, <2>1, <2>2, EndHeard
<1>3. CASE clients[run.client] # "open"
  <2>1. CatchFinally(SocketError) /\ SocketError \in Errors
    BY <1>3 DEF Succeed, SocketError, Errors
  <2> QED BY <1>1, <1>3, <2>1, CatchEffect, CatchTells, EndHeard
<1> QED BY <1>2, <1>3

LEMMA RetryHeard == ASSUME IInv, HeardInv, FireRetry PROVE HeardInv'
<1>1. /\ timer # NoEnvelope /\ timer' = NoEnvelope /\ mail' \subseteq mail \cup {timer}
      /\ UNCHANGED <<clients, run, done, told, executions>>
  BY DEF FireRetry
<1> QED BY <1>1 DEF HeardInv, Origins, CameIn, FirstHeard

\* While the first connection holds, crew-lead hears how the first attempt ended,
\* and of the task's result when that attempt had one: what the documentation
\* promises of every task (docs/ARCHITECTURE.md:59) holds as far as the first
\* attempt, and the run TaskExecution_result shows that it ends there.
THEOREM FirstAttemptHeard == Spec => []FirstHeard
<1>1. Init => HeardInv
  BY DEF Init, HeardInv, Origins, FirstHeard
<1>2. IInv /\ HeardInv /\ [Next]_vars => HeardInv'
  <2> SUFFICES ASSUME IInv, HeardInv, [Next]_vars PROVE HeardInv'
    OBVIOUS
  <2>1. CASE UNCHANGED vars
    BY <2>1 DEF vars, HeardInv, Origins, CameIn, FirstHeard
  <2>2. CASE Next
    BY <2>2, SendHeard, LinkHeard, DeliverHeard, FailHeard, SucceedHeard, RetryHeard DEF Next
  <2> QED BY <2>1, <2>2
<1>3. HeardInv => FirstHeard
  BY DEF HeardInv
<1> QED BY <1>1, <1>2, <1>3, Inductive, PTL DEF Spec
=============================================================================
