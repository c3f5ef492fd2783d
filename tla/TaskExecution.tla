--------------------------- MODULE TaskExecution ---------------------------
(***************************************************************************)
(* One task, from the moment crew-lead sends it to an agent until nothing  *)
(* more will happen to it: the handler of lib/engines/rt-envelope.mjs with *)
(* its retries, the dead letter queue (lib/runtime/dlq.mjs), the           *)
(* escalation to crew-fixer, and the RT client (lib/bridges/gateway-ws.mjs)*)
(* the handler captured when the task arrived.                             *)
(*                                                                         *)
(* The handler awaits only while the prompt is built and the engine runs.  *)
(* What it does before, and everything from the verdict on the reply to    *)
(* the end of the finally block, are two synchronous stretches: one action *)
(* each.  The lease is modelled in DispatchLease; here it is only held or  *)
(* free, because no other delivery carries this task's key.                *)
(***************************************************************************)
EXTENDS Integers, FiniteSets

CONSTANTS
  MaxRetries,   \* CREWSWARM_RT_DISPATCH_MAX_RETRIES, or _CODING
  Failures,     \* the errors an attempt can end with
  Escalates,    \* the agent is in ESCALATABLE_AGENTS
  MaxClients,   \* bound on the connections of the daemon
  Faults        \* what can happen to the daemon: "closing", "close", "crash"

\* What rt-envelope tells apart in an error: shouldRetryTaskFailure and the
\* catastrophic errors of shouldDLQ.  Both can be true of one message.
Errors == [retryable : BOOLEAN, catastrophic : BOOLEAN]

ASSUME RetriesAssumption == MaxRetries \in Nat
ASSUME FailuresAssumption == Failures \subseteq Errors
ASSUME AgentAssumption == /\ Escalates \in BOOLEAN
                          /\ MaxClients \in Nat \ {0}
                          /\ Faults \subseteq {"closing", "close", "crash"}

VARIABLES
  sent,         \* crew-lead has published the task
  mail,         \* envelopes on their way to the agent
  clients,      \* the daemon's RT clients, one after the other
  run,          \* the envelope being handled, or NoEnvelope
  timer,        \* the retry that setTimeout holds, or NoEnvelope
  lease,        \* the task's lease
  done,         \* the task has a done record
  dlq,          \* the task has a DLQ entry
  escalated,    \* how many tasks crew-fixer was sent for it
  told,         \* what crew-lead has heard
  executions    \* how often the engine has run the task

vars == <<sent, mail, clients, run, timer, lease, done, dlq, escalated, told, executions>>

-----------------------------------------------------------------------------

Clients == 1 .. MaxClients
\* A client is open, then perhaps closing (readyState is not OPEN and the close
\* event is still to come), then closed.
ClientStates == {"none", "open", "closing", "closed"}

\* An envelope: the attempt it carries, who it is from, and the client it comes
\* in through.  The bus sets `from` to the agent that published it.
Envelopes == [attempt : Nat, from : {"crew-lead", "self"}, client : Clients]
NoEnvelope == [attempt |-> -1]

TypeOK ==
  /\ sent \in BOOLEAN
  /\ mail \in SUBSET Envelopes
  /\ clients \in [Clients -> ClientStates]
  /\ run \in Envelopes \cup {NoEnvelope}
  /\ timer \in Envelopes \cup {NoEnvelope}
  /\ lease \in {"free", "held"}
  /\ done \in BOOLEAN /\ dlq \in BOOLEAN
  /\ escalated \in Nat /\ executions \in Nat
  /\ told \in SUBSET {"in_progress", "retrying", "done", "failed"}

Init ==
  /\ sent = FALSE /\ mail = {}
  /\ clients = [c \in Clients |-> IF c = 1 THEN "open" ELSE "none"]
  /\ run = NoEnvelope /\ timer = NoEnvelope
  /\ lease = "free" /\ done = FALSE /\ dlq = FALSE
  /\ escalated = 0 /\ told = {} /\ executions = 0

-----------------------------------------------------------------------------
(* The client and the bus *)

\* client.publish: through an open socket it reaches the bus, after the close
\* event it is skipped in silence.  Only a recipient that is connected gets it.
Tell(e, what) ==
  told' = IF clients[e.client] = "open" /\ e.from = "crew-lead"
          THEN told \cup {what} ELSE told

\* rtPublish of crew-lead: the bus hands the task to the agent's connection, if
\* it has one.
Send ==
  /\ ~sent /\ sent' = TRUE
  /\ mail' = {[attempt |-> 0, from |-> "crew-lead", client |-> c] :
                c \in {d \in Clients : clients[d] = "open"}}
  /\ UNCHANGED <<clients, run, timer, lease, done, dlq, escalated, told, executions>>

BeginClose(c) ==
  /\ "closing" \in Faults /\ clients[c] = "open"
  /\ clients' = [clients EXCEPT ![c] = "closing"]
  /\ mail' = {e \in mail : e.client # c}
  /\ UNCHANGED <<sent, run, timer, lease, done, dlq, escalated, told, executions>>

Close(c) ==
  /\ \/ "close" \in Faults /\ clients[c] = "open"
     \/ clients[c] = "closing"
  /\ clients' = [clients EXCEPT ![c] = "closed"]
  /\ mail' = {e \in mail : e.client # c}
  /\ UNCHANGED <<sent, run, timer, lease, done, dlq, escalated, told, executions>>

\* runRealtimeDaemon makes a new client once the last one is no longer ready.
\* Handlers and timers keep the client they have.
Connect(c) ==
  /\ clients[c] = "none" /\ c > 1 /\ clients[c - 1] = "closed"
  /\ clients' = [clients EXCEPT ![c] = "open"]
  /\ UNCHANGED <<sent, mail, run, timer, lease, done, dlq, escalated, told, executions>>

\* The daemon dies: its handler and its timers are gone, the lease is left to
\* expire.  A restarted daemon is a new client, and the bus keeps nothing for it.
Crash(c) ==
  /\ "crash" \in Faults
  /\ clients[c] # "none" /\ \A d \in Clients : d > c => clients[d] = "none"
  /\ clients' = [clients EXCEPT ![c] = "closed"]
  /\ mail' = {} /\ run' = NoEnvelope /\ timer' = NoEnvelope
  /\ UNCHANGED <<sent, lease, done, dlq, escalated, told, executions>>

-----------------------------------------------------------------------------
(* handleRealtimeEnvelope *)

\* An envelope arrives.  A finished task is answered from its done record and a
\* claimed one is skipped; otherwise the attempt takes the lease, says so and
\* goes on to the engine.
Deliver(e) ==
  /\ e \in mail /\ clients[e.client] = "open"
  /\ mail' = mail \ {e}
  /\ IF done \/ lease = "held"
     THEN /\ IF done THEN Tell(e, "done") ELSE UNCHANGED told
          /\ UNCHANGED <<run, lease, executions>>
     ELSE /\ run' = e /\ lease' = "held"
          /\ executions' = executions + 1
          /\ Tell(e, "in_progress")
  /\ UNCHANGED <<sent, clients, timer, done, dlq, escalated>>

\* Mutant of Retried: one retry too many.
RetriedOnceMore(err, attempt) == err.retryable /\ attempt <= MaxRetries

\* Mutant of GivesUp: the last retry is not waited for.
GivesUpEarly(attempt) == attempt + 1 >= MaxRetries

\* shouldRetryTaskFailure, and retries left
Retried(err, attempt) == err.retryable /\ attempt < MaxRetries
GivesUp(attempt) == attempt >= MaxRetries

\* Mutant of DeadLettered: the last retry does not count.
DeadLetteredLate(err, attempt) == attempt > MaxRetries \/ err.catastrophic

\* shouldDLQ, which asks nothing about a retry
DeadLettered(err, attempt) == GivesUp(attempt) \/ err.catastrophic

\* Mutant of RetryOf: the attempts are counted down.
RetryOfBackwards(e) == [attempt |-> e.attempt - 1, from |-> "self", client |-> e.client]

\* The envelope the retry will be: the bus names the agent as its sender.
RetryOf(e) == [attempt |-> e.attempt + 1, from |-> "self", client |-> e.client]

\* Mutant of ScheduleRetry: it returns without giving up the lease.
ScheduleRetryKeepingLease ==
  /\ timer' = RetryOf(run)
  /\ Tell(run, "retrying")
  /\ UNCHANGED <<lease, escalated>>

\* The timeout is set and the handler returns, through its finally block.
ScheduleRetry ==
  /\ timer' = RetryOf(run)
  /\ Tell(run, "retrying")
  /\ lease' = "free" /\ UNCHANGED escalated

\* No retry: crew-fixer may be sent the task, and its failure is published.
ReportFailure ==
  /\ escalated' = IF GivesUp(run.attempt) /\ Escalates /\ clients[run.client] = "open"
                  THEN escalated + 1 ELSE escalated
  /\ Tell(run, "failed")
  /\ lease' = "free" /\ UNCHANGED timer

\* The catch block, then the finally block.  The DLQ entry is written first.  On
\* a closing socket the first publish throws, out of the catch block, and the
\* next one out of the finally block: no retry is scheduled and the lease stays.
\* On a closed socket the publishes are skipped and the ack throws, which
\* the finally block survives.
CatchFinally(err) ==
  /\ run' = NoEnvelope
  /\ dlq' = (dlq \/ DeadLettered(err, run.attempt))
  /\ \/ /\ clients[run.client] = "closing"
        /\ UNCHANGED <<timer, lease, escalated, told>>
     \/ /\ clients[run.client] # "closing"
        /\ IF Retried(err, run.attempt) THEN ScheduleRetry ELSE ReportFailure

\* The engine fails, or its reply is rejected (CODING_ARTIFACT_MISSING).
Fail(err) ==
  /\ run # NoEnvelope /\ err \in Failures
  /\ CatchFinally(err)
  /\ UNCHANGED <<sent, mail, clients, done, executions>>

\* Mutant of SocketError: taken for the transient "websocket is not open".
SocketErrorTransient == [retryable |-> TRUE, catastrophic |-> FALSE]

\* "realtime socket is not open", which is neither of the two kinds
SocketError == [retryable |-> FALSE, catastrophic |-> FALSE]

\* The reply is valid: markTaskDone, then task.done and the ack, which throw when
\* the socket went away while the engine was running.
Succeed ==
  /\ run # NoEnvelope
  /\ done' = TRUE
  /\ \/ /\ clients[run.client] = "open"
        /\ Tell(run, "done")
        /\ run' = NoEnvelope /\ lease' = "free"
        /\ UNCHANGED <<timer, dlq, escalated>>
     \/ /\ clients[run.client] # "open"
        /\ CatchFinally(SocketError)
  /\ UNCHANGED <<sent, mail, clients, executions>>

\* Mutant of FireRetry: it waits for the client it captured to open again.
FireRetryWhenOpen ==
  /\ timer # NoEnvelope /\ clients[timer.client] = "open"
  /\ timer' = NoEnvelope
  /\ mail' = mail \cup {timer}
  /\ UNCHANGED <<sent, clients, run, lease, done, dlq, escalated, told, executions>>

\* The retry is published through the client that was captured, to the agent
\* itself, and comes back from the bus as an envelope from the agent itself.
FireRetry ==
  /\ timer # NoEnvelope
  /\ timer' = NoEnvelope
  /\ mail' = IF clients[timer.client] = "open" THEN mail \cup {timer} ELSE mail
  /\ UNCHANGED <<sent, clients, run, lease, done, dlq, escalated, told, executions>>

Next ==
  \/ Send
  \/ \E c \in Clients : BeginClose(c) \/ Close(c) \/ Connect(c) \/ Crash(c)
  \/ \E e \in mail : Deliver(e)
  \/ \E err \in Failures : Fail(err)
  \/ Succeed \/ FireRetry

Spec == Init /\ [][Next]_vars

\* The bus delivers to an open socket, timers fire, and every engine is run with
\* a timeout, so that an attempt ends one way or the other.
Fairness ==
  /\ WF_vars(Send) /\ WF_vars(\E e \in mail : Deliver(e))
  /\ WF_vars(FireRetry)
  /\ WF_vars(Succeed \/ \E err \in Failures : Fail(err))
FairSpec == Spec /\ Fairness

-----------------------------------------------------------------------------
(* Properties *)

Over == sent /\ mail = {} /\ run = NoEnvelope /\ timer = NoEnvelope

\* Every attempt the configuration allows is made at most once, through any
\* closing and reopening of the connection (rt-envelope.mjs:1427-1512).
BoundedExecutions == executions <= MaxRetries + 1

\* A finished task is not retried: nothing under way can run it again, whatever
\* the socket did while its reply was being published.
DoneNotRetried == done => run = NoEnvelope /\ timer = NoEnvelope /\ mail = {}

\* crew-fixer gets a task at most once, and only after the original is in the
\* DLQ (rt-envelope.mjs:1559, "DLQ write happens above (shouldDLQ check), before
\* escalation") and was not finished.
EscalatedOnce == escalated <= 1 /\ (escalated = 1 => dlq /\ ~done)

\* A retry on its way always finds the lease free: the attempt before it has
\* released it, and where it could not, no retry was scheduled.
RetryCanClaim == timer # NoEnvelope \/ mail # {} => lease = "free"

\* The daemon keeps the promise of BoundedTask, with the escalation as handing
\* the task over: attempts follow one another within the limit, through broken
\* connections and crashes, none follows the done record or the escalation, and
\* crew-fixer is sent nothing before the last attempt (rt-envelope.mjs:1559-1565).
Promise == INSTANCE BoundedTask
             WITH Limit <- MaxRetries + 1, attempts <- executions,
                  trying <- run # NoEnvelope, finished <- done, handed <- escalated
KeepsPromise == Promise!Spec

\* Whatever happens to the connection, the task does not stay under way for ever.
EventuallyOver == <>Over

-----------------------------------------------------------------------------
(* What the documentation promises *)

\* docs/ARCHITECTURE.md:59, "Result -> published back to RT bus -> crew-lead ->
\* user": crew-lead hears of every task that was finished.
ResultReachesLead == done => "done" \in told
=============================================================================
