-------------------------- MODULE MCTaskExecution --------------------------
(* Instances of TaskExecution for TLC. *)
EXTENDS TaskExecution

Timeouts == {[retryable |-> TRUE, catastrophic |-> FALSE]}

=============================================================================
