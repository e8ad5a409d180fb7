--------------------------- MODULE AgentLifecycle ---------------------------
(***************************************************************************)
(* The lifecycle automaton of an agent run: agent-state-machine.ts, the    *)
(* one place the backend decides which event may follow which status.      *)
(*                                                                         *)
(* TRANSITIONS there is a table from a status and an event to a status.    *)
(* In that table the event alone decides where a run goes, so it is        *)
(* written here as two functions: the events a status accepts, and the     *)
(* status an event leads to.  resolveAgentTransition throws exactly when   *)
(* the event is not accepted; a terminal status accepts none.              *)
(***************************************************************************)

Terminal == {"COMPLETED", "FAILED", "CANCELLED"}

Lifecycle == {"CREATED", "PLANNING", "WAITING_TOOL", "WAITING_APPROVAL",
              "EXECUTING", "VERIFYING", "RETRY_SCHEDULED"} \cup Terminal

Event == {"PLAN_STARTED", "TOOL_CALL_REQUESTED", "TOOL_RESULT_RECEIVED",
          "ACTION_PROPOSED", "APPROVAL_GRANTED", "APPROVAL_REJECTED",
          "EXECUTION_FINISHED", "VERIFICATION_PASSED", "VERIFICATION_FAILED",
          "RETRYABLE_ERROR", "RETRY_DISPATCHED", "TOOL_TIMEOUT",
          "NON_RETRYABLE_ERROR", "FATAL_ERROR", "CANCELLED_BY_USER"}

Target ==
  [PLAN_STARTED         |-> "PLANNING",
   TOOL_CALL_REQUESTED  |-> "WAITING_TOOL",
   TOOL_RESULT_RECEIVED |-> "EXECUTING",
   ACTION_PROPOSED      |-> "WAITING_APPROVAL",
   APPROVAL_GRANTED     |-> "EXECUTING",
   APPROVAL_REJECTED    |-> "CANCELLED",
   EXECUTION_FINISHED   |-> "VERIFYING",
   VERIFICATION_PASSED  |-> "COMPLETED",
   VERIFICATION_FAILED  |-> "FAILED",
   RETRYABLE_ERROR      |-> "RETRY_SCHEDULED",
   RETRY_DISPATCHED     |-> "EXECUTING",
   TOOL_TIMEOUT         |-> "FAILED",
   NON_RETRYABLE_ERROR  |-> "FAILED",
   FATAL_ERROR          |-> "FAILED",
   CANCELLED_BY_USER    |-> "CANCELLED"]

Always == {"FATAL_ERROR", "CANCELLED_BY_USER"}      \* every open status takes these

Transitions ==
  [CREATED          |-> Always \cup {"PLAN_STARTED"},
   PLANNING         |-> Always \cup {"TOOL_CALL_REQUESTED", "ACTION_PROPOSED",
                                     "NON_RETRYABLE_ERROR"},
   WAITING_TOOL     |-> Always \cup {"TOOL_RESULT_RECEIVED", "RETRYABLE_ERROR",
                                     "TOOL_TIMEOUT", "NON_RETRYABLE_ERROR"},
   WAITING_APPROVAL |-> Always \cup {"APPROVAL_GRANTED", "APPROVAL_REJECTED",
                                     "NON_RETRYABLE_ERROR"},
   EXECUTING        |-> Always \cup {"EXECUTION_FINISHED", "RETRYABLE_ERROR",
                                     "NON_RETRYABLE_ERROR"},
   VERIFYING        |-> Always \cup {"ACTION_PROPOSED", "VERIFICATION_PASSED",
                                     "VERIFICATION_FAILED", "NON_RETRYABLE_ERROR"},
   RETRY_SCHEDULED  |-> Always \cup {"RETRY_DISPATCHED", "NON_RETRYABLE_ERROR"},
   COMPLETED        |-> {},
   FAILED           |-> {},
   CANCELLED        |-> {}]

Accepted(status) == Transitions[status]

\* The older status column that the API, the queue and the dashboards read.
\* The mutant passes statuses through that are no older status.
LegacyPassThrough(status) ==
  IF status = "CREATED" THEN "PENDING"
  ELSE IF status = "RETRY_SCHEDULED" THEN "RETRYING" ELSE status

Legacy(status) ==
  IF status = "CREATED" THEN "PENDING"
  ELSE IF status = "RETRY_SCHEDULED" THEN "RETRYING"
  ELSE IF status \in Terminal THEN status ELSE "RUNNING"
=============================================================================
