----------------------------- MODULE Automations -----------------------------
(***************************************************************************)
(* The automation engine: schedulers and users make runs of a flow,        *)
(* workers take them.  They meet in the rows of AutomationStore.           *)
(***************************************************************************)
EXTENDS AutomationTriggers, AutomationWorker

vars == <<storeVars, client, workerVars>>

TypeOK == StoreTypeOK /\ TriggersTypeOK /\ WorkerTypeOK

Init == StoreInit /\ TriggersInit /\ WorkerInit

Next == \/ TriggersNext /\ UNCHANGED workerVars
        \/ WorkerNext /\ UNCHANGED client

Spec == Init /\ [][Next]_vars

-----------------------------------------------------------------------------
\* The schedulers of all replicas together keep at most one run of a flow
\* going, as long as no user updates it: the look at the active runs and the
\* creation are not atomic, but the slot is taken with the creation.  (The flow
\* may get a time of "now" from ensureConnectedStoreOperatorFlows too, of every
\* replica: that one is not modelled, and would break this.)
OneScheduledRun ==
  edits = 0 => \A r, q \in Runs :
    /\ run[r].status \in Active /\ run[r].key \in {"schedule"} \X Slots
    /\ run[q].status \in Active /\ run[q].key \in {"schedule"} \X Slots
    => r = q

Executing(w, r) == wk[w].r = r /\ wk[w].pc \in {"step", "exec", "fail"}

\* No two workers go through the steps of one run, unless one exceeds its
\* lease: not when the job is redelivered, and not in one process, where both
\* claim under the same name.
OneExecutor ==
  "overrun" \notin faults =>
    \A r \in Runs, v, w \in Workers : Executing(v, r) /\ Executing(w, r) => v = w

\* What a run ended with is what the ledger says, whichever worker of which
\* delivery ended it; and no step was completed without the one before it.
LedgerDecides ==
  \A r \in Runs :
    /\ run[r].status = "COMPLETED" => \A k \in StepNo : step[r][k].status = "COMPLETED"
    /\ run[r].status = "PARTIAL" =>
         /\ \A k \in StepNo : step[r][k].status \in {"COMPLETED", "BLOCKED"}
         /\ \E k \in StepNo : step[r][k].status = "BLOCKED"
    /\ \A k \in StepNo \ {1} :
         step[r][k].status = "COMPLETED" => step[r][k - 1].status = "COMPLETED"

\* A run recovers from one that failed, and that stays on record as failed.
RecoversFailed ==
  \A r \in Runs : run[r].parent # 0 => run[run[r].parent].status = "FAILED"

\* Ended runs and steps with a result are evidence: no retry, late worker,
\* takeover or failed enqueue changes them.
EvidenceStays ==
  [][/\ \A r \in Runs : run[r].status \in Ended => run'[r].status = run[r].status
     /\ \A r \in Runs, k \in StepNo :
          step[r][k].status \in {"COMPLETED", "BLOCKED"} => step'[r][k] = step[r][k]]_vars

\* If no process dies, no job is taken away and the database answers, a run
\* that is PENDING or RUNNING - and holds back its flow - is going to be worked on.
ActiveRunHasJob ==
  faults \subseteq {"redis", "overrun"} =>
    \A r \in Runs : run[r].status \in Active =>
      \/ job[r].state \in {"waiting", "active"}
      \/ \E c \in Clients : client[c].r = r /\ client[c].pc \in {"add", "mark"}

\* A dead letter of a run is about a failed run (or else its recovery is refused).
DeadHasFailed ==
  faults \subseteq {"redis", "crash", "restart"} => \A r \in dead : run[r].status = "FAILED"

\* A flow that is not in ERROR gets there only by a user's update, or because
\* a run of it failed: a worker out of tries and a scheduler that retires the
\* flow both decide after the run has ended, in a transaction of their own.
\* (Not so when the database fails after the run completed, and when a worker
\* loses its run on the last try: it fails the flow although the new owner
\* goes on.)
ErrorMeansFailed ==
  [][/\ flow.status # "ERROR" /\ flow'.status = "ERROR" /\ edits' = edits
     /\ faults' \cap {"database", "overrun"} = {}
     => \E r \in Runs : run'[r].status = "FAILED"]_vars
=============================================================================
