-------------------------- MODULE AgentRunRecovery --------------------------
(***************************************************************************)
(* AgentRunRecoveryService: the scan that gives runs whose worker vanished *)
(* another attempt.  One scan reads its candidates once, and then acts on  *)
(* each of these snapshots in turn; the first error ends the whole scan.   *)
(***************************************************************************)
EXTENDS AgentRunStore

CONSTANT Recoverers      \* backend replicas that scan

VARIABLE rec             \* the scan of each replica: its snapshots, its place

IdleScan == [pc |-> "idle", todo |-> {}, r |-> NoOne, n |-> 0, ls |-> "NONE"]

Snapshot == [r : Runs, n : Attempt, ls : Lifecycle]

BusyScan == [pc   : {"unlease", "verdict", "walk", "retry", "bump"},
             todo : SUBSET Snapshot,
             r    : Runs,
             n    : Attempt,
             ls   : Lifecycle]

RecoveryTypeOK == rec \in [Recoverers -> BusyScan \cup {IdleScan}]

RecoveryInit == rec = [s \in Recoverers |-> IdleScan]

RecoveryKey(n, e) == <<"recovery", n, e>>

\* Runs that look abandoned: RUNNING with an expired lease, or without a lease
\* and started long ago.
Abandoned(r) ==
  /\ run[r].status = "RUNNING"
  /\ \/ lease[r] # NoLease /\ ~lease[r].live
     \/ lease[r] = NoLease /\ run[r].started = "old"

AbortScan(s) == rec' = [rec EXCEPT ![s] = IdleScan]

Untouched == Terminal \cup {"WAITING_APPROVAL"}      \* only the lease is dropped

\* The first step for a snapshot follows from the status in it;
\* advanceToWaitingTool throws for RETRY_SCHEDULED, which ends the scan.
FirstStep(ls) == IF ls \in Untouched THEN "unlease"
                 ELSE IF ls = "VERIFYING" THEN "verdict"
                 ELSE IF ls \in {"CREATED", "PLANNING"} THEN "walk" ELSE "retry"

Consider(s, c, rest) ==
  IF c.ls = "RETRY_SCHEDULED" THEN AbortScan(s)
  ELSE rec' = [rec EXCEPT ![s] = [pc |-> FirstStep(c.ls), todo |-> rest,
                                  r |-> c.r, n |-> c.n, ls |-> c.ls]]

StartScan(s) ==
  LET found == {[r |-> r, n |-> run[r].attempt, ls |-> run[r].life] :
                   r \in {q \in Runs : Abandoned(q)}}
  IN
  /\ rec[s].pc = "idle"
  /\ \E c \in found : Consider(s, c, found \ {c})
  /\ UNCHANGED storeVars

\* On to the next snapshot, or the end of the scan.
NextCandidate(s) ==
  IF rec[s].todo = {} THEN AbortScan(s)
  ELSE \E c \in rec[s].todo : Consider(s, c, rec[s].todo \ {c})

\* deleteLease: by run, whoever owns the lease by now.
DropLease(s) ==
  /\ rec[s].pc = "unlease"
  /\ lease' = [lease EXCEPT ![rec[s].r] = NoLease]
  /\ NextCandidate(s)
  /\ UNCHANGED <<run, keys, outbox, job, faults>>

\* applyEvent with a recovery key; 400 and 404 end the scan.
RecoveryEvent(s, suffix, e, after) ==
  LET r == rec[s].r  key == RecoveryKey(rec[s].n, suffix) IN
  /\ \/ ApplyEvent(r, key, e) /\ rec' = [rec EXCEPT ![s] = after]
     \/ Refuses(r, key, e) /\ AbortScan(s) /\ UNCHANGED <<run, keys>>
  /\ UNCHANGED <<outbox, lease, job, faults>>

FailVerifying(s) ==
  /\ rec[s].pc = "verdict"
  /\ RecoveryEvent(s, "VERIFICATION_FAILED", "VERIFICATION_FAILED",
                   [rec[s] EXCEPT !.pc = "unlease"])

\* advanceToWaitingTool.
WalkEvent(s) ==
  LET e == IF rec[s].ls = "CREATED" THEN "PLAN_STARTED" ELSE "TOOL_CALL_REQUESTED" IN
  /\ rec[s].pc = "walk"
  /\ RecoveryEvent(s, e, e, [rec[s] EXCEPT !.ls = Target[e],
                               !.pc = IF e = "PLAN_STARTED" THEN "walk" ELSE "retry"])

ScheduleRetry(s) ==
  /\ rec[s].pc = "retry"
  /\ RecoveryEvent(s, "RETRYABLE_ERROR", "RETRYABLE_ERROR", [rec[s] EXCEPT !.pc = "bump"])

\* Mutants of StartAttempt: the run is not compared again before the write, and
\* the enqueue event is inserted even when the run was not.
StartAttemptBlindly(s) ==
  LET r == rec[s].r  n == rec[s].n IN
  /\ rec[s].pc = "bump" /\ n < MaxAttempt
  /\ run' = IF ~Present(r) THEN run
            ELSE [run EXCEPT ![r].attempt = n + 1, ![r].status = "RETRYING"]
  /\ outbox' = [outbox EXCEPT ![r][n + 1].state = "PENDING"]
  /\ lease' = [lease EXCEPT ![r] = NoLease]
  /\ NextCandidate(s)
  /\ UNCHANGED <<keys, job, faults>>

StartAttemptQueuesAnyway(s) ==
  LET r == rec[s].r  n == rec[s].n IN
  /\ rec[s].pc = "bump" /\ n < MaxAttempt
  /\ IF run[r].attempt = n /\ run[r].life = "RETRY_SCHEDULED"
       THEN /\ run' = [run EXCEPT ![r].attempt = n + 1, ![r].status = "RETRYING"]
            /\ lease' = [lease EXCEPT ![r] = NoLease]
       ELSE UNCHANGED <<run, lease>>
  /\ outbox' = [outbox EXCEPT ![r][n + 1].state = "PENDING"]
  /\ NextCandidate(s)
  /\ UNCHANGED <<keys, job, faults>>

\* The transaction that starts the next attempt: row, enqueue event and lease
\* together, if the run is still at this attempt and RETRY_SCHEDULED.  The
\* enqueue event of the next attempt cannot exist yet (EnqueuePerAttempt).
\* Bound: attempts beyond MaxAttempt are not modelled.
StartAttempt(s) ==
  LET r == rec[s].r  n == rec[s].n IN
  /\ rec[s].pc = "bump" /\ n < MaxAttempt
  /\ IF run[r].attempt = n /\ run[r].life = "RETRY_SCHEDULED"
       THEN /\ run' = [run EXCEPT ![r].attempt = n + 1, ![r].status = "RETRYING",
                                  ![r].error = "other"]
            /\ NewEvent(r, n + 1)
            /\ lease' = [lease EXCEPT ![r] = NoLease]
       ELSE UNCHANGED <<run, outbox, lease>>
  /\ NextCandidate(s)
  /\ UNCHANGED <<keys, job, faults>>

\* A crash, a failing query or a lost compare-and-set (409) ends the scan.
ScanBreaks(s) ==
  /\ rec[s].pc # "idle"
  /\ \/ Suffer("restart") \/ Suffer("database")
     \/ rec[s].pc \in {"verdict", "walk", "retry"} /\ Suffer("conflict")
  /\ AbortScan(s)
  /\ UNCHANGED <<run, keys, outbox, lease, job>>

RecoveryStep(s) == \/ StartScan(s) \/ DropLease(s) \/ FailVerifying(s)
                   \/ WalkEvent(s) \/ ScheduleRetry(s) \/ StartAttempt(s)

RecoveryNext == \E s \in Recoverers : RecoveryStep(s) \/ ScanBreaks(s)
=============================================================================
