------------------------- MODULE ExternalSubmissions -------------------------
(***************************************************************************)
(* ExternalSubmissionsService: the ledger row of a snapshot is what keeps  *)
(* an import from being sent twice.  Each operation is one transaction; an *)
(* operation that conflicts throws and leaves everything as it was.        *)
(***************************************************************************)
EXTENDS LaunchStore

\* The launch still is the one that was approved for this snapshot.
Selected(s) == launch.snap = s

Preparable(s) == snapshot[s].status = "APPROVED"

\* prepare: an upsert, which leaves an existing row alone.
Prepared(s) == IF ledger[s].status = "NONE" THEN [ledger EXCEPT ![s].status = "PREPARED"]
               ELSE ledger

Prepare(s) == Preparable(s) /\ ledger' = Prepared(s)

-----------------------------------------------------------------------------
\* Mutant of Sendable: a request whose answer was lost is sent again.
SendableUnknown == {"PREPARED", "RETRYABLE_FAILED", "UNKNOWN"}

Sendable == {"PREPARED", "RETRYABLE_FAILED"}

LaunchClaimable(s) == launch.status = "QUEUED" /\ launch.auto /\ Selected(s)

\* claimLaunchForSend, with a claim token of its own.
ClaimForSend(s) ==
  /\ LaunchClaimable(s) /\ ledger[s].status \in Sendable
  /\ launch' = [launch EXCEPT !.status = "SUBMITTING_TO_OZON"]
  /\ ledger' = [ledger EXCEPT ![s] = [status |-> "CLAIMED", token |-> ledger[s].token + 1]]

Claimed(s, token) == ledger[s] = [status |-> "CLAIMED", token |-> token]

GrantAccepted(s, grant) ==
  /\ launch.status = "SUBMITTING_TO_OZON" /\ Selected(s)
  /\ grant # 0 /\ launch.grant = grant /\ launch.auth = "live"

\* Mutant of MarkRequestStarted: only the grant is recorded before the request.
MarkGrantUsed(s, token, grant) ==
  /\ Claimed(s, token) /\ GrantAccepted(s, grant)
  /\ launch' = [launch EXCEPT !.auth = "used"] /\ UNCHANGED ledger

MarkRequestStarted(s, token, grant) ==
  /\ Claimed(s, token) /\ GrantAccepted(s, grant)
  /\ launch' = [launch EXCEPT !.auth = "used"]
  /\ ledger' = [ledger EXCEPT ![s].status = "REQUEST_SENT"]

\* markRetryableFailureBeforeDispatch releases the claim and the launch together.
Releasable(s) == launch.status = "SUBMITTING_TO_OZON" /\ Selected(s)

ReleaseClaim(s, token) ==
  /\ Claimed(s, token) /\ Releasable(s)
  /\ ledger' = [ledger EXCEPT ![s].status = "RETRYABLE_FAILED"]
  /\ launch' = [launch EXCEPT !.status = "QUEUED"]

-----------------------------------------------------------------------------
\* Mutant of ResultStatus: a refusal is written as the publisher calls it.
ResultStatusUnmapped(outcome) ==
  CASE outcome = "ACTIVE_ON_OZON" -> "SUCCEEDED"
    [] outcome = "SUBMITTED_TO_OZON" -> "ACKNOWLEDGED"
    [] outcome \in {"FAILED", "BLOCKED"} -> outcome

ResultStatus(outcome) ==
  CASE outcome = "ACTIVE_ON_OZON" -> "SUCCEEDED"
    [] outcome = "SUBMITTED_TO_OZON" -> "ACKNOWLEDGED"
    [] outcome \in {"FAILED", "BLOCKED"} -> "REJECTED"

\* recordResult and recordUnknown: only the claim that sent the request.
Awaited(s, token) == ledger[s] = [status |-> "REQUEST_SENT", token |-> token]

RecordResult(s, outcome, token) ==
  /\ Awaited(s, token)
  /\ ledger' = [ledger EXCEPT ![s].status = ResultStatus(outcome)]

RecordUnknown(s, token) ==
  /\ Awaited(s, token)
  /\ ledger' = [ledger EXCEPT ![s].status = "UNKNOWN"]

Ambiguous == {"CLAIMED", "REQUEST_SENT", "UNKNOWN", "RECONCILING"}

BeginReconciliation(s) ==
  /\ ledger[s].status \in Ambiguous
  /\ ledger' = [ledger EXCEPT ![s].status = "RECONCILING"]

\* Mutant of Reconcilable: a readback may replace any status.
ReconcilableAlways(target) == SubmissionStatus

\* recordReconciledResult: succeeded is kept by the read before the update,
\* and the update accepts every status but SUCCEEDED, REJECTED and (unless the
\* readback confirms it) ACKNOWLEDGED.
Reconcilable(target) ==
  {"PREPARED", "CLAIMED", "REQUEST_SENT", "UNKNOWN", "RETRYABLE_FAILED", "RECONCILING"}
    \cup (IF target \in {"ACKNOWLEDGED", "SUCCEEDED"} THEN {"ACKNOWLEDGED"} ELSE {})

\* seen: the status that findRequired read, one await before the update.
Settled(seen, outcome) == seen = "SUCCEEDED" /\ ResultStatus(outcome) = "SUCCEEDED"

ReconciliationAllowed(s, outcome, seen) ==
  \/ Settled(seen, outcome)
  \/ seen # "SUCCEEDED" /\ ledger[s].status \in Reconcilable(ResultStatus(outcome))

RecordReconciled(s, outcome, seen) ==
  /\ ReconciliationAllowed(s, outcome, seen)
  /\ ledger' = IF Settled(seen, outcome) THEN ledger
               ELSE [ledger EXCEPT ![s].status = ResultStatus(outcome)]
=============================================================================
