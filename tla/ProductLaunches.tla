--------------------------- MODULE ProductLaunches ---------------------------
(***************************************************************************)
(* The product-launch subsystem: people confirm a launch and decide its    *)
(* publication, workers prepare and publish it, a scan recovers what Ozon  *)
(* accepted, all on the same rows, the same queue and the same proposals.  *)
(***************************************************************************)
EXTENDS ProductLaunchWorker, ProductLaunchRecovery, ProductLaunchApi

vars == <<launchVars, proposal, wk, scan, rq>>

TypeOK == StoreTypeOK /\ ProposalTypeOK /\ WorkerTypeOK /\ RecoveryTypeOK /\ ApiTypeOK

Init == StoreInit /\ ProposalInit /\ WorkerInit /\ RecoveryInit /\ ApiInit

RequestStep(u) ==
  \/ UpsertLaunch(u) \/ EnqueuePrepare(u) \/ UndoConfirm(u)
  \/ ConsumeGrant(u) \/ CompleteExecution(u) \/ FailExecution(u)
  \/ ReadAwaiting(u) \/ CheckListing(u) \/ CaptureSnapshot(u) \/ EvaluateSandbox(u)
  \/ PrepareLedger(u) \/ ApprovePublish(u) \/ EnqueuePublish(u) \/ RevertPublish(u)

ApiNext ==
  \/ \E u \in Users : \/ ConfirmLaunch(u) \/ RequestPublish(u)
                      \/ RequestStep(u) \/ RequestFails(u)
                      \/ \E p \in Proposals : ClaimProposal(u, p)
  \/ \E p \in Proposals : DecideOtherwise(p)
  \/ RecoverExecutions

ByApi(A)         == A /\ UNCHANGED <<wk, scan>>
ByWorker(A)      == A /\ UNCHANGED <<scan, rq>>
ByRecovery(A)    == A /\ UNCHANGED <<wk, rq>>
ByEnvironment(A) == A /\ UNCHANGED <<proposal, wk, scan, rq>>

Next == \/ ByApi(ApiNext) \/ ByWorker(WorkerNext) \/ ByRecovery(RecoveryNext)
        \/ ByEnvironment(EnvironmentNext)

Spec == Init /\ [][Next]_vars

-----------------------------------------------------------------------------
(* Safety.                                                                 *)

\* A submission whose request may have left.
Started(s) == ledger[s].status \notin {"NONE", "PREPARED", "CLAIMED", "RETRYABLE_FAILED"}

\* A snapshot is imported at most once, and one grant lets at most one import
\* go: over stalled jobs that run twice, lost answers, retries, crashes and
\* repeated approvals (claimLaunchForSend, markRequestStarted).
OneImport ==
  \A i, k \in 1..Len(sent) :
    i # k => sent[i].snap # sent[k].snap /\ sent[i].grant # sent[k].grant

\* The ledger never offers for sending, again, what has left: recorded before
\* the request (ozonProductPublish's beforeDispatch) and never undone, neither by
\* the worker that sent it nor by a reconciliation.
SentIsRecorded == \A i \in 1..Len(sent) : Started(sent[i].snap)

\* A submission that ended stays as it ended, and what Ozon acknowledged only
\* becomes a success.
LedgerForward ==
  [][\A s \in Snapshots :
       /\ ledger[s].status \in {"SUCCEEDED", "REJECTED"} => ledger'[s].status = ledger[s].status
       /\ ledger[s].status = "ACKNOWLEDGED" => ledger'[s].status \in {"ACKNOWLEDGED", "SUCCEEDED"}
     ]_vars

\* A launch and its proposal say "active" or "executed" only of an offer that
\* is (product-launch.worker.spec.ts:784).
ActiveIsConfirmed ==
  /\ launch.status = "ACTIVE_ON_OZON" => offer = "active"
  /\ \A p \in Proposals : proposal[p].status = "EXECUTED" => offer = "active"

\* What was decided is not decided again, and does not run any more: a claim
\* that was recovered, expired or failed meanwhile has lost its grant.
DecidedIsFinal ==
  [][\A p \in Proposals : proposal[p].status \in Ended =>
        /\ proposal'[p].status = proposal[p].status
        /\ proposal'[p].runs = proposal[p].runs]_vars

-----------------------------------------------------------------------------
(* Refinement.                                                             *)

\* What the ledger says of the import of a snapshot.
AnswerOf(s) ==
  CASE ~Started(s) -> "none"
    [] ledger[s].status \in {"REQUEST_SENT", "UNKNOWN", "RECONCILING"} -> "open"
    [] ledger[s].status = "ACKNOWLEDGED" -> "acknowledged"
    [] ledger[s].status = "SUCCEEDED" -> "succeeded"
    [] ledger[s].status = "REJECTED" -> "rejected"

Promise == INSTANCE ImportPromise WITH
  answer  <- [s \in Snapshots |-> AnswerOf(s)],
  imports <- {sent[i] : i \in 1..Len(sent)},
  granted <- issued

\* Seen from outside, the subsystem is ImportPromise: imports that were recorded
\* and approved before they left, once each, and answers that are not taken back.
ImportsKeepPromise == Promise!Spec

-----------------------------------------------------------------------------
(* Fairness: the requests, the worker of each process and the scan keep    *)
(* going, and BullMQ serves its queue.  People, the marketplace and faults *)
(* owe nothing.                                                            *)

Fairness ==
  /\ \A u \in Users : WF_vars(ByApi(RequestStep(u)))
  /\ \A w \in Workers : /\ WF_vars(ByWorker(WorkerStep(w)))
                        /\ \A j \in Jobs : SF_vars(ByWorker(TakeJob(w, j)))
  /\ WF_vars(ByRecovery(RecoveryStep))

FairSpec == Spec /\ Fairness

\* "Waiting for Ozon to confirm that the submitted offer is active": once it is
\* active, the launch leaves RECOVERING.
RecoverySettles ==
  (launch.status = "RECOVERING" /\ launch.snap # 0 /\ Recoverable /\ offer = "active")
    ~> launch.status # "RECOVERING"

\* What is imported is the listing that the launch was approved with.
ApprovedContentLeaves ==
  [][sent' # sent => snapshot[sent'[Len(sent')].snap].content = launch.content]_vars
=============================================================================
