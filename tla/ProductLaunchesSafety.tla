------------------------ MODULE ProductLaunchesSafety ------------------------
(***************************************************************************)
(* The safety properties of ProductLaunches, proved from the types of its  *)
(* state (TypeInv) for any sizes, any number of faults and all their kinds.*)
(***************************************************************************)
EXTENDS ProductLaunchesProofs

USE LaunchAssumption, ProposalAssumption

-----------------------------------------------------------------------------
(* The life of a submission: the changes of status that the operations of  *)
(* the ledger allow, each an update of one row.                            *)

Legal(from, to) ==
  \/ from = "NONE" /\ to = "PREPARED"
  \/ from \in Sendable /\ to = "CLAIMED"
  \/ from = "CLAIMED" /\ to \in {"REQUEST_SENT", "RETRYABLE_FAILED"}
  \/ from = "REQUEST_SENT" /\ to \in {"ACKNOWLEDGED", "SUCCEEDED", "REJECTED", "UNKNOWN"}
  \/ from \in Ambiguous /\ to = "RECONCILING"
  \/ to \in {"ACKNOWLEDGED", "SUCCEEDED", "REJECTED"} /\ from \in Reconcilable(to)

Moved(s) == \E n \in Submission : /\ ledger' = [ledger EXCEPT ![s] = n]
                                  /\ Legal(ledger[s].status, n.status)

LedgerStep == UNCHANGED ledger \/ \E s \in Snapshots : Moved(s)

LEMMA MoveStatus ==
  ASSUME LedgerOK, NEW s \in Snapshots, NEW to \in SubmissionStatus,
         ledger' = [ledger EXCEPT ![s].status = to], Legal(ledger[s].status, to)
  PROVE  Moved(s)
<1> DEFINE n == [ledger[s] EXCEPT !.status = to]
<1>1. n \in Submission /\ n.status = to
  BY DEF LedgerOK, Submission
<1>2. ledger' = [ledger EXCEPT ![s] = n]
  BY DEF LedgerOK
<1> HIDE DEF n
<1> QED
  BY <1>1, <1>2 DEF Moved

LEMMA PrepareMoves ==
  ASSUME LedgerOK, NEW s \in Snapshots, Prepare(s) PROVE LedgerStep
BY MoveStatus DEF Prepare, Prepared, LedgerStep, Legal, SubmissionStatus

LEMMA ReconciledMoves ==
  ASSUME LedgerOK, NEW s \in Snapshots, NEW o \in Outcomes \ {"none"}, NEW seen,
         RecordReconciled(s, o, seen)
  PROVE  LedgerStep
<1>1. ResultStatus(o) \in {"ACKNOWLEDGED", "SUCCEEDED", "REJECTED"}
  BY DEF Outcomes, ResultStatus
<1>2. CASE Settled(seen, o)
  BY <1>2 DEF RecordReconciled, LedgerStep
<1>3. CASE ~Settled(seen, o)
  <2>1. ledger' = [ledger EXCEPT ![s].status = ResultStatus(o)]
        /\ ledger[s].status \in Reconcilable(ResultStatus(o))
    BY <1>3 DEF RecordReconciled, ReconciliationAllowed
  <2>2. ResultStatus(o) \in SubmissionStatus
    BY <1>1 DEF SubmissionStatus
  <2>3. Legal(ledger[s].status, ResultStatus(o))
    BY <1>1, <2>1 DEF Legal
  <2> QED
    BY <2>1, <2>2, <2>3, MoveStatus DEF LedgerStep
<1> QED
  BY <1>2, <1>3

LEMMA WorkerLedger ==
  ASSUME TypeInv, NEW w \in Workers, WorkerStep(w) PROVE LedgerStep
<1> USE DEF TypeInv, Rest
<1> DEFINE s == wk[w].s
<1>1. wk[w].pc \in Publishing => s \in Snapshots
  BY AtPlace
<1>2. wk[w].pc \in Answered => wk[w].o \in Outcomes \ {"none"}
  BY AtPlace
<1>3. CASE PrepareSubmission(w)
  BY <1>1, <1>3, PrepareMoves DEF PrepareSubmission, Publishing, LedgerStep
<1>4. CASE Reconcile(w)
  BY <1>1, <1>2, <1>4, ReconciledMoves DEF Reconcile, Publishing, Answered, LedgerStep
<1>5. CASE Begin(w)
  <2>1. s \in Snapshots
    BY <1>1, <1>5 DEF Begin, Publishing
  <2> QED
    BY <1>5, <2>1, MoveStatus DEF Begin, BeginReconciliation, LedgerStep, Legal, SubmissionStatus
<1>6. CASE ClaimSubmission(w)
  <2>1. s \in Snapshots
    BY <1>1, <1>6 DEF ClaimSubmission, Publishing
  <2>2. CASE ClaimForSend(s)
    <3> DEFINE n == [status |-> "CLAIMED", token |-> ledger[s].token + 1]
    <3>1. n \in Submission /\ ledger' = [ledger EXCEPT ![s] = n]
      BY <2>1, <2>2 DEF LedgerOK, Submission, SubmissionStatus, ClaimForSend
    <3>2. Legal(ledger[s].status, n.status)
      BY <2>2 DEF ClaimForSend, Legal
    <3> HIDE DEF n
    <3> QED
      BY <2>1, <3>1, <3>2 DEF Moved, LedgerStep
  <2> QED
    BY <1>6, <2>2 DEF ClaimSubmission, LedgerStep
<1>7. CASE StartRequest(w)
  <2>1. s \in Snapshots
    BY <1>1, <1>7 DEF StartRequest, Publishing
  <2>2. CASE MarkRequestStarted(s, wk[w].token, wk[w].g)
    <3>1. ledger[s].status = "CLAIMED"
      BY <2>2 DEF MarkRequestStarted, Claimed
    <3> QED
      BY <2>1, <2>2, <3>1, MoveStatus DEF MarkRequestStarted, LedgerStep, Legal, SubmissionStatus
  <2> QED
    BY <1>7, <2>2 DEF StartRequest, LedgerStep
<1>8. CASE StoreResult(w)
  <2>1. s \in Snapshots /\ wk[w].o \in Outcomes \ {"none"}
    BY <1>1, <1>2, <1>8 DEF StoreResult, Publishing, Answered
  <2>2. ResultStatus(wk[w].o) \in {"ACKNOWLEDGED", "SUCCEEDED", "REJECTED"}
    BY <2>1 DEF Outcomes, ResultStatus
  <2>3. CASE RecordResult(s, wk[w].o, wk[w].token)
    <3>1. ledger[s].status = "REQUEST_SENT"
      BY <2>3 DEF RecordResult, Awaited
    <3>2. Legal(ledger[s].status, ResultStatus(wk[w].o))
      BY <2>2, <3>1 DEF Legal
    <3> QED
      BY <2>1, <2>2, <2>3, <3>2, MoveStatus DEF RecordResult, LedgerStep, SubmissionStatus
  <2> QED
    BY <1>8, <2>3 DEF StoreResult, LedgerStep
<1>9. CASE StoreUnknown(w)
  <2>1. s \in Snapshots
    BY <1>1, <1>9 DEF StoreUnknown, Publishing
  <2>2. CASE RecordUnknown(s, wk[w].token)
    <3>1. ledger[s].status = "REQUEST_SENT"
      BY <2>2 DEF RecordUnknown, Awaited
    <3> QED
      BY <2>1, <2>2, <3>1, MoveStatus DEF RecordUnknown, LedgerStep, Legal, SubmissionStatus
  <2> QED
    BY <1>9, <2>2 DEF StoreUnknown, LedgerStep
<1>10. CASE ReleaseSubmission(w)
  <2>1. s \in Snapshots
    BY <1>1, <1>10 DEF ReleaseSubmission, Publishing
  <2>2. CASE ReleaseClaim(s, wk[w].token)
    <3>1. ledger[s].status = "CLAIMED"
      BY <2>2 DEF ReleaseClaim, Claimed
    <3> QED
      BY <2>1, <2>2, <3>1, MoveStatus DEF ReleaseClaim, LedgerStep, Legal, SubmissionStatus
  <2> QED
    BY <1>10, <2>2 DEF ReleaseSubmission, LedgerStep
<1>11. CASE \/ ReadLaunch(w) \/ PassGates(w) \/ Preflight(w) \/ LookUp(w) \/ PersistOutcome(w)
            \/ SettleProposal(w) \/ Notify(w) \/ FailLaunch(w) \/ MarkReconciliation(w)
            \/ StartImages(w) \/ GenerateImages(w) \/ ReviewListing(w) \/ AwaitApproval(w)
            \/ ProposePublish(w) \/ FindSubmission(w) \/ LoadSnapshot(w) \/ StartUnseen(w)
            \/ SendImport(w) \/ ReadAnswer(w)
  BY <1>11 DEF ReadLaunch, PassGates, Preflight, LookUp, PersistOutcome, SettleProposal, Notify,
               FailLaunch, MarkReconciliation, StartImages, GenerateImages, ReviewListing,
               AwaitApproval, ProposePublish, FindSubmission, LoadSnapshot, StartUnseen,
               SendImport, ReadAnswer, LedgerStep
<1> QED
  BY <1>3, <1>4, <1>5, <1>6, <1>7, <1>8, <1>9, <1>10, <1>11 DEF WorkerStep

LEMMA ApiLedger == ASSUME TypeInv, ByApi(ApiNext) PROVE LedgerStep
<1> USE DEF TypeInv, Kept
<1>1. ASSUME NEW u \in Users, PrepareLedger(u) PROVE LedgerStep
  <2>1. rq[u].s \in Snapshots
    BY <1>1 DEF PrepareLedger, RqOK
  <2> QED
    BY <1>1, <2>1, PrepareMoves DEF PrepareLedger, LedgerStep
<1>2. ASSUME NEW u \in Users, RequestStep(u), ~PrepareLedger(u) PROVE LedgerStep
  BY <1>2 DEF RequestStep, UpsertLaunch, EnqueuePrepare, UndoConfirm, ConsumeGrant,
              CompleteExecution, FailExecution, ReadAwaiting, CheckListing, CaptureSnapshot,
              EvaluateSandbox, ApprovePublish, EnqueuePublish, RevertPublish, LedgerStep
<1> QED
  BY <1>1, <1>2 DEF ByApi, ApiNext, ConfirmLaunch, RequestPublish, RequestFails, ClaimProposal,
                    DecideOtherwise, RecoverExecutions, LedgerStep

LEMMA RecoveryLedger == ASSUME TypeInv, ByRecovery(RecoveryNext) PROVE LedgerStep
<1>1. CASE ScanReconcile
  <2>1. scan.s \in Snapshots /\ scan.o \in Outcomes \ {"none"}
    BY <1>1 DEF TypeInv, ScanReconcile, ScanOK, Scan, Outcomes
  <2> QED
    BY <1>1, <2>1, ReconciledMoves DEF TypeInv, ScanReconcile, LedgerStep
<1> QED
  BY <1>1 DEF ByRecovery, RecoveryNext, RecoveryStep, ScanLaunch, ClaimScan, ReadBack, ScanLookUp,
              ScanProposal, FinishRecovery, ScanFails, LedgerStep

LEMMA NextLedger == TypeInv /\ [Next]_vars => LedgerStep
<1> SUFFICES ASSUME TypeInv, [Next]_vars PROVE LedgerStep
  OBVIOUS
<1>1. CASE ByWorker(WorkerNext)
  BY <1>1, WorkerLedger DEF ByWorker, WorkerNext, TakeJob, QueryFails, QueryEnds, WorkerCrash,
                            LedgerStep
<1>2. CASE ByEnvironment(EnvironmentNext)
  BY <1>2 DEF ByEnvironment, EnvironmentNext, ApproveListing, RemoveListing, GrantExpires,
              OfferActivated, OverrideReport, EvictJob, StallJob, LedgerStep
<1>3. CASE UNCHANGED vars
  BY <1>3 DEF vars, launchVars, LedgerStep
<1> QED
  BY <1>1, <1>2, <1>3, ApiLedger, RecoveryLedger DEF Next

\* What a legal change of one row does to the rows.
LEMMA LedgerStepForward ==
  ASSUME TypeInv, LedgerStep, NEW s \in Snapshots
  PROVE  /\ ledger[s].status \in {"SUCCEEDED", "REJECTED"} => ledger'[s].status = ledger[s].status
         /\ ledger[s].status = "ACKNOWLEDGED" =>
              ledger'[s].status \in {"ACKNOWLEDGED", "SUCCEEDED"}
         /\ Started(s) => Started(s)'
<1>1. CASE UNCHANGED ledger
  BY <1>1 DEF Started
<1>2. ASSUME NEW t \in Snapshots, Moved(t)
      PROVE  ledger'[s] = ledger[s] \/ Legal(ledger[s].status, ledger'[s].status)
  BY <1>2 DEF Moved, TypeInv, LedgerOK
<1>3. CASE Legal(ledger[s].status, ledger'[s].status)
  BY <1>3 DEF Legal, Sendable, Ambiguous, Reconcilable, Started
<1>4. CASE ledger'[s] = ledger[s]
  BY <1>4 DEF Started
<1> QED
  BY <1>1, <1>2, <1>3, <1>4 DEF LedgerStep

\* A submission that succeeded or was rejected stays so, and an acknowledged one
\* only becomes a success, whichever of the workers, requests and scans writes it.
THEOREM SubmissionsGoForward == Spec => LedgerForward
<1>1. TypeInv /\ [Next]_vars =>
        [\A s \in Snapshots :
           /\ ledger[s].status \in {"SUCCEEDED", "REJECTED"} =>
                ledger'[s].status = ledger[s].status
           /\ ledger[s].status = "ACKNOWLEDGED" =>
                ledger'[s].status \in {"ACKNOWLEDGED", "SUCCEEDED"}]_vars
  BY NextLedger, LedgerStepForward
<1> QED
  BY <1>1, TypeInvInvariant, PTL DEF Spec, LedgerForward

-----------------------------------------------------------------------------
(* Imports.  What a step does to the requests that left or are about to    *)
(* leave, and to the grant of the launch.                                  *)

GrantCalm ==
  /\ launch'.grant \in {launch.grant, 0}
  /\ launch'.auth = "live" => launch.auth = "live" /\ launch'.grant = launch.grant

SendCalm(w) == wk'[w].pc = "send" => wk'[w] = wk[w]

QuietStep == /\ sent' = sent /\ issued' = issued /\ GrantCalm
             /\ \A w \in Workers : SendCalm(w)

StartStep(w) ==
  /\ sent' = sent /\ issued' = issued
  /\ wk[w].s \in Snapshots /\ ledger[wk[w].s].status = "CLAIMED" /\ Started(wk[w].s)'
  /\ launch.auth = "live" /\ launch.grant = wk[w].g /\ wk[w].g # 0
  /\ launch'.auth = "used" /\ launch'.grant = launch.grant
  /\ wk'[w].s = wk[w].s /\ wk'[w].g = wk[w].g
  /\ \A v \in Workers \ {w} : SendCalm(v)

SendStep(w) ==
  /\ wk[w].pc = "send" /\ wk'[w].pc # "send"
  /\ sent' = Append(sent, [snap |-> wk[w].s, grant |-> wk[w].g])
  /\ issued' = issued /\ launch' = launch /\ ledger' = ledger
  /\ \A v \in Workers \ {w} : SendCalm(v)

ApproveStep ==
  /\ sent' = sent /\ ledger' = ledger /\ issued' = issued + 1 /\ launch'.grant = issued + 1
  /\ \A w \in Workers : SendCalm(w)

ImportKind == QuietStep \/ ApproveStep \/ \E w \in Workers : StartStep(w) \/ SendStep(w)

LEMMA SetNotSend ==
  ASSUME WkOK, NEW w \in Workers, NEW v, v.pc # "send", wk' = [wk EXCEPT ![w] = v]
  PROVE  \A x \in Workers : SendCalm(x)
BY DEF WkOK, SendCalm

LEMMA GotoNotSend ==
  ASSUME WkOK, NEW w \in Workers, NEW pc, pc # "send", Goto(w, pc)
  PROVE  \A x \in Workers : SendCalm(x)
<1> DEFINE v == [wk[w] EXCEPT !.pc = pc]
<1>1. v.pc = pc /\ wk' = [wk EXCEPT ![w] = v]
  BY DEF Goto, WkOK, Worker
<1> HIDE DEF v
<1> QED
  BY <1>1, SetNotSend

LEMMA EndNotSend ==
  ASSUME WkOK, NEW w \in Workers, NEW ok, EndAttempt(w, ok)
  PROVE  \A x \in Workers : SendCalm(x)
BY IdleWorkerOK, SetNotSend DEF EndAttempt

LEMMA SameWkCalm == ASSUME wk' = wk PROVE \A x \in Workers : SendCalm(x)
BY DEF SendCalm

LEMMA StatusCalm ==
  ASSUME LaunchOK, NEW status,
         \/ launch' = launch \/ launch' = Unapproved(status)
         \/ launch' = [launch EXCEPT !.status = status]
         \/ \E v \in Listings : launch' = [Unapproved(status) EXCEPT !.listing = v]
  PROVE  GrantCalm
BY DEF LaunchOK, Launch, GrantCalm, Unapproved

LEMMA EnvironmentImport ==
  ASSUME TypeInv, ByEnvironment(EnvironmentNext) PROVE ImportKind
<1>1. GrantCalm
  BY DEF ByEnvironment, EnvironmentNext, ApproveListing, RemoveListing, GrantExpires,
         OfferActivated, OverrideReport, EvictJob, StallJob, GrantCalm, TypeInv, LaunchOK, Launch
<1>2. sent' = sent /\ issued' = issued /\ wk' = wk
  BY DEF ByEnvironment, EnvironmentNext, ApproveListing, RemoveListing, GrantExpires,
         OfferActivated, OverrideReport, EvictJob, StallJob
<1> QED
  BY <1>1, <1>2, SameWkCalm DEF ImportKind, QuietStep

LEMMA RecoveryImport ==
  ASSUME TypeInv, ByRecovery(RecoveryNext) PROVE ImportKind
<1> USE DEF ByRecovery, RecoveryNext, RecoveryStep, ScanLaunch, ClaimScan, ReadBack, ScanLookUp,
            ScanReconcile, ScanProposal, FinishRecovery, ScanFails, Untouched
<1>1. GrantCalm
  <2>1. launch' = launch \/ \E status \in LaunchStatus : launch' = [launch EXCEPT !.status = status]
    BY DEF LaunchStatus
  <2> QED
    BY <2>1, StatusCalm DEF TypeInv
<1>2. sent' = sent /\ issued' = issued /\ wk' = wk
  OBVIOUS
<1> QED
  BY <1>1, <1>2, SameWkCalm DEF ImportKind, QuietStep

LEMMA ApiImport == ASSUME TypeInv, ByApi(ApiNext) PROVE ImportKind
<1> USE DEF ByApi, Kept
<1>1. ASSUME NEW u \in Users, ApprovePublish(u) PROVE ImportKind
  BY <1>1, SameWkCalm
  DEF ApprovePublish, ApproveStep, ImportKind, TypeInv, LaunchOK, Launch
<1>2. ASSUME NEW u \in Users, UpsertLaunch(u) \/ UndoConfirm(u) \/ RevertPublish(u)
      PROVE  ImportKind
  <2>1. GrantCalm
    <3>1. 0 \in Listings
      BY DEF Listings
    <3> QED
      BY <1>2, <3>1, StatusCalm DEF UpsertLaunch, UndoConfirm, RevertPublish, TypeInv
  <2> QED
    BY <1>2, <2>1, SameWkCalm
    DEF UpsertLaunch, UndoConfirm, RevertPublish, ImportKind, QuietStep
<1>3. ASSUME launch' = launch, sent' = sent, issued' = issued PROVE ImportKind
  BY <1>3, SameWkCalm, StatusCalm DEF TypeInv, ImportKind, QuietStep
<1>4. ASSUME NEW u \in Users, RequestStep(u) PROVE ImportKind
  BY <1>1, <1>2, <1>3, <1>4
  DEF RequestStep, EnqueuePrepare, ConsumeGrant, CompleteExecution, FailExecution, ReadAwaiting,
      CheckListing, CaptureSnapshot, EvaluateSandbox, PrepareLedger, EnqueuePublish
<1> QED
  BY <1>3, <1>4 DEF ApiNext, ConfirmLaunch, RequestPublish, RequestFails, ClaimProposal,
                    DecideOtherwise, RecoverExecutions

\* The steps of a worker that write the launch change its status, or take its
\* approval away.
LEMMA WorkerGrant ==
  ASSUME TypeInv, NEW w \in Workers, WorkerStep(w), ~StartRequest(w) PROVE GrantCalm
<1> USE DEF TypeInv
<1>1. CASE AwaitApproval(w)
  <2>1. listing.v \in Listings
    BY DEF ListingOK, Listing
  <2> QED
    BY <1>1, <2>1, StatusCalm DEF AwaitApproval
<1>2. CASE PersistOutcome(w) \/ FailLaunch(w) \/ StartImages(w)
  BY <1>2, StatusCalm DEF PersistOutcome, FailLaunch, StartImages
<1>3. CASE MarkReconciliation(w) \/ ClaimSubmission(w) \/ ReleaseSubmission(w)
  BY <1>3, StatusCalm
  DEF MarkReconciliation, ClaimSubmission, ReleaseSubmission, ClaimForSend, ReleaseClaim
<1>4. CASE launch' = launch
  BY <1>4, StatusCalm
<1> QED
  BY <1>1, <1>2, <1>3, <1>4
  DEF WorkerStep, ReadLaunch, PassGates, PrepareSubmission, Preflight, LookUp, Reconcile,
      SettleProposal, Notify, GenerateImages, ReviewListing, ProposePublish, FindSubmission,
      Begin, LoadSnapshot, StartUnseen, SendImport, ReadAnswer, StoreResult, StoreUnknown

\* No step but StartRequest takes a worker to the place where the request leaves.
LEMMA WorkerSend ==
  ASSUME TypeInv, NEW w \in Workers, WorkerStep(w), ~StartRequest(w)
  PROVE  \A x \in Workers : SendCalm(x)
<1> USE DEF TypeInv
<1> DEFINE Calm == \A x \in Workers : SendCalm(x)
<1>0. wk[w] \in Worker
  BY AtPlace
<1>1. ASSUME ReadLaunch(w) \/ Preflight(w) \/ LookUp(w) PROVE Calm
  <2>1. CASE ReadLaunch(w)
    <3> DEFINE s == IF launch.auto THEN launch.snap ELSE 0
               pc == IF ~launch.auto THEN "preflight"
                     ELSE IF Authorized(wk[w].g) THEN "gates" ELSE "fail"
               v == [wk[w] EXCEPT !.s = s, !.pc = pc]
    <3>1. EndAttempt(w, TRUE) \/ wk' = [wk EXCEPT ![w] = v]
      BY <2>1 DEF ReadLaunch, WkOK
    <3>2. v.pc # "send"
      BY <1>0 DEF Worker
    <3> HIDE DEF v
    <3> QED
      BY <3>1, <3>2, EndNotSend, SetNotSend
  <2>2. CASE Preflight(w)
    <3>1. ASSUME NEW o, NEW pc, pc # "send", wk' = [wk EXCEPT ![w].o = o, ![w].pc = pc]
          PROVE  Calm
      BY <1>0, <3>1 DEF WkOK, Worker, SendCalm
    <3> QED
      BY <2>2, <3>1, GotoNotSend DEF Preflight
  <2>3. CASE LookUp(w)
    BY <1>0, <2>3 DEF LookUp, WkOK, Worker, SendCalm
  <2> QED
    BY <1>1, <2>1, <2>2, <2>3
<1>2. ASSUME \/ PassGates(w) \/ PrepareSubmission(w) \/ Reconcile(w) \/ PersistOutcome(w)
             \/ SettleProposal(w) \/ StartImages(w) \/ GenerateImages(w) \/ ReviewListing(w)
             \/ AwaitApproval(w) \/ Begin(w)
      PROVE  Calm
  BY <1>2, GotoNotSend
  DEF PassGates, PrepareSubmission, Reconcile, PersistOutcome, SettleProposal, StartImages,
      GenerateImages, ReviewListing, AwaitApproval, Begin
<1>3. ASSUME \/ Notify(w) \/ FailLaunch(w) \/ MarkReconciliation(w) \/ ProposePublish(w)
             \/ FindSubmission(w) \/ StoreResult(w) \/ StoreUnknown(w) \/ ReleaseSubmission(w)
      PROVE  Calm
  BY <1>3, GotoNotSend, EndNotSend
  DEF Notify, FailLaunch, MarkReconciliation, ProposePublish, FindSubmission, StoreResult,
      StoreUnknown, ReleaseSubmission
<1>4. ASSUME ClaimSubmission(w) PROVE Calm
  <2>1. ASSUME wk' = [wk EXCEPT ![w].pc = "load", ![w].token = ledger'[wk[w].s].token]
        PROVE  Calm
    BY <1>0, <2>1 DEF WkOK, Worker, SendCalm
  <2> QED
    BY <1>4, <2>1, GotoNotSend, EndNotSend DEF ClaimSubmission
<1>5. ASSUME LoadSnapshot(w) \/ StartUnseen(w) PROVE Calm
  <2>1. ASSUME NEW o, NEW throws,
               wk' = [wk EXCEPT ![w].pc = "release", ![w].o = o, ![w].throws = throws]
        PROVE  Calm
    BY <1>0, <2>1 DEF WkOK, Worker, SendCalm
  <2>2. ASSUME wk' = [wk EXCEPT ![w].pc = "release", ![w].throws = TRUE] PROVE Calm
    BY <1>0, <2>2 DEF WkOK, Worker, SendCalm
  <2> QED
    BY <1>5, <2>1, <2>2, GotoNotSend DEF LoadSnapshot, StartUnseen
<1>6. ASSUME SendImport(w) \/ ReadAnswer(w) PROVE Calm
  <2>1. ASSUME NEW o, wk' = [wk EXCEPT ![w].pc = "result", ![w].o = o] PROVE Calm
    BY <1>0, <2>1 DEF WkOK, Worker, SendCalm
  <2>2. ASSUME wk' = [wk EXCEPT ![w].pc = "unknown", ![w].throws = TRUE] PROVE Calm
    BY <1>0, <2>2 DEF WkOK, Worker, SendCalm
  <2> QED
    BY <1>6, <2>1, <2>2, GotoNotSend DEF SendImport, ReadAnswer
<1> QED
  BY <1>1, <1>2, <1>3, <1>4, <1>5, <1>6 DEF WorkerStep

LEMMA StartImport ==
  ASSUME TypeInv, NEW w \in Workers, StartRequest(w) PROVE ImportKind
<1> USE DEF TypeInv
<1>1. wk[w] \in Worker /\ wk[w].s \in Snapshots
  BY AtPlace DEF StartRequest, Publishing
<1>2. CASE MarkRequestStarted(wk[w].s, wk[w].token, wk[w].g) /\ Goto(w, "send")
  <2>1. /\ ledger[wk[w].s].status = "CLAIMED" /\ Started(wk[w].s)'
        /\ launch.auth = "live" /\ launch.grant = wk[w].g /\ wk[w].g # 0
        /\ launch'.auth = "used" /\ launch'.grant = launch.grant
    <3>1. ledger'[wk[w].s].status = "REQUEST_SENT"
      BY <1>1, <1>2 DEF MarkRequestStarted, LedgerOK, Submission
    <3>2. Started(wk[w].s)'
      <4>1. wk'[w].s = wk[w].s
        BY <1>1, <1>2 DEF Goto, WkOK, Worker
      <4> QED
        BY <3>1, <4>1 DEF Started
    <3> QED
      BY <1>2, <3>2 DEF MarkRequestStarted, Claimed, GrantAccepted, LaunchOK, Launch
  <2>2. /\ wk'[w].s = wk[w].s /\ wk'[w].g = wk[w].g
        /\ \A v \in Workers \ {w} : SendCalm(v)
    BY <1>1, <1>2 DEF Goto, WkOK, Worker, SendCalm
  <2>3. sent' = sent /\ issued' = issued
    BY DEF StartRequest, Rest
  <2> QED
    BY <1>1, <2>1, <2>2, <2>3 DEF StartStep, ImportKind
<1>3. CASE launch' = launch /\ wk' = [wk EXCEPT ![w].pc = "release", ![w].throws = TRUE]
  <2>1. \A x \in Workers : SendCalm(x)
    BY <1>1, <1>3 DEF WkOK, Worker, SendCalm
  <2> QED
    BY <1>3, <2>1, StatusCalm DEF StartRequest, Rest, ImportKind, QuietStep
<1> QED
  BY <1>2, <1>3 DEF StartRequest

LEMMA WorkerImport == ASSUME TypeInv, ByWorker(WorkerNext) PROVE ImportKind
<1> USE DEF TypeInv
<1>1. ASSUME NEW w \in Workers, SendImport(w) PROVE ImportKind
  <2>1. ~StartRequest(w) /\ WorkerStep(w)
    BY <1>1 DEF SendImport, StartRequest, WorkerStep
  <2>2. wk[w] \in Worker
    BY AtPlace
  <2>3. wk'[w].pc # "send"
    BY <1>1, <2>2 DEF SendImport, Goto, WkOK, Worker
  <2> QED
    BY <1>1, <2>1, <2>3, WorkerSend DEF SendImport, Rest, SendStep, ImportKind
<1>2. ASSUME NEW w \in Workers, WorkerStep(w), ~SendImport(w), ~StartRequest(w)
      PROVE  ImportKind
  <2>1. sent' = sent /\ issued' = issued
    BY <1>2 DEF WorkerStep, Rest, ReadLaunch, PassGates, PrepareSubmission, Preflight, LookUp,
                Reconcile, PersistOutcome, SettleProposal, Notify, FailLaunch, MarkReconciliation,
                StartImages, GenerateImages, ReviewListing, AwaitApproval, ProposePublish,
                FindSubmission, Begin, ClaimSubmission, LoadSnapshot, StartUnseen, ReadAnswer,
                StoreResult, StoreUnknown, ReleaseSubmission
  <2> QED
    BY <1>2, <2>1, WorkerGrant, WorkerSend DEF ImportKind, QuietStep
<1>3. ASSUME NEW w \in Workers, NEW j \in Jobs, TakeJob(w, j) PROVE ImportKind
  <2>1. \A x \in Workers : SendCalm(x)
    BY <1>3, IdleWorkerOK, SameWkCalm DEF TakeJob, WkOK, SendCalm, IdleWorker
  <2> QED
    BY <1>3, <2>1, StatusCalm DEF TakeJob, Rest, ImportKind, QuietStep
<1>4. ASSUME NEW w \in Workers, QueryFails(w) \/ QueryEnds(w) \/ WorkerCrash(w)
      PROVE  ImportKind
  <2>1. \A x \in Workers : SendCalm(x)
    BY <1>4, GotoNotSend, EndNotSend, SetNotSend, IdleWorkerOK
    DEF QueryFails, QueryEnds, WorkerCrash
  <2> QED
    BY <1>4, <2>1, StatusCalm DEF QueryFails, QueryEnds, WorkerCrash, Rest, ImportKind, QuietStep
<1> QED
  BY <1>1, <1>2, <1>3, <1>4, StartImport DEF ByWorker, WorkerNext

LEMMA NextImport == TypeInv /\ [Next]_vars => ImportKind
<1> SUFFICES ASSUME TypeInv, [Next]_vars PROVE ImportKind
  OBVIOUS
<1>1. CASE UNCHANGED vars
  BY <1>1, SameWkCalm, StatusCalm DEF vars, launchVars, TypeInv, ImportKind, QuietStep
<1> QED
  BY <1>1, EnvironmentImport, RecoveryImport, ApiImport, WorkerImport DEF Next

-----------------------------------------------------------------------------
(* One import.  A worker that is about to send is the only one for its     *)
(* snapshot and for its grant, nothing was sent for either, the snapshot's *)
(* submission is recorded as started, and the grant is not live any more.  *)

Left(status) == status \notin {"NONE", "PREPARED", "CLAIMED", "RETRYABLE_FAILED"}

Sending(w) == wk[w].pc = "send"

SenderOK(w) ==
  /\ Left(ledger[wk[w].s].status) /\ wk[w].g # 0 /\ wk[w].g <= issued
  /\ launch.auth = "live" => wk[w].g # launch.grant

SentImportOK(i) ==
  /\ Left(ledger[sent[i].snap].status) /\ sent[i].grant <= issued
  /\ launch.auth = "live" => sent[i].grant # launch.grant

SendersDiffer ==
  \A v, w \in Workers : v # w /\ Sending(v) /\ Sending(w) =>
    wk[v].s # wk[w].s /\ wk[v].g # wk[w].g

NothingSent(w) ==
  \A i \in 1..Len(sent) : sent[i].snap # wk[w].s /\ sent[i].grant # wk[w].g

SendInv ==
  /\ launch.grant <= issued
  /\ \A w \in Workers : Sending(w) => SenderOK(w) /\ NothingSent(w)
  /\ \A i \in 1..Len(sent) : SentImportOK(i)
  /\ SendersDiffer
  /\ OneImport

LEMMA InitSendInv == Init => SendInv
BY DEF Init, StoreInit, WorkerInit, IdleWorker, SendInv, Sending, SendersDiffer, OneImport

\* The numbers and snapshots that a step compares.
LEMMA SendTypesOf ==
  ASSUME TypeInv
  PROVE  /\ issued \in Nat /\ launch.grant \in Nat /\ Len(sent) \in Nat
         /\ \A w \in Workers : wk[w].g \in Nat /\ (Sending(w) => wk[w].s \in Snapshots)
         /\ \A i \in 1..Len(sent) : sent[i].snap \in Snapshots /\ sent[i].grant \in Nat
<1> USE DEF TypeInv
<1>1. issued \in Nat /\ launch.grant \in Nat
  BY DEF IssuedOK, LaunchOK, Launch, Grants
<1>2. \A w \in Workers : wk[w].g \in Nat /\ (Sending(w) => wk[w].s \in Snapshots)
  BY AtPlace DEF Sending, Publishing, Grants
<1>3. \A i \in 1..Len(sent) : sent[i].snap \in Snapshots /\ sent[i].grant \in Nat
  <2> DEFINE Import == [snap : Snapshots, grant : Grants]
  <2>1. sent \in Seq(Import)
    BY DEF SentOK
  <2>2. \A e \in Import : e.snap \in Snapshots /\ e.grant \in Nat
    BY DEF Grants
  <2> HIDE DEF Import
  <2> QED
    BY <2>1, <2>2
<1>4. Len(sent) \in Nat
  BY DEF SentOK
<1> QED
  BY <1>1, <1>2, <1>3, <1>4

LEMMA LeftStays ==
  ASSUME TypeInv, LedgerStep, NEW s \in Snapshots, Left(ledger[s].status)
  PROVE  Left(ledger'[s].status)
BY LedgerStepForward DEF Started, Left

LEMMA SendCalmSending ==
  ASSUME NEW w \in Workers, SendCalm(w), Sending(w)'
  PROVE  Sending(w) /\ wk'[w].s = wk[w].s /\ wk'[w].g = wk[w].g
BY DEF SendCalm, Sending

LEMMA QuietSend == ASSUME TypeInv, SendInv, LedgerStep, QuietStep PROVE SendInv'
<1>1. \A w \in Workers : Sending(w)' => Sending(w) /\ wk'[w].s = wk[w].s /\ wk'[w].g = wk[w].g
  BY SendCalmSending DEF QuietStep
<1>2. sent' = sent /\ issued' = issued /\ GrantCalm
  BY DEF QuietStep
<1>3. launch'.grant <= issued'
  BY <1>2, SendTypesOf DEF GrantCalm, SendInv
<1>4. \A w \in Workers : Sending(w)' => SenderOK(w)' /\ NothingSent(w)'
  <2> SUFFICES ASSUME NEW w \in Workers, Sending(w)' PROVE SenderOK(w)' /\ NothingSent(w)'
    OBVIOUS
  <2>1. /\ Sending(w) /\ wk'[w].s = wk[w].s /\ wk'[w].g = wk[w].g /\ wk[w].s \in Snapshots
        /\ SenderOK(w) /\ NothingSent(w)
    BY <1>1, SendTypesOf DEF SendInv
  <2>2. NothingSent(w)'
    BY <1>2, <2>1 DEF NothingSent
  <2>3. Left(ledger'[wk'[w].s].status)
    BY <2>1, LeftStays DEF SenderOK
  <2>4. SenderOK(w)'
    BY <1>2, <2>1, <2>3 DEF SenderOK, GrantCalm
  <2> QED
    BY <2>2, <2>4
<1>5. \A i \in 1..Len(sent') : SentImportOK(i)'
  BY <1>2, LeftStays, SendTypesOf DEF SendInv, SentImportOK, GrantCalm
<1>6. SendersDiffer'
  BY <1>1 DEF SendInv, SendersDiffer
<1> QED
  BY <1>2, <1>3, <1>4, <1>5, <1>6 DEF SendInv, OneImport

LEMMA ApproveSend == ASSUME TypeInv, SendInv, LedgerStep, ApproveStep PROVE SendInv'
<1>1. \A w \in Workers : Sending(w)' => Sending(w) /\ wk'[w].s = wk[w].s /\ wk'[w].g = wk[w].g
  BY SendCalmSending DEF ApproveStep
<1>2. sent' = sent /\ issued' = issued + 1 /\ launch'.grant = issued + 1
  BY DEF ApproveStep
<1>3. launch'.grant <= issued'
  BY <1>2, SendTypesOf
<1>4. \A w \in Workers : Sending(w)' => SenderOK(w)' /\ NothingSent(w)'
  BY <1>1, <1>2, LeftStays, SendTypesOf DEF SendInv, SenderOK, NothingSent
<1>5. \A i \in 1..Len(sent') : SentImportOK(i)'
  BY <1>2, LeftStays, SendTypesOf DEF SendInv, SentImportOK
<1>6. SendersDiffer'
  BY <1>1 DEF SendInv, SendersDiffer
<1> QED
  BY <1>2, <1>3, <1>4, <1>5, <1>6 DEF SendInv, OneImport

LEMMA StartSend ==
  ASSUME TypeInv, SendInv, LedgerStep, NEW w \in Workers, StartStep(w) PROVE SendInv'
<1>1. \A v \in Workers \ {w} :
        Sending(v)' => Sending(v) /\ wk'[v].s = wk[v].s /\ wk'[v].g = wk[v].g
  BY SendCalmSending DEF StartStep
<1>2. /\ sent' = sent /\ issued' = issued
      /\ launch.auth = "live" /\ launch.grant = wk[w].g /\ wk[w].g # 0
      /\ launch'.auth # "live" /\ launch'.grant = launch.grant
      /\ wk'[w].s = wk[w].s /\ wk'[w].g = wk[w].g
  BY DEF StartStep
<1>3. ~Left(ledger[wk[w].s].status) /\ Left(ledger'[wk[w].s].status)
  BY DEF StartStep, Started, Left
<1>4. launch'.grant <= issued'
  BY <1>2 DEF SendInv
<1>5. \A i \in 1..Len(sent) : sent[i].snap # wk[w].s /\ sent[i].grant # wk[w].g
  BY <1>2, <1>3 DEF SendInv, SentImportOK
<1>6. \A v \in Workers \ {w} : Sending(v) => wk[v].s # wk[w].s /\ wk[v].g # wk[w].g
  BY <1>2, <1>3 DEF SendInv, SenderOK
<1>7. ASSUME NEW v \in Workers, Sending(v)' PROVE SenderOK(v)' /\ NothingSent(v)'
  <2>1. CASE v = w
    BY <1>2, <1>3, <1>5, <2>1 DEF SendInv, SenderOK, NothingSent
  <2>2. CASE v # w
    BY <1>1, <1>2, <1>7, <2>2, LeftStays, SendTypesOf DEF SendInv, SenderOK, NothingSent
  <2> QED
    BY <2>1, <2>2
<1>8. \A i \in 1..Len(sent') : SentImportOK(i)'
  BY <1>2, LeftStays, SendTypesOf DEF SendInv, SentImportOK
<1>9. SendersDiffer'
  BY <1>1, <1>2, <1>6 DEF SendInv, SendersDiffer
<1> QED
  BY <1>2, <1>4, <1>7, <1>8, <1>9 DEF SendInv, OneImport

LEMMA SendSend ==
  ASSUME TypeInv, SendInv, NEW w \in Workers, SendStep(w) PROVE SendInv'
<1> DEFINE e == [snap |-> wk[w].s, grant |-> wk[w].g]
<1>1. \A v \in Workers :
        Sending(v)' => v # w /\ Sending(v) /\ wk'[v].s = wk[v].s /\ wk'[v].g = wk[v].g
  BY SendCalmSending DEF SendStep, Sending
<1>2. /\ sent' = Append(sent, e) /\ issued' = issued /\ launch' = launch /\ ledger' = ledger
      /\ Sending(w)
  BY DEF SendStep, Sending
<1>3. \A i \in 1..Len(sent') :
        \/ i \in 1..Len(sent) /\ sent'[i] = sent[i]
        \/ i = Len(sent) + 1 /\ sent'[i].snap = wk[w].s /\ sent'[i].grant = wk[w].g
  BY <1>2 DEF TypeInv, SentOK
<1>4. ASSUME NEW v \in Workers, Sending(v)' PROVE SenderOK(v)' /\ NothingSent(v)'
  <2>1. SenderOK(v)'
    BY <1>1, <1>2, <1>4 DEF SendInv, SenderOK
  <2>2. NothingSent(v)'
    BY <1>1, <1>2, <1>3, <1>4 DEF SendInv, NothingSent, SendersDiffer
  <2> QED
    BY <2>1, <2>2
<1>5. \A i \in 1..Len(sent') : SentImportOK(i)'
  BY <1>2, <1>3 DEF SendInv, SentImportOK, SenderOK
<1>6. SendersDiffer'
  BY <1>1 DEF SendInv, SendersDiffer
<1>7. OneImport'
  BY <1>2, <1>3, SendTypesOf DEF SendInv, OneImport, NothingSent
<1> QED
  BY <1>2, <1>4, <1>5, <1>6, <1>7 DEF SendInv

LEMMA NextSendInv == TypeInv /\ SendInv /\ [Next]_vars => SendInv'
BY NextImport, NextLedger, QuietSend, ApproveSend, StartSend, SendSend DEF ImportKind

LEMMA SendInvInvariant == Spec => []SendInv
BY InitSendInv, NextSendInv, TypeInvInvariant, PTL DEF Spec

\* A snapshot is imported at most once and a grant lets at most one import go, for
\* any number of workers that run the same job, of approvals, retries and faults.
THEOREM ImportedOnce == Spec => []OneImport
<1>1. SendInv => OneImport
  BY DEF SendInv
<1> QED
  BY <1>1, SendInvInvariant, PTL

\* The ledger says of every import that has left that it has left: no crash, late
\* answer or reconciliation makes it available for sending again.
THEOREM ImportsAreOnRecord == Spec => []SentIsRecorded
<1>1. SendInv => SentIsRecorded
  BY DEF SendInv, SentImportOK, SentIsRecorded, Started, Left
<1> QED
  BY <1>1, SendInvInvariant, PTL

-----------------------------------------------------------------------------
(* Decisions.  No operation on a proposal starts from a status that is an  *)
(* end, and only a confirmed outcome makes one EXECUTED.                   *)

DecisionsStand ==
  \A p \in Proposals : proposal[p].status \in Ended =>
    /\ proposal'[p].status = proposal[p].status
    /\ proposal'[p].runs = proposal[p].runs

NoneExecuted ==
  \A p \in Proposals : proposal'[p].status = "EXECUTED" => proposal[p].status = "EXECUTED"

LEMMA SameProposal == ASSUME proposal' = proposal PROVE DecisionsStand /\ NoneExecuted
BY DEF DecisionsStand, NoneExecuted

LEMMA MoveDecides ==
  ASSUME ProposalTypeOK, NEW p, NEW to, NEW slot,
         NEW from \in {"PENDING", "EXECUTING", "CHANGES_REQUESTED", "APPROVED"},
         Move(p, from, to, slot)
  PROVE  DecisionsStand /\ (to # "EXECUTED" => NoneExecuted)
BY DEF ProposalTypeOK, Proposal, Move, DecisionsStand, NoneExecuted, Ended

LEMMA OperationDecides ==
  ASSUME ProposalTypeOK, NEW p,
         \/ ExpireAtClaim(p) \/ Dismiss(p) \/ Review(p) \/ Complete(p)
         \/ Move(p, "EXECUTING", "CHANGES_REQUESTED", TRUE)
         \/ Move(p, "EXECUTING", "FAILED", FALSE)
  PROVE  DecisionsStand /\ NoneExecuted
BY DEF ExpireAtClaim, Dismiss, Review, Complete, Move, ProposalTypeOK, Proposal, DecisionsStand,
       NoneExecuted, Ended

LEMMA RecoverDecides ==
  ASSUME ProposalTypeOK, NEW stale \in SUBSET Proposals, RecoverStale(stale)
  PROVE  DecisionsStand /\ NoneExecuted
<1> DEFINE old == {p \in stale : proposal[p].status = "EXECUTING"}
<1>1. ASSUME NEW p \in Proposals
      PROVE  \/ p \in old /\ proposal'[p].status = "UNKNOWN"
             \/ proposal'[p] = proposal[p]
  BY DEF RecoverStale, ProposalTypeOK, Proposal
<1>2. \A p \in old : proposal[p].status = "EXECUTING"
  OBVIOUS
<1> HIDE DEF old
<1> QED
  BY <1>1, <1>2 DEF DecisionsStand, NoneExecuted, Ended

LEMMA OutcomeDecides ==
  ASSUME ProposalTypeOK, NEW status, ReconcileOutcome(status)
  PROVE  DecisionsStand /\ (status # "EXECUTED" => NoneExecuted)
BY MoveDecides, SameProposal DEF ReconcileOutcome

LEMMA CreateDecides ==
  ASSUME ProposalTypeOK, CreateProposal PROVE DecisionsStand /\ NoneExecuted
BY SameProposal
DEF CreateProposal, ProposalTypeOK, Proposal, Unmade, DecisionsStand, NoneExecuted, Ended

LEMMA ApiDecides == ASSUME TypeInv, ByApi(ApiNext) PROVE DecisionsStand /\ NoneExecuted
<1> USE DEF TypeInv, ByApi
<1> DEFINE Calm == DecisionsStand /\ NoneExecuted
<1>1. ASSUME NEW u \in Users, RequestStep(u) \/ ConfirmLaunch(u) \/ RequestPublish(u)
                              \/ RequestFails(u)
      PROVE  Calm
  <2>1. CASE ConsumeGrant(u)
    <3>1. ASSUME NEW p, NEW attempt, Consume(p, attempt) PROVE Calm
      BY <3>1 DEF Consume, Consumable, ProposalTypeOK, Proposal, DecisionsStand, NoneExecuted,
                  Ended
    <3> QED
      BY <2>1, <3>1, SameProposal DEF ConsumeGrant
  <2>2. CASE CompleteExecution(u) \/ FailExecution(u)
    BY <2>2, OperationDecides, SameProposal DEF CompleteExecution, FailExecution, Fail
  <2>3. CASE proposal' = proposal
    BY <2>3, SameProposal
  <2> QED
    BY <1>1, <2>1, <2>2, <2>3
    DEF RequestStep, UpsertLaunch, EnqueuePrepare, UndoConfirm, ReadAwaiting, CheckListing,
        CaptureSnapshot, EvaluateSandbox, PrepareLedger, ApprovePublish, EnqueuePublish,
        RevertPublish, ConfirmLaunch, RequestPublish, RequestFails
<1>2. ASSUME NEW u \in Users, NEW p \in Proposals, ClaimProposal(u, p) PROVE Calm
  <2>1. ASSUME NEW override \in BOOLEAN, Claim(p, override) PROVE Calm
    BY <2>1 DEF Claim, Claimable, ProposalTypeOK, Proposal, DecisionsStand, NoneExecuted, Ended
  <2>2. CASE ExpireAtClaim(p)
    BY <2>2, OperationDecides
  <2> QED
    BY <1>2, <2>1, <2>2 DEF ClaimProposal
<1>3. ASSUME NEW p \in Proposals, DecideOtherwise(p) PROVE Calm
  BY <1>3, OperationDecides DEF DecideOtherwise
<1>4. ASSUME RecoverExecutions PROVE Calm
  BY <1>4, RecoverDecides DEF RecoverExecutions
<1> QED
  BY <1>1, <1>2, <1>3, <1>4 DEF ApiNext

LEMMA WorkerDecides ==
  ASSUME TypeInv, NEW w \in Workers, WorkerStep(w)
  PROVE  DecisionsStand /\ (NoneExecuted \/ wk[w].o = "ACTIVE_ON_OZON")
<1> USE DEF TypeInv
<1>1. CASE SettleProposal(w)
  BY <1>1, OutcomeDecides, SameProposal DEF SettleProposal
<1>2. CASE ProposePublish(w)
  BY <1>2, CreateDecides, SameProposal DEF ProposePublish
<1>3. CASE proposal' = proposal
  BY <1>3, SameProposal
<1> QED
  BY <1>1, <1>2, <1>3
  DEF WorkerStep, ReadLaunch, PassGates, PrepareSubmission, Preflight, LookUp, Reconcile,
      PersistOutcome, Notify, FailLaunch, MarkReconciliation, StartImages, GenerateImages,
      ReviewListing, AwaitApproval, FindSubmission, Begin, ClaimSubmission, LoadSnapshot,
      StartRequest, StartUnseen, SendImport, ReadAnswer, StoreResult, StoreUnknown,
      ReleaseSubmission

LEMMA RecoveryDecides ==
  ASSUME TypeInv, ByRecovery(RecoveryNext)
  PROVE  DecisionsStand /\ (NoneExecuted \/ scan.pc = "proposal")
BY OutcomeDecides, SameProposal
DEF TypeInv, ByRecovery, RecoveryNext, RecoveryStep, ScanLaunch, ClaimScan, ReadBack, ScanLookUp,
    ScanReconcile, ScanProposal, FinishRecovery, ScanFails

LEMMA NextDecides ==
  TypeInv /\ [Next]_vars =>
    /\ DecisionsStand
    /\ \/ NoneExecuted \/ scan.pc = "proposal"
       \/ \E w \in Workers : wk[w].o = "ACTIVE_ON_OZON"
<1> SUFFICES ASSUME TypeInv, [Next]_vars
             PROVE  /\ DecisionsStand
                    /\ \/ NoneExecuted \/ scan.pc = "proposal"
                       \/ \E w \in Workers : wk[w].o = "ACTIVE_ON_OZON"
  OBVIOUS
<1>1. CASE ByWorker(WorkerNext)
  BY <1>1, WorkerDecides, SameProposal
  DEF ByWorker, WorkerNext, TakeJob, QueryFails, QueryEnds, WorkerCrash
<1>2. CASE ByEnvironment(EnvironmentNext) \/ UNCHANGED vars
  BY <1>2, SameProposal DEF ByEnvironment, vars
<1> QED
  BY <1>1, <1>2, ApiDecides, RecoveryDecides DEF Next

\* What was decided about a proposal stays, and none of its grants is consumed any
\* more, whatever a late request, a recovery or a worker does with what it read.
THEOREM DecisionsAreFinal == Spec => DecidedIsFinal
<1>1. TypeInv /\ [Next]_vars =>
        [\A p \in Proposals : proposal[p].status \in Ended =>
           /\ proposal'[p].status = proposal[p].status
           /\ proposal'[p].runs = proposal[p].runs]_vars
  BY NextDecides DEF DecisionsStand
<1> QED
  BY <1>1, TypeInvInvariant, PTL DEF Spec, DecidedIsFinal

-----------------------------------------------------------------------------
(* Confirmation.  Whatever says that an offer is active, the locals of the *)
(* workers and of the scan included, was read from an active offer, and an *)
(* active offer stays active.                                              *)

WorkerSays(w) == wk[w].o = "ACTIVE_ON_OZON"
ScanSays      == scan.o = "ACTIVE_ON_OZON"

ConfirmInv ==
  /\ ActiveIsConfirmed
  /\ \A w \in Workers : WorkerSays(w) => offer = "active"
  /\ ScanSays => offer = "active"
  /\ scan.pc = "proposal" => ScanSays

OfferStays      == offer = "active" => offer' = "active"
WorkersTruthful == \A w \in Workers : WorkerSays(w)' => WorkerSays(w) \/ offer = "active"
ScanTruthful    == /\ ScanSays' => ScanSays \/ offer = "active"
                   /\ scan'.pc = "proposal" => scan' = scan \/ ScanSays'
NoneActivated   == launch'.status = "ACTIVE_ON_OZON" => launch.status = "ACTIVE_ON_OZON"

LEMMA InitConfirmInv == Init => ConfirmInv
BY DEF Init, StoreInit, ProposalInit, WorkerInit, RecoveryInit, IdleWorker, IdleScan, ConfirmInv,
       ActiveIsConfirmed, WorkerSays, ScanSays

LEMMA SetSays ==
  ASSUME WkOK, NEW w \in Workers, NEW v, wk' = [wk EXCEPT ![w] = v],
         v.o = "ACTIVE_ON_OZON" => WorkerSays(w) \/ offer = "active"
  PROVE  WorkersTruthful
BY DEF WkOK, WorkersTruthful, WorkerSays

LEMMA GotoSays == ASSUME WkOK, NEW w \in Workers, NEW pc, Goto(w, pc) PROVE WorkersTruthful
BY DEF Goto, WkOK, Worker, WorkersTruthful, WorkerSays

LEMMA EndSays == ASSUME WkOK, NEW w \in Workers, NEW ok, EndAttempt(w, ok) PROVE WorkersTruthful
<1>1. IdleWorker.o # "ACTIVE_ON_OZON"
  BY DEF IdleWorker
<1> QED
  BY <1>1, SetSays DEF EndAttempt

LEMMA SameSays == ASSUME wk' = wk PROVE WorkersTruthful
BY DEF WorkersTruthful, WorkerSays

LEMMA WorkerTruth == ASSUME TypeInv, NEW w \in Workers, WorkerStep(w) PROVE WorkersTruthful
<1> USE DEF TypeInv
<1>0. wk[w] \in Worker
  BY AtPlace
<1>1. ASSUME ReadLaunch(w) PROVE WorkersTruthful
  <2>1. ASSUME NEW s, NEW pc, wk' = [wk EXCEPT ![w].s = s, ![w].pc = pc] PROVE WorkersTruthful
    BY <1>0, <2>1 DEF WkOK, Worker, WorkersTruthful, WorkerSays
  <2> QED
    BY <1>1, <2>1, EndSays DEF ReadLaunch
<1>2. ASSUME NEW pc, NEW o, o = "ACTIVE_ON_OZON" => offer = "active",
             wk' = [wk EXCEPT ![w].o = o, ![w].pc = pc]
      PROVE  WorkersTruthful
  BY <1>0, <1>2 DEF WkOK, Worker, WorkersTruthful, WorkerSays
<1>3. ASSUME Preflight(w) PROVE WorkersTruthful
  <2>1. Readback[offer] = "ACTIVE_ON_OZON" => offer = "active"
    BY DEF Readback, OfferOK
  <2> QED
    BY <1>2, <1>3, <2>1, GotoSays DEF Preflight
<1>4. ASSUME \/ PassGates(w) \/ PrepareSubmission(w) \/ Reconcile(w) \/ PersistOutcome(w)
             \/ SettleProposal(w) \/ StartImages(w) \/ GenerateImages(w) \/ ReviewListing(w)
             \/ AwaitApproval(w) \/ Begin(w)
      PROVE  WorkersTruthful
  BY <1>4, GotoSays
  DEF PassGates, PrepareSubmission, Reconcile, PersistOutcome, SettleProposal, StartImages,
      GenerateImages, ReviewListing, AwaitApproval, Begin
<1>5. ASSUME \/ Notify(w) \/ FailLaunch(w) \/ MarkReconciliation(w) \/ ProposePublish(w)
             \/ FindSubmission(w) \/ StoreResult(w) \/ StoreUnknown(w) \/ ReleaseSubmission(w)
      PROVE  WorkersTruthful
  BY <1>5, GotoSays, EndSays
  DEF Notify, FailLaunch, MarkReconciliation, ProposePublish, FindSubmission, StoreResult,
      StoreUnknown, ReleaseSubmission
<1>6. ASSUME LookUp(w) \/ ClaimSubmission(w) PROVE WorkersTruthful
  <2>1. ASSUME NEW x, \/ wk' = [wk EXCEPT ![w].pc = "load", ![w].token = x]
                      \/ wk' = [wk EXCEPT ![w].pc = "reconcile", ![w].seen = x]
        PROVE  WorkersTruthful
    BY <1>0, <2>1 DEF WkOK, Worker, WorkersTruthful, WorkerSays
  <2> QED
    BY <1>6, <2>1, GotoSays, EndSays DEF LookUp, ClaimSubmission
<1>7. ASSUME wk' = [wk EXCEPT ![w].pc = "release", ![w].throws = TRUE] PROVE WorkersTruthful
  BY <1>0, <1>7 DEF WkOK, Worker, WorkersTruthful, WorkerSays
<1>8. ASSUME LoadSnapshot(w) PROVE WorkersTruthful
  <2>1. ASSUME NEW o \in {"none", "FAILED", "BLOCKED"}, NEW throws,
               wk' = [wk EXCEPT ![w].pc = "release", ![w].o = o, ![w].throws = throws]
        PROVE  WorkersTruthful
    BY <1>0, <2>1 DEF WkOK, Worker, WorkersTruthful, WorkerSays
  <2> QED
    BY <1>8, <2>1, GotoSays DEF LoadSnapshot
<1>9. ASSUME StartRequest(w) \/ StartUnseen(w) PROVE WorkersTruthful
  BY <1>7, <1>9, GotoSays DEF StartRequest, StartUnseen
<1>10. ASSUME SendImport(w) \/ ReadAnswer(w) PROVE WorkersTruthful
  <2>1. ASSUME wk' = [wk EXCEPT ![w].pc = "unknown", ![w].throws = TRUE] PROVE WorkersTruthful
    BY <1>0, <2>1 DEF WkOK, Worker, WorkersTruthful, WorkerSays
  <2>2. ASSUME NEW o, o = "ACTIVE_ON_OZON" => offer = "active",
               wk' = [wk EXCEPT ![w].pc = "result", ![w].o = o]
        PROVE  WorkersTruthful
    BY <1>0, <2>2 DEF WkOK, Worker, WorkersTruthful, WorkerSays
  <2>3. Readback[offer] = "ACTIVE_ON_OZON" => offer = "active"
    BY DEF Readback, OfferOK
  <2> QED
    BY <1>10, <2>1, <2>2, <2>3, GotoSays DEF SendImport, ReadAnswer
<1> QED
  BY <1>1, <1>3, <1>4, <1>5, <1>6, <1>8, <1>9, <1>10 DEF WorkerStep

\* What a worker writes on the launch: the outcome it holds, or a status that
\* claims nothing.
LEMMA WorkerActivates ==
  ASSUME TypeInv, NEW w \in Workers, WorkerStep(w)
  PROVE  OfferStays /\ (NoneActivated \/ WorkerSays(w))
<1> USE DEF TypeInv, OfferStays, NoneActivated, WorkerSays
<1>1. CASE PersistOutcome(w)
  BY <1>1 DEF PersistOutcome, LaunchOK, Launch, Rest
<1>2. CASE FailLaunch(w) \/ MarkReconciliation(w) \/ StartImages(w) \/ AwaitApproval(w)
  BY <1>2 DEF FailLaunch, MarkReconciliation, StartImages, AwaitApproval, Unapproved, LaunchOK,
              Launch
<1>3. CASE ClaimSubmission(w) \/ StartRequest(w) \/ ReleaseSubmission(w)
  BY <1>3 DEF ClaimSubmission, ClaimForSend, StartRequest, MarkRequestStarted, ReleaseSubmission,
              ReleaseClaim, LaunchOK, Launch
<1>4. CASE SendImport(w)
  BY <1>4 DEF SendImport
<1> QED
  BY <1>1, <1>2, <1>3, <1>4
  DEF WorkerStep, ReadLaunch, PassGates, PrepareSubmission, Preflight, LookUp, Reconcile,
      SettleProposal, Notify, GenerateImages, ReviewListing, ProposePublish, FindSubmission,
      Begin, LoadSnapshot, StartUnseen, ReadAnswer, StoreResult, StoreUnknown

LEMMA ApiActivates == ASSUME TypeInv, ByApi(ApiNext) PROVE OfferStays /\ NoneActivated
<1>1. ASSUME NEW u \in Users, RequestStep(u)
      PROVE  offer' = offer /\ (launch' = launch \/ launch'.status # "ACTIVE_ON_OZON")
  <2>1. CASE UpsertLaunch(u) \/ UndoConfirm(u) \/ ApprovePublish(u) \/ RevertPublish(u)
    BY <2>1 DEF TypeInv, LaunchOK, Launch, UpsertLaunch, UndoConfirm, ApprovePublish,
                RevertPublish, Unapproved, Kept
  <2>2. CASE \/ EnqueuePrepare(u) \/ EnqueuePublish(u) \/ ConsumeGrant(u)
             \/ CompleteExecution(u) \/ FailExecution(u)
    BY <2>2 DEF EnqueuePrepare, EnqueuePublish, ConsumeGrant, CompleteExecution, FailExecution,
                Kept
  <2>3. CASE \/ ReadAwaiting(u) \/ CheckListing(u) \/ CaptureSnapshot(u)
             \/ EvaluateSandbox(u) \/ PrepareLedger(u)
    BY <2>3 DEF ReadAwaiting, CheckListing, CaptureSnapshot, EvaluateSandbox, PrepareLedger, Kept
  <2> QED
    BY <1>1, <2>1, <2>2, <2>3 DEF RequestStep
<1>2. ASSUME NEW u \in Users, \/ ConfirmLaunch(u) \/ RequestPublish(u) \/ RequestFails(u)
                               \/ \E p \in Proposals : ClaimProposal(u, p)
      PROVE  UNCHANGED <<offer, launch>>
  BY <1>2 DEF ConfirmLaunch, RequestPublish, RequestFails, ClaimProposal, Kept
<1>3. ASSUME RecoverExecutions \/ \E p \in Proposals : DecideOtherwise(p)
      PROVE  UNCHANGED <<offer, launch>>
  BY <1>3 DEF DecideOtherwise, RecoverExecutions, Kept
<1>4. (\E u \in Users : RequestStep(u)) \/ UNCHANGED <<offer, launch>>
  BY <1>2, <1>3 DEF ByApi, ApiNext
<1> QED
  BY <1>1, <1>4 DEF OfferStays, NoneActivated

LEMMA RecoveryActivates ==
  ASSUME TypeInv, ByRecovery(RecoveryNext)
  PROVE  OfferStays /\ ScanTruthful /\ (NoneActivated \/ ScanSays)
<1> USE DEF TypeInv, ScanOK, Scan, ByRecovery, RecoveryNext, RecoveryStep, Untouched
<1>1. OfferStays
  BY DEF ScanLaunch, ClaimScan, ReadBack, ScanLookUp, ScanReconcile, ScanProposal,
         FinishRecovery, ScanFails, OfferStays
<1>2. NoneActivated \/ ScanSays
  BY DEF ScanLaunch, ClaimScan, ReadBack, ScanLookUp, ScanReconcile, ScanProposal,
         FinishRecovery, ScanFails, NoneActivated, ScanSays, LaunchOK, Launch
<1>3. ScanTruthful
  <2>1. CASE Touch
    BY <2>1 DEF Touch, IdleScan, ScanTruthful, ScanSays
  <2>2. CASE scan' = scan
    BY <2>2 DEF ScanTruthful, ScanSays
  <2>3. CASE ScanLaunch
    BY <2>3 DEF ScanLaunch, IdleScan, ScanTruthful, ScanSays
  <2>4. CASE ScanLookUp
    BY <2>4 DEF ScanLookUp, ScanTruthful, ScanSays
  <2>5. CASE ReadBack
    <3> DEFINE o == [absent |-> "none", pending |-> "SUBMITTED_TO_OZON",
                     active |-> "ACTIVE_ON_OZON"]
    <3>1. o[offer] = "ACTIVE_ON_OZON" => offer = "active"
      BY DEF OfferOK
    <3>2. ASSUME scan' = [scan EXCEPT !.pc = "lookup", !.o = o[offer]] PROVE ScanTruthful
      <4>1. scan'.pc = "lookup" /\ scan'.o = o[offer]
        BY <3>2
      <4> HIDE DEF o
      <4> QED
        BY <3>1, <4>1 DEF ScanTruthful, ScanSays
    <3> QED
      BY <2>1, <2>5, <3>2 DEF ReadBack
  <2>6. CASE ClaimScan \/ ScanReconcile \/ ScanProposal
    BY <2>1, <2>6 DEF ClaimScan, ScanReconcile, ScanProposal, Step, ScanTruthful, ScanSays
  <2> QED
    BY <2>1, <2>2, <2>3, <2>4, <2>5, <2>6 DEF FinishRecovery, ScanFails
<1> QED
  BY <1>1, <1>2, <1>3

LEMMA NextConfirmInv == TypeInv /\ ConfirmInv /\ [Next]_vars => ConfirmInv'
<1> SUFFICES ASSUME TypeInv, ConfirmInv, [Next]_vars PROVE ConfirmInv'
  OBVIOUS
<1>1. OfferStays /\ WorkersTruthful /\ ScanTruthful
      /\ (NoneActivated \/ ScanSays \/ \E w \in Workers : WorkerSays(w))
  <2>1. ASSUME scan' = scan PROVE ScanTruthful
    BY <2>1 DEF ScanTruthful, ScanSays
  <2>2. ASSUME NEW w \in Workers, WorkerStep(w), UNCHANGED scan PROVE <1>1
    BY <2>1, <2>2, WorkerTruth, WorkerActivates
  <2>3. ASSUME ByWorker(WorkerNext), ~\E w \in Workers : WorkerStep(w) PROVE <1>1
    <3>1. scan' = scan /\ offer' = offer /\ launch' = launch
      BY <2>3 DEF ByWorker, WorkerNext, TakeJob, QueryFails, QueryEnds, WorkerCrash
    <3>2. ASSUME NEW w \in Workers, NEW j \in Jobs, TakeJob(w, j) PROVE WorkersTruthful
      <4> DEFINE v == [IdleWorker EXCEPT !.pc = "read", !.j = j, !.g = job[j].grant]
      <4>1. v.o = "none"
        BY DEF IdleWorker
      <4>2. wk' = wk \/ wk' = [wk EXCEPT ![w] = v]
        BY <3>2 DEF TakeJob
      <4> HIDE DEF v
      <4> QED
        BY <4>1, <4>2, SetSays, SameSays DEF TypeInv
    <3>3. ASSUME NEW w \in Workers, WorkerCrash(w) PROVE WorkersTruthful
      <4>1. IdleWorker.o # "ACTIVE_ON_OZON" /\ wk' = [wk EXCEPT ![w] = IdleWorker]
        BY <3>3 DEF IdleWorker, WorkerCrash
      <4> QED
        BY <4>1, SetSays DEF TypeInv
    <3>4. WorkersTruthful
      BY <2>3, <3>2, <3>3, GotoSays, EndSays
      DEF TypeInv, ByWorker, WorkerNext, QueryFails, QueryEnds
    <3> QED
      BY <2>1, <3>1, <3>4 DEF OfferStays, NoneActivated
  <2>4. CASE ByApi(ApiNext)
    BY <2>1, <2>4, ApiActivates, SameSays DEF ByApi
  <2>5. CASE ByRecovery(RecoveryNext)
    BY <2>5, RecoveryActivates, SameSays DEF ByRecovery
  <2>6. CASE ByEnvironment(EnvironmentNext)
    <3>1. OfferStays /\ NoneActivated
      BY <2>6
      DEF ByEnvironment, EnvironmentNext, ApproveListing, RemoveListing, GrantExpires,
          OfferActivated, OverrideReport, EvictJob, StallJob, OfferStays, NoneActivated, TypeInv,
          LaunchOK, Launch
    <3> QED
      BY <2>1, <2>6, <3>1, SameSays DEF ByEnvironment
  <2>7. CASE UNCHANGED vars
    BY <2>1, <2>7, SameSays DEF vars, launchVars, OfferStays, NoneActivated
  <2> QED
    BY <2>2, <2>3, <2>4, <2>5, <2>6, <2>7 DEF Next, ByWorker
<1>2. NoneExecuted \/ ScanSays \/ \E w \in Workers : WorkerSays(w)
  BY NextDecides DEF ConfirmInv, WorkerSays
<1>3. ActiveIsConfirmed'
  BY <1>1, <1>2 DEF ConfirmInv, ActiveIsConfirmed, OfferStays, NoneActivated, NoneExecuted
<1>4. /\ \A w \in Workers : WorkerSays(w)' => offer' = "active"
      /\ ScanSays' => offer' = "active"
      /\ scan'.pc = "proposal" => ScanSays'
  BY <1>1 DEF ConfirmInv, OfferStays, WorkersTruthful, ScanTruthful, ScanSays
<1> QED
  BY <1>3, <1>4 DEF ConfirmInv

LEMMA ConfirmInvInvariant == Spec => []ConfirmInv
BY InitConfirmInv, NextConfirmInv, TypeInvInvariant, PTL DEF Spec

\* No launch is shown as active and no proposal as executed before Ozon said that
\* the offer is active, however late the readback and whoever wrote it.
THEOREM ActivityIsConfirmed == Spec => []ActiveIsConfirmed
<1>1. ConfirmInv => ActiveIsConfirmed
  BY DEF ConfirmInv
<1> QED
  BY <1>1, ConfirmInvInvariant, PTL

-----------------------------------------------------------------------------
(* Refinement: a change of the ledger is Record, Answer or a stutter of    *)
(* ImportPromise, an approval is Approve, and sending is Import.           *)

LEMMA InitImportPromise == Init => Promise!Init
BY DEF Init, StoreInit, Promise!Init, AnswerOf, Started

LEMMA MovedAnswer ==
  ASSUME TypeInv, NEW s \in Snapshots, Moved(s)
  PROVE  /\ \A t \in Snapshots : t # s => AnswerOf(t)' = AnswerOf(t)
         /\ \/ AnswerOf(s)' = AnswerOf(s)
            \/ AnswerOf(s) = "none" /\ AnswerOf(s)' = "open"
            \/ /\ AnswerOf(s)' \in Promise!Final
               /\ \/ AnswerOf(s) \in {"none", "open"}
                  \/ AnswerOf(s) = "acknowledged" /\ AnswerOf(s)' = "succeeded"
<1>1. \A t \in Snapshots : t # s => ledger'[t] = ledger[t]
  BY DEF Moved, TypeInv, LedgerOK
<1>2. Legal(ledger[s].status, ledger'[s].status)
  BY DEF Moved, TypeInv, LedgerOK
<1>3. \A t \in Snapshots : t # s => AnswerOf(t)' = AnswerOf(t)
  BY <1>1 DEF AnswerOf, Started
<1>4. \/ AnswerOf(s)' = AnswerOf(s)
      \/ AnswerOf(s) = "none" /\ AnswerOf(s)' = "open"
      \/ /\ AnswerOf(s)' \in Promise!Final
         /\ \/ AnswerOf(s) \in {"none", "open"}
            \/ AnswerOf(s) = "acknowledged" /\ AnswerOf(s)' = "succeeded"
  BY <1>2 DEF Legal, Sendable, Ambiguous, Reconcilable, AnswerOf, Started, Promise!Final
<1> QED
  BY <1>3, <1>4

LEMMA SameAnswers ==
  ASSUME ledger' = ledger
  PROVE  [s \in Snapshots |-> AnswerOf(s)]' = [s \in Snapshots |-> AnswerOf(s)]
BY DEF AnswerOf, Started

LEMMA LedgerPromise ==
  ASSUME TypeInv, LedgerStep, sent' = sent, issued' = issued
  PROVE  [Promise!Next]_(Promise!promiseVars)
<1> DEFINE A == [s \in Snapshots |-> AnswerOf(s)]
<1>1. CASE UNCHANGED ledger
  BY <1>1, SameAnswers DEF Promise!promiseVars
<1>2. ASSUME NEW s \in Snapshots, Moved(s) PROVE [Promise!Next]_(Promise!promiseVars)
  <2>1. A' = [A EXCEPT ![s] = AnswerOf(s)'] /\ A[s] = AnswerOf(s)
    BY <1>2, MovedAnswer
  <2>2. CASE AnswerOf(s)' = AnswerOf(s)
    <3>1. A' = A
      BY <2>1, <2>2
    <3> QED
      BY <3>1 DEF Promise!promiseVars
  <2>3. CASE AnswerOf(s) = "none" /\ AnswerOf(s)' = "open"
    <3>1. Promise!Record(s)
      BY <2>1, <2>3 DEF Promise!Record
    <3> QED
      BY <3>1 DEF Promise!Next
  <2>4. CASE /\ AnswerOf(s)' \in Promise!Final
             /\ \/ AnswerOf(s) \in {"none", "open"}
                \/ AnswerOf(s) = "acknowledged" /\ AnswerOf(s)' = "succeeded"
    <3>1. Promise!Answer(s, AnswerOf(s)')
      BY <2>1, <2>4 DEF Promise!Answer
    <3> QED
      BY <2>4, <3>1 DEF Promise!Next
  <2> QED
    BY <1>2, <2>2, <2>3, <2>4, MovedAnswer
<1> QED
  BY <1>1, <1>2 DEF LedgerStep

LEMMA SendPromise ==
  ASSUME TypeInv, SendInv, NEW w \in Workers, SendStep(w),
         NEW s, s = wk[w].s, NEW g, g = wk[w].g
  PROVE  [Promise!Next]_(Promise!promiseVars)
<1> DEFINE e == [snap |-> s, grant |-> g]
           imports == {sent[i] : i \in 1..Len(sent)}
<1>1. s \in Snapshots /\ g \in Nat /\ Started(s) /\ g # 0 /\ g <= issued
  BY SendTypesOf DEF SendInv, SendStep, Sending, SenderOK, Left, Started
<1>2. g \in 1..issued /\ g \in 1..MaxGrants
  BY <1>1 DEF TypeInv, IssuedOK, Grants
<1>3. imports' = imports \cup {e}
  <2> DEFINE Import == [snap : Snapshots, grant : Grants]
  <2>1. sent \in Seq(Import) /\ e \in Import /\ sent' = Append(sent, e)
    BY <1>1, AtPlace DEF TypeInv, SentOK, SendStep
  <2> HIDE DEF Import, e
  <2>2. /\ Len(sent) \in Nat /\ Len(sent') = Len(sent) + 1
        /\ \A i \in 1..Len(sent) : sent'[i] = sent[i]
        /\ sent'[Len(sent) + 1] = e
    BY <2>1
  <2> QED
    BY <2>2
<1>4. \A i \in imports : i.snap # s /\ i.grant # g
  BY DEF SendInv, SendStep, Sending, NothingSent
<1>5. AnswerOf(s) # "none"
  <2>1. ledger[s].status \in SubmissionStatus
    BY <1>1 DEF TypeInv, LedgerOK, Submission
  <2> QED
    BY <1>1, <2>1 DEF AnswerOf, Started, SubmissionStatus
<1>6. [t \in Snapshots |-> AnswerOf(t)]' = [t \in Snapshots |-> AnswerOf(t)] /\ issued' = issued
  BY SameAnswers DEF SendStep
<1>7. Promise!Import(s, g)
  BY <1>1, <1>2, <1>3, <1>4, <1>5, <1>6 DEF Promise!Import
<1> QED
  BY <1>1, <1>2, <1>7 DEF Promise!Next

LEMMA NextImportPromise ==
  TypeInv /\ SendInv /\ [Next]_vars => [Promise!Next]_(Promise!promiseVars)
<1> SUFFICES ASSUME TypeInv, SendInv, [Next]_vars PROVE [Promise!Next]_(Promise!promiseVars)
  OBVIOUS
<1>1. LedgerStep /\ ImportKind
  BY NextLedger, NextImport
<1>2. CASE QuietStep \/ \E w \in Workers : StartStep(w)
  BY <1>1, <1>2, LedgerPromise DEF QuietStep, StartStep
<1>3. CASE ApproveStep
  <2>1. issued < MaxGrants
    BY <1>3, NextTypeInv DEF ApproveStep, TypeInv, IssuedOK, Grants
  <2>2. Promise!Approve
    BY <1>3, <2>1, SameAnswers DEF ApproveStep, Promise!Approve
  <2> QED
    BY <2>2 DEF Promise!Next
<1>4. ASSUME NEW w \in Workers, SendStep(w) PROVE [Promise!Next]_(Promise!promiseVars)
  <2>1. PICK s, g : s = wk[w].s /\ g = wk[w].g
    OBVIOUS
  <2> QED
    BY <1>4, <2>1, SendPromise
<1> QED
  BY <1>1, <1>2, <1>3, <1>4 DEF ImportKind

\* The subsystem implements ImportPromise, for any number of listings, snapshots,
\* grants, workers, requests, proposals and faults.
THEOREM ImportPromiseHolds == Spec => ImportsKeepPromise
<1>1. Init => Promise!Init
  BY InitImportPromise
<1>2. TypeInv /\ SendInv /\ [Next]_vars => [Promise!Next]_(Promise!promiseVars)
  BY NextImportPromise
<1> QED
  BY <1>1, <1>2, TypeInvInvariant, SendInvInvariant, PTL DEF Spec, ImportsKeepPromise, Promise!Spec
=============================================================================
