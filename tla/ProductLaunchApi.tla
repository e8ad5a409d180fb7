--------------------------- MODULE ProductLaunchApi ---------------------------
(***************************************************************************)
(* What people do to a launch: confirm it (ProductLaunchService.confirm),  *)
(* approve its publication (confirmPublish), directly or by deciding the   *)
(* action proposal (NotificationsService.decide, decideProposal).  Each    *)
(* await is a step of the request u.                                       *)
(***************************************************************************)
EXTENDS ExternalSubmissions, ActionProposals

CONSTANT Users   \* requests that may be open at the same time

VARIABLE rq

IdleRequest == [pc |-> "idle", p |-> 0, doc |-> 0, s |-> 0, g |-> 0, blocked |-> FALSE]

Request == [pc : {"idle", "upsert", "enqueue", "undo",          \* confirm
                  "consume", "read", "check", "capture", "sandbox", "prepare",
                  "approve", "add", "revert",                   \* confirmPublish
                  "complete", "fail"},                          \* the proposal
            p       : Proposals \cup {0},    \* the proposal that is executed, if any
            doc     : Listings,              \* launch.listingDraftId when read
            s       : Snapshots \cup {0},    \* the captured snapshot
            g       : Grants,                \* the publish grant that it issued
            blocked : BOOLEAN]               \* the error is LISTING_SANDBOX_BLOCKED

ApiTypeOK == rq \in [Users -> Request]
ApiInit == rq = [u \in Users |-> IdleRequest]

Proceed(u, pc) == rq' = [rq EXCEPT ![u].pc = pc]
Answer(u) == rq' = [rq EXCEPT ![u] = IdleRequest]

\* An exception of confirmPublish: the proposal fails with it, if there is one.
Refuse(u) == IF rq[u].p = 0 THEN Answer(u) ELSE Proceed(u, "fail")

Kept == <<listing, offer, sent>>

-----------------------------------------------------------------------------
(* confirm: a new launch, or one that FAILED or was BLOCKED.  The upsert   *)
(* does not look at the status again.                                      *)

ConfirmLaunch(u) ==
  /\ rq[u] = IdleRequest /\ launch.status \in {"NONE", "FAILED", "BLOCKED"}
  /\ Proceed(u, "upsert")
  /\ UNCHANGED <<launch, ledger, snapshot, job, issued, faults, proposal, Kept>>

UpsertLaunch(u) ==
  /\ rq[u].pc = "upsert" /\ Proceed(u, "enqueue")
  /\ launch' = [Unapproved("QUEUED") EXCEPT !.listing = 0]
  /\ UNCHANGED <<ledger, snapshot, job, issued, faults, proposal, Kept>>

EnqueuePrepare(u) ==
  /\ rq[u].pc = "enqueue"
  /\ \/ AddJob(0, 0) /\ Answer(u) /\ UNCHANGED faults
     \/ Suffer("redis") /\ Proceed(u, "undo") /\ UNCHANGED job
  /\ UNCHANGED <<launch, ledger, snapshot, issued, proposal, Kept>>

UndoConfirm(u) ==
  /\ rq[u].pc = "undo" /\ Answer(u)
  /\ launch' = [launch EXCEPT !.status = "FAILED"]
  /\ UNCHANGED <<ledger, snapshot, job, issued, faults, proposal, Kept>>

-----------------------------------------------------------------------------
(* Deciding a proposal.                                                    *)

\* decide and decideProposal claim it; too late, the claim expires it.
ClaimProposal(u, p) ==
  /\ rq[u] = IdleRequest
  /\ \/ /\ \E override \in BOOLEAN : Claim(p, override)
        /\ rq' = [rq EXCEPT ![u] = [IdleRequest EXCEPT !.pc = "consume", !.p = p]]
        /\ UNCHANGED faults
     \/ Suffer("late") /\ ExpireAtClaim(p) /\ UNCHANGED rq
  /\ UNCHANGED <<launch, ledger, snapshot, job, issued, Kept>>

\* The request holds the grant of its own claim; nobody claims twice before it
\* is settled, so that is the grant of the last attempt, unless it was recovered.
ConsumeGrant(u) ==
  LET p == rq[u].p IN
  /\ rq[u].pc = "consume"
  /\ \/ Consume(p, proposal[p].attempt) /\ Proceed(u, "read")
     \/ ~Consumable(p, proposal[p].attempt) /\ Proceed(u, "fail") /\ UNCHANGED proposal
  /\ UNCHANGED <<launch, ledger, snapshot, job, issued, faults, Kept>>

\* dismiss, reject and request changes.
DecideOtherwise(p) ==
  /\ (Dismiss(p) \/ Review(p))
  /\ UNCHANGED <<launch, ledger, snapshot, job, issued, faults, rq, Kept>>

CompleteExecution(u) ==
  /\ rq[u].pc = "complete"
  /\ \/ Complete(rq[u].p) /\ Answer(u)
     \/ proposal[rq[u].p].status # "EXECUTING" /\ Proceed(u, "fail") /\ UNCHANGED proposal
  /\ UNCHANGED <<launch, ledger, snapshot, job, issued, faults, Kept>>

FailExecution(u) ==
  /\ rq[u].pc = "fail" /\ Answer(u)
  /\ \/ Fail(rq[u].p, rq[u].blocked)
     \/ proposal[rq[u].p].status # "EXECUTING" /\ UNCHANGED proposal
  /\ UNCHANGED <<launch, ledger, snapshot, job, issued, faults, Kept>>

\* ActionProposalRecoveryService: an execution claimed long ago becomes UNKNOWN,
\* whether its request is gone or merely slow; heartbeats are not looked at.
RecoverExecutions ==
  /\ \E stale \in SUBSET Proposals : RecoverStale(stale)
  /\ UNCHANGED <<launch, ledger, snapshot, job, issued, faults, rq, Kept>>

-----------------------------------------------------------------------------
(* confirmPublish.                                                         *)

RequestPublish(u) ==
  /\ rq[u] = IdleRequest /\ Proceed(u, "read")
  /\ UNCHANGED <<launch, ledger, snapshot, job, issued, faults, proposal, Kept>>

ReadAwaiting(u) ==
  /\ rq[u].pc = "read"
  /\ IF launch.status = "AWAITING_PUBLISH_APPROVAL" /\ launch.listing # 0
       THEN rq' = [rq EXCEPT ![u].pc = "check", ![u].doc = launch.listing]
       ELSE Refuse(u)
  /\ UNCHANGED <<launch, ledger, snapshot, job, issued, faults, proposal, Kept>>

ListingApproved(doc) == listing.v = doc /\ listing.state = "APPROVED"

CheckListing(u) ==
  /\ rq[u].pc = "check"
  /\ IF ListingApproved(rq[u].doc) THEN Proceed(u, "capture") ELSE Refuse(u)
  /\ UNCHANGED <<launch, ledger, snapshot, job, issued, faults, proposal, Kept>>

\* captureApproved: the launch's latest approved snapshot if there is one, and
\* then nothing is compared with the listing; else one of the approved listing.
Reusable == {s \in Snapshots : snapshot[s].status = "APPROVED"}
Fresh    == {s \in Snapshots : snapshot[s].status = "none"}
Bound(doc) == launch.listing \in {0, doc} /\ ListingApproved(doc)

CaptureSnapshot(u) ==
  LET With(s) == rq' = [rq EXCEPT ![u].pc = "sandbox", ![u].s = s] IN
  /\ rq[u].pc = "capture"
  /\ \/ \E s \in Reusable : /\ \A t \in Reusable : t <= s
                            /\ With(s) /\ UNCHANGED snapshot
     \/ /\ Reusable = {} /\ Bound(rq[u].doc)
        /\ \E s \in Fresh :
             /\ \A t \in Fresh : s <= t
             /\ snapshot' = [snapshot EXCEPT ![s] = [status |-> "APPROVED", report |-> "none",
                                                     content |-> rq[u].doc]]
             /\ With(s)
     \/ Reusable = {} /\ ~Bound(rq[u].doc) /\ Refuse(u) /\ UNCHANGED snapshot
  /\ UNCHANGED <<launch, ledger, job, issued, faults, proposal, Kept>>

\* ListingSandboxService.evaluate and assertPublishable: a first report decides
\* the status of the snapshot, a later call finds that report.  A clear one may
\* still ask for a reviewer (medium risk).
EvaluateSandbox(u) ==
  LET s == rq[u].s
      Block == IF rq[u].p = 0 THEN Answer(u)
               ELSE rq' = [rq EXCEPT ![u].pc = "fail", ![u].blocked = TRUE]
  IN
  /\ rq[u].pc = "sandbox"
  /\ \/ /\ snapshot[s].status \notin {"APPROVED", "BLOCKED"} /\ Refuse(u) /\ UNCHANGED snapshot
     \/ /\ snapshot[s].status \in {"APPROVED", "BLOCKED"}
        /\ \E report \in IF snapshot[s].report = "none" THEN {"clear", "blocked"}
                         ELSE {snapshot[s].report} :
             /\ snapshot' = IF snapshot[s].report # "none" THEN snapshot
                            ELSE [snapshot EXCEPT
                                    ![s].report = report,
                                    ![s].status = IF report = "clear" THEN "APPROVED"
                                                  ELSE "BLOCKED"]
             /\ \/ report = "clear" /\ (Proceed(u, "prepare") \/ Refuse(u))
                \/ report = "blocked" /\ Block
  /\ UNCHANGED <<launch, ledger, job, issued, faults, proposal, Kept>>

PrepareLedger(u) ==
  LET s == rq[u].s IN
  /\ rq[u].pc = "prepare"
  /\ \/ Prepare(s) /\ Proceed(u, "approve")
     \/ ~Preparable(s) /\ Refuse(u) /\ UNCHANGED ledger
  /\ UNCHANGED <<launch, snapshot, job, issued, faults, proposal, Kept>>

\* The launch is updated by id: a grant issued by another request is replaced.
ApprovePublish(u) ==
  /\ rq[u].pc = "approve" /\ issued < MaxGrants
  /\ rq' = [rq EXCEPT ![u].pc = "add", ![u].g = issued + 1]
  /\ issued' = issued + 1
  /\ launch' = [launch EXCEPT !.status = "QUEUED", !.auto = TRUE, !.content = rq[u].doc,
                              !.snap = rq[u].s, !.grant = issued + 1, !.auth = "live"]
  /\ UNCHANGED <<ledger, snapshot, job, faults, proposal, Kept>>

\* The job carries the grant that this request issued, whatever the row holds.
EnqueuePublish(u) ==
  /\ rq[u].pc = "add"
  /\ \/ AddJob(rq[u].s, rq[u].g) /\ (IF rq[u].p = 0 THEN Answer(u) ELSE Proceed(u, "complete"))
        /\ UNCHANGED faults
     \/ Suffer("redis") /\ Proceed(u, "revert") /\ UNCHANGED job
  /\ UNCHANGED <<launch, ledger, snapshot, issued, proposal, Kept>>

RevertPublish(u) ==
  /\ rq[u].pc = "revert" /\ Refuse(u)
  /\ launch' = Unapproved("AWAITING_PUBLISH_APPROVAL")
  /\ UNCHANGED <<ledger, snapshot, job, issued, faults, proposal, Kept>>

\* A query fails, or the process dies.  What fails while a proposal executes runs
\* into failExecution; the audit record of the claim and failExecution do not.
RequestFails(u) ==
  /\ rq[u] # IdleRequest
  /\ \/ Suffer("database") /\ Refuse(u)
     \/ Suffer("database") /\ rq[u].pc \in {"consume", "fail"} /\ Answer(u)
     \/ Suffer("crash") /\ Answer(u)
  /\ UNCHANGED <<launch, ledger, snapshot, job, issued, proposal, Kept>>
=============================================================================
