------------------------- MODULE ProductLaunchWorker -------------------------
(***************************************************************************)
(* ProductLaunchWorker: prepares a confirmed launch up to the publish      *)
(* approval, and publishes an approved snapshot to Ozon.  Each await of    *)
(* process is a step.  The worker reads the row of the launch once, and    *)
(* works with what it read (row) until it writes the row, by id alone.     *)
(***************************************************************************)
EXTENDS ExternalSubmissions, ActionProposals

VARIABLE wk

Outcomes == {"none", "ACTIVE_ON_OZON", "SUBMITTED_TO_OZON", "FAILED", "BLOCKED"}

IdleWorker == [pc |-> "idle", j |-> 0, s |-> 0, g |-> 0, token |-> 0, o |-> "none",
               seen |-> "NONE", throws |-> FALSE]

Worker == [pc     : {"idle", "read", "gates", "prepare", "preflight", "lookup", "reconcile",
                     "persist", "proposal", "notify", "images", "generate", "review",
                     "await", "propose", "find", "begin", "mark", "claim", "load", "start",
                     "send", "answer", "result", "unknown", "release", "fail"},
           j      : Jobs,
           g      : Grants,                   \* the grant in the data of the job
           s      : Snapshots \cup {0},       \* the snapshot the launch selected when read
           token  : Nat,                      \* claimToken
           o      : Outcomes,                 \* the result of the publisher
           seen   : SubmissionStatus,         \* the status of the submission when read
           throws : BOOLEAN]                  \* the attempt ends with an error

WorkerTypeOK == wk \in [Workers -> Worker]
WorkerInit == wk = [w \in Workers |-> IdleWorker]

\* What most steps of a worker leave alone.
Rest == <<listing, issued>>

Goto(w, pc) == wk' = [wk EXCEPT ![w].pc = pc]
Holds(w) == job[wk[w].j].state = "active" /\ job[wk[w].j].by = w

\* BullMQ ignores the end of an attempt whose lock was lost.
EndAttempt(w, ok) ==
  LET j == wk[w].j IN
  /\ wk' = [wk EXCEPT ![w] = IdleWorker]
  /\ job' = IF ~Holds(w) THEN job
            ELSE [job EXCEPT ![j].by = NoOne, ![j].made = @ + 1,
                             ![j].state = IF ok THEN "completed"
                                          ELSE IF job[j].made + 1 < JobAttempts THEN "waiting"
                                          ELSE "failed"]

-----------------------------------------------------------------------------
(* Taking the job, and what both phases check before anything is made.     *)

\* A job that stalled twice fails when it is taken.
TakeJob(w, j) ==
  LET doomed == job[j].stalls = 2 IN
  /\ wk[w].pc = "idle" /\ job[j].state = "waiting"
  /\ job' = [job EXCEPT ![j].state = IF doomed THEN "failed" ELSE "active",
                        ![j].by = IF doomed THEN NoOne ELSE w]
  /\ wk' = IF doomed THEN wk ELSE [wk EXCEPT ![w] = [IdleWorker EXCEPT !.pc = "read", !.j = j,
                                                                    !.g = job[j].grant]]
  /\ UNCHANGED <<launch, ledger, snapshot, offer, sent, faults, proposal, Rest>>

Done == \/ launch.status = "ACTIVE_ON_OZON"
        \/ launch.status = "AWAITING_PUBLISH_APPROVAL" /\ ~launch.auto

\* assertPublishApproval, against the grant g that travels in the job.
Authorized(g) ==
  /\ launch.listing # 0 /\ launch.content # 0 /\ launch.snap # 0
  /\ launch.grant # 0 /\ launch.grant = g /\ launch.auth = "live"

ReadLaunch(w) ==
  /\ wk[w].pc = "read"
  /\ IF Done THEN EndAttempt(w, TRUE)
     ELSE /\ wk' = [wk EXCEPT ![w].s = IF launch.auto THEN launch.snap ELSE 0,
                              ![w].pc = IF ~launch.auto THEN "preflight"
                                        ELSE IF Authorized(wk[w].g) THEN "gates" ELSE "fail"]
          /\ UNCHANGED job
  /\ UNCHANGED <<launch, ledger, snapshot, offer, sent, faults, proposal, Rest>>

\* Agent permission, store ownership, then the sandbox report.
PassGates(w) ==
  /\ wk[w].pc = "gates"
  /\ \/ /\ Goto(w, IF snapshot[wk[w].s].report = "clear" THEN "prepare" ELSE "fail")
        /\ UNCHANGED faults
     \/ Suffer("denied") /\ Goto(w, "fail")
  /\ UNCHANGED <<launch, ledger, snapshot, job, offer, sent, proposal, Rest>>

PrepareSubmission(w) ==
  /\ wk[w].pc = "prepare"
  /\ \/ Prepare(wk[w].s) /\ Goto(w, "preflight")
     \/ ~Preparable(wk[w].s) /\ Goto(w, "fail") /\ UNCHANGED ledger
  /\ UNCHANGED <<launch, snapshot, job, offer, sent, faults, proposal, Rest>>

Readback == [absent |-> "none", pending |-> "SUBMITTED_TO_OZON", active |-> "ACTIVE_ON_OZON"]

\* preflightProduct (nothing wrong: on to the images) or preflightSnapshot.
Preflight(w) ==
  LET s == wk[w].s
      found == IF s = 0 THEN "none" ELSE Readback[offer]
      After(o, pc) == wk' = [wk EXCEPT ![w].o = o, ![w].pc = pc]
  IN
  /\ wk[w].pc = "preflight"
  /\ \/ s # 0 /\ ~Preparable(s) /\ Goto(w, "fail") /\ UNCHANGED faults
     \/ \E o \in {"FAILED", "BLOCKED"} : Suffer("channel") /\ After(o, "persist")
     \/ /\ s # 0 => Preparable(s)
        /\ After(found, IF found # "none" THEN "lookup" ELSE IF s = 0 THEN "images" ELSE "find")
        /\ UNCHANGED faults
  /\ UNCHANGED <<launch, ledger, snapshot, job, offer, sent, proposal, Rest>>

\* recordReconciledResult: a read, then an update that may be refused.
LookUp(w) ==
  /\ wk[w].pc = "lookup"
  /\ wk' = [wk EXCEPT ![w].pc = "reconcile", ![w].seen = ledger[wk[w].s].status]
  /\ UNCHANGED <<launch, ledger, snapshot, job, offer, sent, faults, proposal, Rest>>

Reconcile(w) ==
  LET s == wk[w].s  o == wk[w].o  seen == wk[w].seen IN
  /\ wk[w].pc = "reconcile"
  /\ \/ RecordReconciled(s, o, seen) /\ Goto(w, "persist")
     \/ ~ReconciliationAllowed(s, o, seen) /\ Goto(w, "fail") /\ UNCHANGED ledger
  /\ UNCHANGED <<launch, snapshot, job, offer, sent, faults, proposal, Rest>>

-----------------------------------------------------------------------------
(* The ends of an attempt.                                                 *)

\* persistPublishOutcome updates the launch by id, whatever its status is by
\* now; the proposal of an accepted or failed publish follows.
PersistOutcome(w) ==
  LET o == wk[w].o IN
  /\ wk[w].pc = "persist"
  /\ launch' = [launch EXCEPT !.status = IF o = "SUBMITTED_TO_OZON" THEN "RECOVERING" ELSE o]
  /\ Goto(w, IF o = "SUBMITTED_TO_OZON" THEN "notify" ELSE "proposal")
  /\ UNCHANGED <<job, ledger, snapshot, offer, sent, faults, proposal, Rest>>

\* Mutant of SettleProposal: any persisted outcome counts as executed.
SettleProposalAlways(w) ==
  /\ wk[w].pc = "proposal"
  /\ ReconcileOutcome("EXECUTED") /\ Goto(w, "notify")
  /\ UNCHANGED <<launch, ledger, snapshot, job, offer, sent, faults, Rest>>

\* An error of the reconciliation is logged, and that is all.
SettleProposal(w) ==
  /\ wk[w].pc = "proposal" /\ Goto(w, "notify")
  /\ \/ /\ ReconcileOutcome(IF wk[w].o = "ACTIVE_ON_OZON" THEN "EXECUTED" ELSE "FAILED")
        /\ UNCHANGED faults
     \/ Suffer("database") /\ UNCHANGED proposal
  /\ UNCHANGED <<launch, ledger, snapshot, job, offer, sent, Rest>>

\* notifyLaunchState: the last query of the try block.
Notify(w) ==
  /\ wk[w].pc = "notify" /\ EndAttempt(w, TRUE)
  /\ UNCHANGED <<launch, ledger, snapshot, offer, sent, faults, proposal, Rest>>

\* failLaunch updates the launch by id, and the attempt throws.
FailLaunch(w) ==
  /\ wk[w].pc = "fail"
  /\ launch' = [launch EXCEPT !.status = "FAILED"]
  /\ EndAttempt(w, FALSE)
  /\ UNCHANGED <<ledger, snapshot, offer, sent, faults, proposal, Rest>>

\* markLaunchReconciliationRequired is conditional.
MarkReconciliation(w) ==
  /\ wk[w].pc = "mark"
  /\ launch' = IF /\ launch.status \in {"QUEUED", "SUBMITTING_TO_OZON", "RECOVERING"}
                  /\ launch.snap = wk[w].s
               THEN [launch EXCEPT !.status = "RECOVERING"] ELSE launch
  /\ EndAttempt(w, ~wk[w].throws)
  /\ UNCHANGED <<ledger, snapshot, offer, sent, faults, proposal, Rest>>

-----------------------------------------------------------------------------
(* Preparation: images, listing, review, and a proposal to publish.        *)

StartImages(w) ==
  /\ wk[w].pc = "images"
  /\ launch' = [launch EXCEPT !.status = "GENERATING_IMAGES"]
  /\ Goto(w, "generate")
  /\ UNCHANGED <<ledger, snapshot, job, offer, sent, faults, proposal, Rest>>

GenerateImages(w) ==
  /\ wk[w].pc = "generate"
  /\ \/ Goto(w, "review") /\ UNCHANGED faults
     \/ Suffer("refused") /\ Goto(w, "fail")
  /\ UNCHANGED <<launch, ledger, snapshot, job, offer, sent, proposal, Rest>>

\* generateForProductLaunch returns the listing that exists, and the media of
\* an approved one cannot be attached any more.
ReviewListing(w) ==
  /\ wk[w].pc = "review"
  /\ \/ /\ listing.state = "none" /\ listing.v < MaxListings
        /\ listing' = [v |-> listing.v + 1, state |-> "IN_REVIEW"]
        /\ Goto(w, "await")
     \/ listing.state = "IN_REVIEW" /\ Goto(w, "await") /\ UNCHANGED listing
     \/ listing.state = "APPROVED" /\ Goto(w, "fail") /\ UNCHANGED listing
  /\ UNCHANGED <<launch, ledger, snapshot, job, offer, sent, faults, proposal, issued>>

AwaitApproval(w) ==
  /\ wk[w].pc = "await"
  /\ launch' = [Unapproved("AWAITING_PUBLISH_APPROVAL") EXCEPT !.listing = listing.v]
  /\ Goto(w, "propose")
  /\ UNCHANGED <<ledger, snapshot, job, offer, sent, faults, proposal, Rest>>

ProposePublish(w) ==
  /\ wk[w].pc = "propose"
  /\ \/ CreateProposal /\ EndAttempt(w, TRUE)
     \/ SlotTaken /\ Goto(w, "fail") /\ UNCHANGED <<proposal, job>>
  /\ UNCHANGED <<launch, ledger, snapshot, offer, sent, faults, Rest>>

-----------------------------------------------------------------------------
(* Publication: claim, record that the request leaves, send it.            *)

FindSubmission(w) ==
  LET status == ledger[wk[w].s].status IN
  /\ wk[w].pc = "find"
  /\ IF status \in Sendable THEN Goto(w, "claim") /\ UNCHANGED job
     ELSE IF status \in Ambiguous THEN Goto(w, "begin") /\ UNCHANGED job
     ELSE EndAttempt(w, TRUE)
  /\ UNCHANGED <<launch, ledger, snapshot, offer, sent, faults, proposal, Rest>>

Begin(w) ==
  LET s == wk[w].s IN
  /\ wk[w].pc = "begin"
  /\ \/ BeginReconciliation(s) /\ Goto(w, "mark")
     \/ ledger[s].status \notin Ambiguous /\ Goto(w, "fail") /\ UNCHANGED ledger
  /\ UNCHANGED <<launch, snapshot, job, offer, sent, faults, proposal, Rest>>

\* A launch or a submission that another worker claimed ends the attempt.
ClaimSubmission(w) ==
  LET s == wk[w].s IN
  /\ wk[w].pc = "claim"
  /\ \/ /\ Preparable(s) /\ ClaimForSend(s)
        /\ wk' = [wk EXCEPT ![w].pc = "load", ![w].token = ledger'[s].token]
        /\ UNCHANGED job
     \/ /\ Preparable(s) /\ ~(LaunchClaimable(s) /\ ledger[s].status \in Sendable)
        /\ EndAttempt(w, TRUE) /\ UNCHANGED <<launch, ledger>>
     \/ ~Preparable(s) /\ Goto(w, "fail") /\ UNCHANGED <<launch, ledger, job>>
  /\ UNCHANGED <<snapshot, offer, sent, faults, proposal, Rest>>

\* publishSnapshot up to beforeDispatch: it throws, or returns a failure, or
\* the request is about to leave.
LoadSnapshot(w) ==
  LET Stop(o, throws) == wk' = [wk EXCEPT ![w].pc = "release", ![w].o = o, ![w].throws = throws]
  IN
  /\ wk[w].pc = "load"
  /\ \/ Preparable(wk[w].s) /\ Goto(w, "start") /\ UNCHANGED faults
     \/ ~Preparable(wk[w].s) /\ Stop("none", TRUE) /\ UNCHANGED faults
     \/ \E o \in {"FAILED", "BLOCKED"} : Suffer("channel") /\ Stop(o, FALSE)
     \/ Suffer("database") /\ Stop("none", TRUE)
  /\ UNCHANGED <<launch, ledger, snapshot, job, offer, sent, proposal, Rest>>

StartRequest(w) ==
  LET s == wk[w].s  token == wk[w].token  grant == wk[w].g IN
  /\ wk[w].pc = "start"
  /\ \/ MarkRequestStarted(s, token, grant) /\ Goto(w, "send")
     \/ /\ ~(Claimed(s, token) /\ GrantAccepted(s, grant))
        /\ wk' = [wk EXCEPT ![w].pc = "release", ![w].throws = TRUE]
        /\ UNCHANGED <<launch, ledger>>
  /\ UNCHANGED <<snapshot, job, offer, sent, faults, proposal, Rest>>

\* markRequestStarted reads the row again after its commit; when that fails, the
\* request does not leave, though it is recorded.
StartUnseen(w) ==
  /\ wk[w].pc = "send" /\ Suffer("database")
  /\ wk' = [wk EXCEPT ![w].pc = "release", ![w].throws = TRUE]
  /\ UNCHANGED <<launch, ledger, snapshot, job, offer, sent, proposal, Rest>>

\* importProducts: accepted, refused (as a whole, without a task, or item by
\* item), or the answer is lost.
SendImport(w) ==
  LET accepted == IF offer = "absent" THEN "pending" ELSE offer IN
  /\ wk[w].pc = "send"
  /\ sent' = Append(sent, [snap |-> wk[w].s, grant |-> wk[w].g])
  /\ \/ offer' = accepted /\ Goto(w, "answer") /\ UNCHANGED faults
     \/ /\ Suffer("refused") /\ UNCHANGED offer
        /\ wk' = [wk EXCEPT ![w].pc = "result", ![w].o = "FAILED"]
     \/ /\ Suffer("network") /\ offer' \in {offer, accepted}
        /\ wk' = [wk EXCEPT ![w].pc = "unknown", ![w].throws = TRUE]
  /\ UNCHANGED <<launch, ledger, snapshot, job, proposal, Rest>>

ReadAnswer(w) ==
  /\ wk[w].pc = "answer"
  /\ \E o \in {"SUBMITTED_TO_OZON", Readback[offer]} :
       wk' = [wk EXCEPT ![w].pc = "result", ![w].o = o]
  /\ UNCHANGED <<launch, ledger, snapshot, job, offer, sent, faults, proposal, Rest>>

StoreResult(w) ==
  LET s == wk[w].s IN
  /\ wk[w].pc = "result"
  /\ \/ RecordResult(s, wk[w].o, wk[w].token) /\ Goto(w, "persist") /\ UNCHANGED job
     \/ ~Awaited(s, wk[w].token) /\ EndAttempt(w, TRUE) /\ UNCHANGED ledger
  /\ UNCHANGED <<launch, snapshot, offer, sent, faults, proposal, Rest>>

StoreUnknown(w) ==
  LET s == wk[w].s IN
  /\ wk[w].pc = "unknown"
  /\ \/ RecordUnknown(s, wk[w].token) /\ Goto(w, "mark") /\ UNCHANGED job
     \/ ~Awaited(s, wk[w].token) /\ EndAttempt(w, TRUE) /\ UNCHANGED ledger
  /\ UNCHANGED <<launch, snapshot, offer, sent, faults, proposal, Rest>>

\* Nothing left: the claim is released, and the attempt throws or persists the
\* publisher's failure.
ReleaseSubmission(w) ==
  LET s == wk[w].s  token == wk[w].token IN
  /\ wk[w].pc = "release"
  /\ \/ /\ ReleaseClaim(s, token) /\ UNCHANGED faults
        /\ IF wk[w].throws THEN EndAttempt(w, FALSE) ELSE Goto(w, "persist") /\ UNCHANGED job
     \/ ReleaseClaim(s, token) /\ Suffer("database") /\ Goto(w, "fail") /\ UNCHANGED job
     \/ ~Claimed(s, token) /\ EndAttempt(w, TRUE) /\ UNCHANGED <<launch, ledger, faults>>
     \/ /\ Claimed(s, token) /\ ~Releasable(s) /\ Goto(w, "fail")
        /\ UNCHANGED <<launch, ledger, job, faults>>
  /\ UNCHANGED <<snapshot, offer, sent, proposal, Rest>>

-----------------------------------------------------------------------------
\* A query of the try block fails: failLaunch.  (The operations of the ledger end
\* with a query, so they may have succeeded: "load" and "mark" are among these.)
QueryFails(w) ==
  /\ wk[w].pc \in {"gates", "prepare", "preflight", "lookup", "reconcile", "persist",
                   "proposal", "notify", "images", "review", "await", "propose", "find", "begin",
                   "claim", "load", "result", "unknown", "release", "mark"}
  /\ Suffer("database") /\ Goto(w, "fail")
  /\ UNCHANGED <<launch, ledger, snapshot, job, offer, sent, proposal, Rest>>

\* A query outside of it (reading the launch, the catch block) ends the attempt.
QueryEnds(w) ==
  /\ \/ wk[w].pc \in {"read", "fail"}
     \/ wk[w].pc = "mark" /\ wk[w].throws
  /\ Suffer("database") /\ EndAttempt(w, FALSE)
  /\ UNCHANGED <<launch, ledger, snapshot, offer, sent, proposal, Rest>>

\* The process dies; BullMQ gives its job to another worker.
WorkerCrash(w) ==
  LET j == wk[w].j IN
  /\ wk[w].pc # "idle" /\ Suffer("crash")
  /\ wk' = [wk EXCEPT ![w] = IdleWorker]
  /\ job' = IF Holds(w) /\ job[j].stalls < 2
            THEN [job EXCEPT ![j].state = "waiting", ![j].by = NoOne, ![j].stalls = @ + 1]
            ELSE job
  /\ UNCHANGED <<launch, ledger, snapshot, offer, sent, proposal, Rest>>

WorkerStep(w) ==
  \/ ReadLaunch(w) \/ PassGates(w) \/ PrepareSubmission(w) \/ Preflight(w) \/ LookUp(w)
  \/ Reconcile(w) \/ PersistOutcome(w) \/ SettleProposal(w) \/ Notify(w)
  \/ FailLaunch(w) \/ MarkReconciliation(w) \/ StartImages(w) \/ GenerateImages(w) \/ ReviewListing(w)
  \/ AwaitApproval(w) \/ ProposePublish(w) \/ FindSubmission(w) \/ Begin(w)
  \/ ClaimSubmission(w) \/ LoadSnapshot(w) \/ StartRequest(w) \/ StartUnseen(w)
  \/ SendImport(w)  \/ ReadAnswer(w) \/ StoreResult(w) \/ StoreUnknown(w) \/ ReleaseSubmission(w)

WorkerNext ==
  \E w \in Workers : \/ \E j \in Jobs : TakeJob(w, j)
                     \/ WorkerStep(w) \/ QueryFails(w) \/ QueryEnds(w) \/ WorkerCrash(w)
=============================================================================
