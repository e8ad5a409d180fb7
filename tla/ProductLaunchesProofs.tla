------------------------ MODULE ProductLaunchesProofs ------------------------
(***************************************************************************)
(* Type correctness of ProductLaunches, for any number of listings,        *)
(* snapshots, grants, tries of a job, workers, requests, proposals and     *)
(* faults of any kinds.  ProductLaunchesSafety builds on it.               *)
(***************************************************************************)
EXTENDS ProductLaunches, TLAPS

USE LaunchAssumption, ProposalAssumption

-----------------------------------------------------------------------------
(* One predicate per part of the state.                                    *)

LaunchOK   == launch \in Launch
ListingOK  == listing \in Listing
SnapshotOK == snapshot \in [Snapshots -> Snapshot]
LedgerOK   == ledger \in [Snapshots -> Submission]
IssuedOK   == issued \in Grants
OfferOK    == offer \in {"absent", "pending", "active"}
SentOK     == sent \in Seq([snap : Snapshots, grant : Grants])
FaultsOK   == faults \in Nat

\* A job that is served again has a try left.
JobOK == /\ job \in [Jobs -> Job]
         /\ \A j \in Jobs : job[j].state \in {"waiting", "active"} => job[j].made < JobAttempts

\* What a worker has found out by the place where it is.
Publishing == {"gates", "prepare", "lookup", "reconcile", "find", "begin", "claim", "load",
               "start", "send", "answer", "result", "unknown", "release"}
Answered   == {"lookup", "reconcile", "persist", "result"}

PlaceOK(v) ==
  /\ v.pc \in Publishing => v.s \in Snapshots
  /\ v.pc \in Answered => v.o # "none"
  /\ v.pc = "release" => v.throws \/ v.o # "none"

WkOK == /\ wk \in [Workers -> Worker]
        /\ \A w \in Workers : /\ PlaceOK(wk[w])
                              /\ wk[w].pc = "answer" => offer # "absent"

ScanOK == /\ scan \in Scan
          /\ scan.pc # "idle" => scan.s \in Snapshots
          /\ scan.pc \in {"lookup", "reconcile"} => scan.o # "none"

RqOK == /\ rq \in [Users -> Request]
        /\ \A u \in Users :
             /\ rq[u].pc \in {"sandbox", "prepare", "approve", "add"} => rq[u].s \in Snapshots
             /\ rq[u].pc \in {"consume", "complete", "fail"} => rq[u].p \in Proposals

TypeInv == /\ LaunchOK /\ ListingOK /\ SnapshotOK /\ LedgerOK /\ JobOK /\ IssuedOK
           /\ OfferOK /\ SentOK /\ FaultsOK /\ ProposalTypeOK /\ WkOK /\ ScanOK /\ RqOK

LEMMA TypeInvTypeOK == TypeInv => TypeOK
BY DEF TypeInv, LaunchOK, ListingOK, SnapshotOK, LedgerOK, JobOK, IssuedOK, OfferOK, SentOK,
       FaultsOK, WkOK, ScanOK, RqOK, TypeOK, StoreTypeOK, WorkerTypeOK, RecoveryTypeOK, ApiTypeOK

LEMMA NoJobOK == NoJob \in Job
BY DEF NoJob, Job, Grants

LEMMA IdleWorkerOK == IdleWorker \in Worker /\ IdleWorker.pc = "idle"
BY DEF IdleWorker, Worker, Jobs, Grants, Outcomes, SubmissionStatus

LEMMA IdleScanOK == IdleScan \in Scan /\ IdleScan.pc = "idle"
BY DEF IdleScan, Scan, SubmissionStatus

LEMMA IdleRequestOK == IdleRequest \in Request /\ IdleRequest.pc = "idle"
BY DEF IdleRequest, Request, Listings, Grants

LEMMA InitTypeInv == Init => TypeInv
<1> SUFFICES ASSUME Init PROVE TypeInv
  OBVIOUS
<1> USE DEF Init, StoreInit
<1>1. LaunchOK /\ ListingOK
  BY DEF LaunchOK, ListingOK, Launch, Listing, LaunchStatus, Listings, Grants
<1>2. SnapshotOK /\ LedgerOK
  BY DEF SnapshotOK, LedgerOK, Snapshot, Submission, SubmissionStatus, Listings
<1>3. JobOK
  BY NoJobOK DEF JobOK, NoJob
<1>4. IssuedOK /\ OfferOK /\ SentOK /\ FaultsOK
  BY DEF IssuedOK, OfferOK, SentOK, FaultsOK, Grants
<1>5. ProposalTypeOK
  BY DEF ProposalInit, ProposalTypeOK, Proposal
<1>6. WkOK /\ ScanOK
  BY IdleWorkerOK, IdleScanOK
  DEF WorkerInit, RecoveryInit, WkOK, ScanOK, PlaceOK, Publishing, Answered
<1>7. RqOK
  BY IdleRequestOK DEF ApiInit, RqOK
<1> QED
  BY <1>1, <1>2, <1>3, <1>4, <1>5, <1>6, <1>7 DEF TypeInv

-----------------------------------------------------------------------------
(* What a step leaves alone, and the changes that many steps share.        *)

OfferKept == offer # "absent" => offer' # "absent"

LEMMA Same ==
  ASSUME TypeInv
  PROVE  /\ UNCHANGED launch => LaunchOK'
         /\ UNCHANGED listing => ListingOK'
         /\ UNCHANGED snapshot => SnapshotOK'
         /\ UNCHANGED ledger => LedgerOK'
         /\ UNCHANGED job => JobOK'
         /\ UNCHANGED issued => IssuedOK'
         /\ UNCHANGED offer => OfferOK' /\ OfferKept
         /\ UNCHANGED sent => SentOK'
         /\ UNCHANGED faults => FaultsOK'
         /\ UNCHANGED proposal => ProposalTypeOK'
         /\ UNCHANGED wk /\ OfferKept => WkOK'
         /\ UNCHANGED scan => ScanOK'
         /\ UNCHANGED rq => RqOK'
<1> USE DEF TypeInv
<1>1. UNCHANGED wk /\ OfferKept => WkOK'
  BY DEF WkOK, PlaceOK, OfferKept
<1> QED
  BY <1>1 DEF LaunchOK, ListingOK, SnapshotOK, LedgerOK, JobOK, IssuedOK, OfferOK, OfferKept,
              SentOK, FaultsOK, ProposalTypeOK, ScanOK, RqOK

LEMMA SufferOK == ASSUME FaultsOK, NEW kind, Suffer(kind) PROVE FaultsOK'
BY DEF FaultsOK, Suffer

LEMMA SetStatus ==
  ASSUME LaunchOK, NEW status \in LaunchStatus,
         launch' = [launch EXCEPT !.status = status] \/ launch' = Unapproved(status)
  PROVE  LaunchOK'
<1>1. [launch EXCEPT !.status = status] \in Launch
  BY DEF LaunchOK, Launch
<1>2. 0 \in Listings /\ 0 \in Grants
  BY DEF Listings, Grants
<1>3. Unapproved(status) \in Launch
  BY <1>2 DEF LaunchOK, Launch, Unapproved
<1> QED
  BY <1>1, <1>3 DEF LaunchOK

LEMMA SetSubmission ==
  ASSUME LedgerOK, NEW s \in Snapshots, NEW status \in SubmissionStatus,
         ledger' = [ledger EXCEPT ![s].status = status]
  PROVE  LedgerOK'
BY DEF LedgerOK, Submission

LEMMA SetJob ==
  ASSUME JobOK, NEW j \in Jobs, NEW v \in Job, job' = [job EXCEPT ![j] = v],
         v.state \in {"waiting", "active"} => v.made < JobAttempts
  PROVE  JobOK'
BY DEF JobOK

LEMMA AddJobOK ==
  ASSUME JobOK, NEW j \in Jobs, NEW grant \in Grants, AddJob(j, grant) PROVE JobOK'
<1> DEFINE v == [NoJob EXCEPT !.state = "waiting", !.grant = grant]
<1>1. v \in Job /\ v.made = 0
  <2>1. v \in Job
    BY NoJobOK DEF Job
  <2> QED
    BY <2>1 DEF NoJob
<1>2. UNCHANGED job \/ job' = [job EXCEPT ![j] = v]
  BY DEF AddJob
<1> HIDE DEF v
<1>3. v.made < JobAttempts
  BY <1>1
<1> QED
  BY <1>1, <1>2, <1>3, SetJob DEF JobOK

LEMMA SetWorker ==
  ASSUME WkOK, OfferKept, NEW w \in Workers, NEW v \in Worker, PlaceOK(v),
         wk' = [wk EXCEPT ![w] = v], v.pc = "answer" => offer' # "absent"
  PROVE  WkOK'
BY DEF WkOK, PlaceOK, OfferKept

LEMMA AtPlace ==
  ASSUME WkOK, NEW w \in Workers
  PROVE  /\ wk[w] \in Worker
         /\ wk[w].pc \in Publishing => wk[w].s \in Snapshots
         /\ wk[w].pc \in Answered => wk[w].o \in Outcomes \ {"none"}
         /\ wk[w].s \in Snapshots \cup {0} /\ wk[w].g \in Grants /\ wk[w].throws \in BOOLEAN
         /\ wk[w].j \in Jobs /\ wk[w].token \in Nat
<1>1. wk[w] \in Worker /\ PlaceOK(wk[w])
  BY DEF WkOK
<1> QED
  BY <1>1 DEF PlaceOK, Worker

Pcs == {"idle", "read", "gates", "prepare", "preflight", "lookup", "reconcile", "persist",
        "proposal", "notify", "images", "generate", "review", "await", "propose", "find",
        "begin", "mark", "claim", "load", "start", "send", "answer", "result", "unknown",
        "release", "fail"}

LEMMA IdleWorkerPlace == PlaceOK(IdleWorker)
BY IdleWorkerOK DEF PlaceOK, Publishing, Answered

Places == {"idle", "read", "gates", "prepare", "preflight", "lookup", "reconcile",
           "persist", "proposal", "notify", "images", "generate", "review", "await", "propose",
           "find", "begin", "mark", "claim", "load", "start", "send", "result",
           "unknown", "release", "fail"}

LEMMA GotoOK ==
  ASSUME WkOK, OfferKept, NEW w \in Workers, NEW pc \in Places, Goto(w, pc),
         pc \in Publishing => wk[w].s \in Snapshots,
         pc \in Answered => wk[w].o # "none",
         pc # "release"
  PROVE  WkOK'
<1> DEFINE v == [wk[w] EXCEPT !.pc = pc]
<1>1. v \in Worker
  BY DEF WkOK, Worker, Places
<1>2. v.pc = pc /\ v.s = wk[w].s /\ v.o = wk[w].o
  BY DEF WkOK, Worker
<1>3. PlaceOK(v) /\ v.pc # "answer"
  BY <1>2 DEF PlaceOK, Places
<1>4. wk' = [wk EXCEPT ![w] = v]
  BY DEF Goto, WkOK
<1> HIDE DEF v
<1> QED
  BY <1>1, <1>3, <1>4, SetWorker

LEMMA EndAttemptOK ==
  ASSUME TypeInv, OfferKept, NEW w \in Workers, NEW ok \in BOOLEAN, EndAttempt(w, ok)
  PROVE  WkOK' /\ JobOK'
<1> USE DEF TypeInv
<1>1. WkOK'
  BY IdleWorkerOK, IdleWorkerPlace, SetWorker DEF EndAttempt
<1>2. CASE ~Holds(w)
  BY <1>1, <1>2, Same DEF EndAttempt
<1>3. CASE Holds(w)
  <2> DEFINE j == wk[w].j
             state == IF ok THEN "completed"
                      ELSE IF job[j].made + 1 < JobAttempts THEN "waiting" ELSE "failed"
             v == [job[j] EXCEPT !.by = NoOne, !.made = @ + 1, !.state = state]
  <2>1. j \in Jobs
    BY DEF WkOK, Worker
  <2>2. job[j].made + 1 \in 0..JobAttempts
    BY <1>3, <2>1 DEF Holds, JobOK, Job
  <2>3. v \in Job
    BY <2>1, <2>2 DEF JobOK, Job
  <2>4. v.state = state /\ v.made = job[j].made + 1
    BY <2>1 DEF JobOK, Job
  <2>5. job' = [job EXCEPT ![j] = v]
    BY <1>3, <2>1 DEF EndAttempt, JobOK
  <2>6. v.state \in {"waiting", "active"} => v.made < JobAttempts
    BY <2>4
  <2> HIDE DEF v
  <2> QED
    BY <1>1, <2>1, <2>3, <2>5, <2>6, SetJob
<1> QED
  BY <1>2, <1>3

-----------------------------------------------------------------------------
(* The environment.                                                        *)

LEMMA EnvironmentTypes ==
  ASSUME TypeInv, ByEnvironment(EnvironmentNext) PROVE TypeInv'
<1> USE DEF TypeInv, ByEnvironment
<1>1. CASE ApproveListing \/ RemoveListing
  <2>1. ListingOK'
    BY <1>1 DEF ApproveListing, RemoveListing, ListingOK, Listing
  <2> QED
    BY <1>1, <2>1, Same DEF ApproveListing, RemoveListing
<1>2. CASE GrantExpires
  <2>1. LaunchOK'
    BY <1>2 DEF GrantExpires, LaunchOK, Launch
  <2> QED
    BY <1>2, <2>1, Same DEF GrantExpires
<1>3. CASE OfferActivated
  <2>1. OfferOK' /\ OfferKept
    BY <1>3 DEF OfferActivated, OfferOK, OfferKept
  <2> QED
    BY <1>3, <2>1, Same DEF OfferActivated
<1>4. ASSUME NEW s \in Snapshots, OverrideReport(s) PROVE TypeInv'
  <2>1. SnapshotOK'
    <3> DEFINE v == [snapshot[s] EXCEPT !.report = "clear", !.status = "APPROVED"]
    <3>1. v \in Snapshot
      BY DEF SnapshotOK, Snapshot
    <3>2. snapshot' = [snapshot EXCEPT ![s] = v]
      BY <1>4 DEF OverrideReport, SnapshotOK
    <3> HIDE DEF v
    <3> QED
      BY <3>1, <3>2 DEF SnapshotOK
  <2> QED
    BY <1>4, <2>1, Same DEF OverrideReport
<1>5. ASSUME NEW j \in Jobs, EvictJob(j) PROVE TypeInv'
  <2>1. JobOK'
    BY <1>5, NoJobOK, SetJob DEF EvictJob, NoJob
  <2> QED
    BY <1>5, <2>1, Same DEF EvictJob
<1>6. ASSUME NEW j \in Jobs, StallJob(j) PROVE TypeInv'
  <2> DEFINE v == [job[j] EXCEPT !.state = "waiting", !.by = NoOne, !.stalls = @ + 1]
  <2>1. v \in Job /\ v.made < JobAttempts
    <3>1. job[j].stalls + 1 \in 0..2
      BY <1>6 DEF StallJob, JobOK, Job
    <3> QED
      BY <1>6, <3>1 DEF StallJob, JobOK, Job
  <2>2. job' = [job EXCEPT ![j] = v]
    BY <1>6 DEF StallJob, JobOK
  <2>3. JobOK' /\ FaultsOK'
    BY <1>6, <2>1, <2>2, SetJob, SufferOK DEF StallJob
  <2> QED
    BY <1>6, <2>3, Same DEF StallJob
<1> QED
  BY <1>1, <1>2, <1>3, <1>4, <1>5, <1>6 DEF EnvironmentNext
-----------------------------------------------------------------------------
(* The workers.                                                            *)

LEMMA TakeJobTypes ==
  ASSUME TypeInv, NEW w \in Workers, NEW j \in Jobs, TakeJob(w, j), UNCHANGED <<scan, rq>>
  PROVE  TypeInv'
<1> USE DEF TypeInv, Rest
<1> DEFINE doomed == job[j].stalls = 2
           b == [job[j] EXCEPT !.state = IF doomed THEN "failed" ELSE "active",
                               !.by = IF doomed THEN NoOne ELSE w]
           v == [IdleWorker EXCEPT !.pc = "read", !.j = j, !.g = job[j].grant]
<1>1. b \in Job /\ b.made = job[j].made /\ job' = [job EXCEPT ![j] = b]
  BY DEF TakeJob, JobOK, Job
<1>2. job[j].made < JobAttempts
  BY DEF TakeJob, JobOK
<1>3. JobOK'
  BY <1>1, <1>2, SetJob
<1>4. v \in Worker /\ v.pc = "read"
  <2>1. job[j].grant \in Grants
    BY DEF JobOK, Job
  <2> QED
    BY <2>1, IdleWorkerOK DEF Worker, IdleWorker
<1>5. PlaceOK(v)
  BY <1>4 DEF PlaceOK, Publishing, Answered
<1>6. UNCHANGED wk \/ wk' = [wk EXCEPT ![w] = v]
  BY DEF TakeJob
<1> HIDE DEF v, b
<1>7. WkOK'
  BY <1>4, <1>5, <1>6, Same, SetWorker DEF TakeJob
<1> QED
  BY <1>3, <1>7, Same DEF TakeJob

LEMMA ReadTypes ==
  ASSUME TypeInv, NEW w \in Workers, UNCHANGED <<scan, rq>>
  PROVE  ReadLaunch(w) \/ PassGates(w) \/ PrepareSubmission(w) => TypeInv'
<1> USE DEF TypeInv, Rest
<1>1. ASSUME ReadLaunch(w) PROVE TypeInv'
  <2>1. CASE Done
    <3>1. WkOK' /\ JobOK'
      BY <1>1, <2>1, Same, EndAttemptOK DEF ReadLaunch
    <3> QED
      BY <1>1, <3>1, Same DEF ReadLaunch
  <2>2. CASE ~Done
    <3> DEFINE s == IF launch.auto THEN launch.snap ELSE 0
               pc == IF ~launch.auto THEN "preflight"
                     ELSE IF Authorized(wk[w].g) THEN "gates" ELSE "fail"
               v == [wk[w] EXCEPT !.s = s, !.pc = pc]
    <3>1. s \in Snapshots \cup {0} /\ (pc = "gates" => s # 0)
      BY DEF LaunchOK, Launch, Authorized
    <3>2. pc \in Pcs
      BY DEF Pcs
    <3>7. wk[w] \in Worker
      BY AtPlace
    <3> HIDE DEF s, pc
    <3>3. v \in Worker /\ v.s = s /\ v.pc = pc
      BY <3>1, <3>2, <3>7 DEF Worker, Pcs
    <3> USE DEF pc, s
    <3>4. PlaceOK(v) /\ v.pc # "answer"
      BY <3>1, <3>3 DEF PlaceOK, Publishing, Answered
    <3>5. wk' = [wk EXCEPT ![w] = v]
      BY <1>1, <2>2 DEF ReadLaunch, WkOK
    <3> HIDE DEF v
    <3>6. WkOK'
      BY <1>1, <3>3, <3>4, <3>5, SetWorker, Same DEF ReadLaunch
    <3> QED
      BY <1>1, <2>2, <3>6, Same DEF ReadLaunch
  <2> QED
    BY <2>1, <2>2
<1>2. ASSUME PassGates(w) PROVE TypeInv'
  <2>1. wk[w].s \in Snapshots
    BY <1>2, AtPlace DEF PassGates, Publishing
  <2>2. Goto(w, "prepare") \/ Goto(w, "fail")
    BY <1>2 DEF PassGates
  <2>3. WkOK'
    BY <1>2, <2>1, <2>2, Same, GotoOK DEF PassGates, Places, Publishing, Answered
  <2> QED
    BY <1>2, <2>3, Same, SufferOK DEF PassGates
<1>3. ASSUME PrepareSubmission(w) PROVE TypeInv'
  <2>1. wk[w].s \in Snapshots
    BY <1>3, AtPlace DEF PrepareSubmission, Publishing
  <2>2. Goto(w, "preflight") \/ Goto(w, "fail")
    BY <1>3 DEF PrepareSubmission
  <2>3. WkOK'
    BY <1>3, <2>2, Same, GotoOK DEF PrepareSubmission, Places, Publishing, Answered
  <2>4. LedgerOK'
    BY <1>3, <2>1, Same, SetSubmission
    DEF PrepareSubmission, Prepare, Prepared, SubmissionStatus
  <2> QED
    BY <1>3, <2>3, <2>4, Same DEF PrepareSubmission
<1> QED
  BY <1>1, <1>2, <1>3

LEMMA PreflightTypes ==
  ASSUME TypeInv, NEW w \in Workers, UNCHANGED <<scan, rq>>
  PROVE  Preflight(w) \/ LookUp(w) \/ Reconcile(w) => TypeInv'
<1> USE DEF TypeInv, Rest
<1>1. ASSUME Preflight(w) PROVE TypeInv'
  <2> DEFINE v(o, pc) == [wk[w] EXCEPT !.o = o, !.pc = pc]
             s == wk[w].s
             found == IF s = 0 THEN "none" ELSE Readback[offer]
  <2>1. found \in Outcomes /\ (found # "none" => s # 0) /\ s \in Snapshots \cup {0}
    BY DEF OfferOK, Readback, Outcomes, WkOK, Worker
  <2>2. \/ Goto(w, "fail")
        \/ \E o \in {"FAILED", "BLOCKED"} : wk' = [wk EXCEPT ![w] = v(o, "persist")]
        \/ found # "none" /\ wk' = [wk EXCEPT ![w] = v(found, "lookup")]
        \/ s = 0 /\ wk' = [wk EXCEPT ![w] = v(found, "images")]
        \/ s # 0 /\ wk' = [wk EXCEPT ![w] = v(found, "find")]
    BY <1>1 DEF Preflight, WkOK
  <2>3. ASSUME NEW o \in Outcomes, NEW pc \in {"persist", "lookup", "images", "find"},
               pc \in {"lookup", "find"} => s # 0, pc \in {"persist", "lookup"} => o # "none"
        PROVE  v(o, pc) \in Worker /\ PlaceOK(v(o, pc)) /\ v(o, pc).pc # "answer"
    <3>1. pc \in Pcs
      BY DEF Pcs
    <3>3. wk[w] \in Worker
      BY AtPlace
    <3>2. /\ v(o, pc) \in Worker
          /\ v(o, pc).pc = pc /\ v(o, pc).o = o /\ v(o, pc).s = s
      BY <3>1, <3>3 DEF Worker, Pcs
    <3> HIDE DEF v, s
    <3> QED
      BY <2>1, <2>3, <3>2 DEF PlaceOK, Publishing, Answered
  <2>4. "FAILED" \in Outcomes /\ "BLOCKED" \in Outcomes
    BY DEF Outcomes
  <2> HIDE DEF v, found, s
  <2>5. OfferKept
    BY <1>1, Same DEF Preflight
  <2>6. WkOK'
    <3>1. CASE Goto(w, "fail")
      BY <2>5, <3>1, GotoOK DEF Places, Publishing, Answered
    <3>2. CASE ~Goto(w, "fail")
      <4>1. PICK o \in Outcomes, pc \in {"persist", "lookup", "images", "find"} :
              /\ pc \in {"lookup", "find"} => s # 0
              /\ pc \in {"persist", "lookup"} => o # "none"
              /\ wk' = [wk EXCEPT ![w] = v(o, pc)]
        BY <2>1, <2>2, <2>4, <3>2
      <4> QED
        BY <2>3, <2>5, <4>1, SetWorker
    <3> QED
      BY <3>1, <3>2
  <2> QED
    BY <1>1, <2>6, Same, SufferOK DEF Preflight
<1>2. ASSUME LookUp(w) PROVE TypeInv'
  <2> DEFINE v == [wk[w] EXCEPT !.pc = "reconcile", !.seen = ledger[wk[w].s].status]
  <2>1. wk[w].s \in Snapshots /\ wk[w].o # "none"
    BY <1>2, AtPlace DEF LookUp, Publishing, Answered
  <2>2. ledger[wk[w].s].status \in SubmissionStatus
    BY <2>1 DEF LedgerOK, Submission
  <2>3. "reconcile" \in Pcs
    BY DEF Pcs
  <2>8. wk[w] \in Worker
    BY AtPlace
  <2>4. v \in Worker /\ v.pc = "reconcile" /\ v.s = wk[w].s /\ v.o = wk[w].o
    BY <2>2, <2>3, <2>8 DEF Worker, Pcs
  <2>5. PlaceOK(v)
    BY <2>1, <2>4 DEF PlaceOK
  <2>6. wk' = [wk EXCEPT ![w] = v]
    BY <1>2 DEF LookUp, WkOK
  <2> HIDE DEF v
  <2>7. WkOK'
    BY <1>2, <2>4, <2>5, <2>6, Same, SetWorker DEF LookUp
  <2> QED
    BY <1>2, <2>7, Same DEF LookUp
<1>3. ASSUME Reconcile(w) PROVE TypeInv'
  <2>1. wk[w].s \in Snapshots /\ wk[w].o \in Outcomes \ {"none"}
    BY <1>3, AtPlace DEF Reconcile, Publishing, Answered
  <2>2. ResultStatus(wk[w].o) \in SubmissionStatus
    BY <2>1 DEF Outcomes, ResultStatus, SubmissionStatus
  <2>3. LedgerOK'
    BY <1>3, <2>1, <2>2, Same, SetSubmission DEF Reconcile, RecordReconciled
  <2>4. Goto(w, "persist") \/ Goto(w, "fail")
    BY <1>3 DEF Reconcile
  <2>5. WkOK'
    BY <1>3, <2>1, <2>4, Same, GotoOK DEF Reconcile, Places, Publishing, Answered
  <2> QED
    BY <1>3, <2>3, <2>5, Same DEF Reconcile
<1> QED
  BY <1>1, <1>2, <1>3

LEMMA EndingTypes ==
  ASSUME TypeInv, NEW w \in Workers, UNCHANGED <<scan, rq>>
  PROVE  PersistOutcome(w) \/ Notify(w) \/ FailLaunch(w) \/ MarkReconciliation(w) => TypeInv'
<1> USE DEF TypeInv, Rest
<1>1. ASSUME PersistOutcome(w) PROVE TypeInv'
  <2>1. wk[w].o \in Outcomes \ {"none"}
    BY <1>1, AtPlace DEF PersistOutcome, Answered
  <2>2. LaunchOK'
    <3> DEFINE status == IF wk[w].o = "SUBMITTED_TO_OZON" THEN "RECOVERING" ELSE wk[w].o
    <3>1. status \in LaunchStatus /\ launch' = [launch EXCEPT !.status = status]
      BY <1>1, <2>1 DEF PersistOutcome, Outcomes, LaunchStatus
    <3> QED
      BY <3>1, SetStatus
  <2>3. Goto(w, "notify") \/ Goto(w, "proposal")
    BY <1>1 DEF PersistOutcome
  <2>4. WkOK'
    BY <1>1, <2>3, Same, GotoOK DEF PersistOutcome, Places, Publishing, Answered
  <2> QED
    BY <1>1, <2>2, <2>4, Same DEF PersistOutcome
<1>2. ASSUME Notify(w) PROVE TypeInv'
  <2>1. WkOK' /\ JobOK'
    BY <1>2, Same, EndAttemptOK DEF Notify
  <2> QED
    BY <1>2, <2>1, Same DEF Notify
<1>3. ASSUME FailLaunch(w) PROVE TypeInv'
  <2>1. WkOK' /\ JobOK'
    BY <1>3, Same, EndAttemptOK DEF FailLaunch
  <2>2. LaunchOK'
    BY <1>3, SetStatus DEF FailLaunch, LaunchStatus
  <2> QED
    BY <1>3, <2>1, <2>2, Same DEF FailLaunch
<1>4. ASSUME MarkReconciliation(w) PROVE TypeInv'
  <2>1. WkOK' /\ JobOK'
    <3>1. (~wk[w].throws) \in BOOLEAN
      BY DEF WkOK, Worker
    <3> QED
      BY <1>4, <3>1, Same, EndAttemptOK DEF MarkReconciliation
  <2>2. LaunchOK'
    BY <1>4, SetStatus, Same DEF MarkReconciliation, LaunchStatus
  <2> QED
    BY <1>4, <2>1, <2>2, Same DEF MarkReconciliation
<1> QED
  BY <1>1, <1>2, <1>3, <1>4

LEMMA ReconcileOutcomeOK ==
  ASSUME ProposalTypeOK, NEW status \in {"EXECUTED", "FAILED"}, ReconcileOutcome(status)
  PROVE  ProposalTypeOK'
<1>1. ASSUME NEW p \in Proposals, NEW from, Move(p, from, status, proposal[p].slot)
      PROVE  ProposalTypeOK'
  <2> DEFINE v == [proposal[p] EXCEPT !.status = status]
  <2>1. v \in Proposal
    BY DEF ProposalTypeOK, Proposal, Ended
  <2>2. proposal' = [proposal EXCEPT ![p] = v]
    BY <1>1 DEF Move, ProposalTypeOK, Proposal
  <2> HIDE DEF v
  <2> QED
    BY <2>1, <2>2 DEF ProposalTypeOK
<1> QED
  BY <1>1 DEF ReconcileOutcome, Approved, ProposalTypeOK

LEMMA CreateProposalOK == ASSUME ProposalTypeOK, CreateProposal PROVE ProposalTypeOK'
<1>1. ASSUME NEW p \in Proposals,
             proposal' = [proposal EXCEPT ![p].status = "PENDING", ![p].slot = TRUE]
      PROVE  ProposalTypeOK'
  <2> DEFINE v == [proposal[p] EXCEPT !.status = "PENDING", !.slot = TRUE]
  <2>1. v \in Proposal
    BY DEF ProposalTypeOK, Proposal, Undecided
  <2>2. proposal' = [proposal EXCEPT ![p] = v]
    BY <1>1 DEF ProposalTypeOK
  <2> QED
    BY <2>1, <2>2 DEF ProposalTypeOK
<1> QED
  BY <1>1 DEF CreateProposal, Unmade, ProposalTypeOK

LEMMA PreparationTypes ==
  ASSUME TypeInv, NEW w \in Workers, UNCHANGED <<scan, rq>>
  PROVE  /\ SettleProposal(w) \/ StartImages(w) \/ GenerateImages(w) => TypeInv'
         /\ ReviewListing(w) \/ AwaitApproval(w) \/ ProposePublish(w) => TypeInv'
<1> USE DEF TypeInv, Rest
<1>0. ASSUME NEW pc \in {"notify", "fail", "generate", "review", "await", "propose"},
             Goto(w, pc), UNCHANGED offer
      PROVE  WkOK'
  BY <1>0, Same, GotoOK DEF Places, Publishing, Answered
<1>1. ASSUME SettleProposal(w) PROVE TypeInv'
  <2>1. ProposalTypeOK'
    BY <1>1, ReconcileOutcomeOK, Same DEF SettleProposal
  <2> QED
    BY <1>0, <1>1, <2>1, Same, SufferOK DEF SettleProposal
<1>2. ASSUME StartImages(w) PROVE TypeInv'
  <2>1. LaunchOK'
    BY <1>2, SetStatus DEF StartImages, LaunchStatus
  <2> QED
    BY <1>0, <1>2, <2>1, Same DEF StartImages
<1>3. ASSUME GenerateImages(w) PROVE TypeInv'
  BY <1>0, <1>3, Same, SufferOK DEF GenerateImages
<1>4. ASSUME ReviewListing(w) PROVE TypeInv'
  <2>1. ListingOK'
    BY <1>4 DEF ReviewListing, ListingOK, Listing, Listings
  <2>2. WkOK'
    BY <1>0, <1>4 DEF ReviewListing
  <2> QED
    BY <1>4, <2>1, <2>2, Same DEF ReviewListing
<1>5. ASSUME AwaitApproval(w) PROVE TypeInv'
  <2> DEFINE n == Unapproved("AWAITING_PUBLISH_APPROVAL")
  <2>1. 0 \in Listings /\ 0 \in Grants /\ listing.v \in Listings
    BY DEF Listings, Grants, ListingOK, Listing
  <2>2. n \in Launch
    BY <2>1 DEF LaunchOK, Launch, LaunchStatus, Unapproved
  <2>3. [n EXCEPT !.listing = listing.v] \in Launch
    <3> HIDE DEF n
    <3> QED
      BY <2>1, <2>2 DEF Launch
  <2>4. LaunchOK'
    BY <1>5, <2>3 DEF AwaitApproval, LaunchOK
  <2> QED
    BY <1>0, <1>5, <2>4, Same DEF AwaitApproval
<1>6. ASSUME ProposePublish(w) PROVE TypeInv'
  <2>1. ProposalTypeOK'
    BY <1>6, CreateProposalOK, Same DEF ProposePublish
  <2>2. WkOK' /\ JobOK'
    BY <1>0, <1>6, EndAttemptOK, Same DEF ProposePublish
  <2> QED
    BY <1>6, <2>1, <2>2, Same DEF ProposePublish
<1> QED
  BY <1>1, <1>2, <1>3, <1>4, <1>5, <1>6

LEMMA ClaimingTypes ==
  ASSUME TypeInv, NEW w \in Workers, UNCHANGED <<scan, rq>>
  PROVE  FindSubmission(w) \/ Begin(w) \/ ClaimSubmission(w) => TypeInv'
<1> USE DEF TypeInv, Rest
<1>0. ASSUME NEW pc \in {"claim", "begin", "mark", "fail"}, Goto(w, pc), UNCHANGED offer,
             wk[w].s \in Snapshots
      PROVE  WkOK'
  BY <1>0, Same, GotoOK DEF Places, Publishing, Answered
<1>1. ASSUME FindSubmission(w) PROVE TypeInv'
  <2>1. wk[w].s \in Snapshots
    BY <1>1, AtPlace DEF FindSubmission, Publishing
  <2>2. WkOK' /\ JobOK'
    BY <1>0, <1>1, <2>1, EndAttemptOK, Same DEF FindSubmission
  <2> QED
    BY <1>1, <2>2, Same DEF FindSubmission
<1>2. ASSUME Begin(w) PROVE TypeInv'
  <2>1. wk[w].s \in Snapshots
    BY <1>2, AtPlace DEF Begin, Publishing
  <2>2. LedgerOK'
    BY <1>2, <2>1, SetSubmission, Same DEF Begin, BeginReconciliation, SubmissionStatus
  <2>3. WkOK'
    BY <1>0, <1>2, <2>1 DEF Begin
  <2> QED
    BY <1>2, <2>2, <2>3, Same DEF Begin
<1>3. ASSUME ClaimSubmission(w) PROVE TypeInv'
  <2> DEFINE s == wk[w].s
             n == [status |-> "CLAIMED", token |-> ledger[s].token + 1]
             v == [wk[w] EXCEPT !.pc = "load", !.token = n.token]
  <2>1. s \in Snapshots /\ wk[w] \in Worker
    BY <1>3, AtPlace DEF ClaimSubmission, Publishing
  <2>2. CASE ~(Preparable(s) /\ ClaimForSend(s))
    <3>1. WkOK' /\ JobOK' /\ LedgerOK' /\ LaunchOK'
      BY <1>0, <1>3, <2>1, <2>2, EndAttemptOK, Same DEF ClaimSubmission
    <3> QED
      BY <1>3, <3>1, Same DEF ClaimSubmission
  <2>3. CASE Preparable(s) /\ ClaimForSend(s)
    <3>1. n \in Submission /\ n.token \in Nat
      BY <2>1 DEF LedgerOK, Submission, SubmissionStatus
    <3>2. ledger' = [ledger EXCEPT ![s] = n]
      BY <2>3 DEF ClaimForSend
    <3>3. LedgerOK' /\ ledger'[s].token = n.token
      BY <2>1, <3>1, <3>2 DEF LedgerOK
    <3>4. LaunchOK'
      BY <2>3, SetStatus DEF ClaimForSend, LaunchStatus
    <3>5. v \in Worker /\ v.pc = "load" /\ v.s = s
      BY <2>1, <3>1 DEF Worker
    <3>6. PlaceOK(v)
      BY <2>1, <3>5 DEF PlaceOK, Answered
    <3>7. wk' = [wk EXCEPT ![w] = v] /\ UNCHANGED job
      BY <1>3, <2>3, <3>3 DEF ClaimSubmission, ClaimForSend, LaunchClaimable, WkOK
    <3> HIDE DEF v
    <3>8. WkOK'
      BY <1>3, <3>5, <3>6, <3>7, SetWorker, Same DEF ClaimSubmission
    <3> QED
      BY <1>3, <3>3, <3>4, <3>7, <3>8, Same DEF ClaimSubmission
  <2> QED
    BY <2>2, <2>3
<1> QED
  BY <1>1, <1>2, <1>3

\* A request that does not leave ends in the release of its claim.
LEMMA ToRelease ==
  ASSUME WkOK, OfferKept, NEW w \in Workers, wk[w].s \in Snapshots,
         \/ wk' = [wk EXCEPT ![w].pc = "release", ![w].throws = TRUE]
         \/ \E o \in Outcomes, throws \in BOOLEAN :
              /\ wk' = [wk EXCEPT ![w].pc = "release", ![w].o = o, ![w].throws = throws]
              /\ throws \/ o # "none"
  PROVE  WkOK'
<1> DEFINE v(o, throws) == [wk[w] EXCEPT !.pc = "release", !.o = o, !.throws = throws]
<1>1. wk[w] \in Worker
  BY AtPlace
<1>2. ASSUME NEW o \in Outcomes, NEW throws \in BOOLEAN, throws \/ o # "none",
             wk' = [wk EXCEPT ![w] = v(o, throws)]
      PROVE  WkOK'
  <2>1. /\ v(o, throws) \in Worker /\ v(o, throws).pc = "release"
        /\ v(o, throws).s = wk[w].s /\ v(o, throws).o = o /\ v(o, throws).throws = throws
    BY <1>1 DEF Worker
  <2> HIDE DEF v
  <2>2. PlaceOK(v(o, throws))
    BY <1>2, <2>1 DEF PlaceOK, Answered
  <2> QED
    BY <1>2, <2>1, <2>2, SetWorker
<1>3. CASE wk' = [wk EXCEPT ![w].pc = "release", ![w].throws = TRUE]
  <2>1. wk[w].o \in Outcomes
        /\ v(wk[w].o, TRUE) = [wk[w] EXCEPT !.pc = "release", !.throws = TRUE]
    BY <1>1 DEF Worker
  <2>2. wk' = [wk EXCEPT ![w] = [wk[w] EXCEPT !.pc = "release", !.throws = TRUE]]
    BY <1>3 DEF WkOK
  <2> HIDE DEF v
  <2> QED
    BY <1>2, <2>1, <2>2
<1>4. ASSUME NEW o \in Outcomes, NEW throws \in BOOLEAN, throws \/ o # "none",
             wk' = [wk EXCEPT ![w].pc = "release", ![w].o = o, ![w].throws = throws]
      PROVE  WkOK'
  <2>1. wk' = [wk EXCEPT ![w] = v(o, throws)]
    BY <1>4 DEF WkOK
  <2> QED
    BY <1>2, <1>4, <2>1
<1> QED
  BY <1>3, <1>4

LEMMA StartingTypes ==
  ASSUME TypeInv, NEW w \in Workers, UNCHANGED <<scan, rq>>
  PROVE  LoadSnapshot(w) \/ StartRequest(w) \/ StartUnseen(w) => TypeInv'
<1> USE DEF TypeInv, Rest
<1>1. ASSUME LoadSnapshot(w) PROVE TypeInv'
  <2>1. wk[w].s \in Snapshots
    BY <1>1, AtPlace DEF LoadSnapshot, Publishing
  <2>2. CASE Goto(w, "start")
    <3>1. WkOK'
      BY <1>1, <2>1, <2>2, Same, GotoOK DEF LoadSnapshot, Places, Publishing, Answered
    <3> QED
      BY <1>1, <3>1, Same, SufferOK DEF LoadSnapshot
  <2>3. CASE ~Goto(w, "start")
    <3>1. \E o \in Outcomes, throws \in BOOLEAN :
            /\ wk' = [wk EXCEPT ![w].pc = "release", ![w].o = o, ![w].throws = throws]
            /\ throws \/ o # "none"
      BY <1>1, <2>3 DEF LoadSnapshot, Outcomes
    <3>2. WkOK'
      BY <1>1, <2>1, <3>1, ToRelease, Same DEF LoadSnapshot
    <3> QED
      BY <1>1, <3>2, Same, SufferOK DEF LoadSnapshot
  <2> QED
    BY <2>2, <2>3
<1>2. ASSUME StartRequest(w) PROVE TypeInv'
  <2>1. wk[w].s \in Snapshots
    BY <1>2, AtPlace DEF StartRequest, Publishing
  <2>2. CASE Goto(w, "send") /\ MarkRequestStarted(wk[w].s, wk[w].token, wk[w].g)
    <3>1. WkOK'
      BY <1>2, <2>1, <2>2, Same, GotoOK DEF StartRequest, Places, Publishing, Answered
    <3>2. LedgerOK'
      BY <2>1, <2>2, SetSubmission DEF MarkRequestStarted, SubmissionStatus
    <3>3. LaunchOK'
      BY <2>2 DEF MarkRequestStarted, LaunchOK, Launch
    <3> QED
      BY <1>2, <3>1, <3>2, <3>3, Same DEF StartRequest
  <2>3. CASE ~(Goto(w, "send") /\ MarkRequestStarted(wk[w].s, wk[w].token, wk[w].g))
    <3>1. WkOK'
      BY <1>2, <2>1, <2>3, ToRelease, Same DEF StartRequest
    <3> QED
      BY <1>2, <2>3, <3>1, Same DEF StartRequest
  <2> QED
    BY <2>2, <2>3
<1>3. ASSUME StartUnseen(w) PROVE TypeInv'
  <2>1. WkOK'
    BY <1>3, AtPlace, ToRelease, Same DEF StartUnseen, Publishing
  <2> QED
    BY <1>3, <2>1, Same, SufferOK DEF StartUnseen
<1> QED
  BY <1>1, <1>2, <1>3

LEMMA SendTypes ==
  ASSUME TypeInv, NEW w \in Workers, SendImport(w), UNCHANGED <<scan, rq>>
  PROVE  TypeInv'
<1> USE DEF TypeInv, Rest, SendImport
<1> DEFINE e == [snap |-> wk[w].s, grant |-> wk[w].g]
           v(pc, o, throws) == [wk[w] EXCEPT !.pc = pc, !.o = o, !.throws = throws]
<1>1. wk[w] \in Worker /\ wk[w].s \in Snapshots /\ wk[w].g \in Grants
  BY AtPlace DEF Publishing
<1>2. SentOK'
  BY <1>1 DEF SentOK
<1>3. OfferOK' /\ OfferKept
  BY DEF OfferOK, OfferKept
<1>4. wk[w].o \in Outcomes /\ wk[w].throws \in BOOLEAN
  BY <1>1 DEF Worker
<1>5. \/ wk' = [wk EXCEPT ![w] = v("answer", wk[w].o, wk[w].throws)] /\ offer' # "absent"
      \/ wk' = [wk EXCEPT ![w] = v("result", "FAILED", wk[w].throws)]
      \/ wk' = [wk EXCEPT ![w] = v("unknown", wk[w].o, TRUE)]
  <2>1. /\ v("answer", wk[w].o, wk[w].throws) = [wk[w] EXCEPT !.pc = "answer"]
        /\ v("result", "FAILED", wk[w].throws) = [wk[w] EXCEPT !.pc = "result", !.o = "FAILED"]
        /\ v("unknown", wk[w].o, TRUE) = [wk[w] EXCEPT !.pc = "unknown", !.throws = TRUE]
    BY <1>1 DEF Worker
  <2> HIDE DEF v
  <2>2. CASE Goto(w, "answer") /\ offer' = (IF offer = "absent" THEN "pending" ELSE offer)
    BY <2>1, <2>2 DEF Goto, WkOK
  <2>3. CASE wk' = [wk EXCEPT ![w].pc = "result", ![w].o = "FAILED"]
    BY <2>1, <2>3 DEF WkOK
  <2>4. CASE wk' = [wk EXCEPT ![w].pc = "unknown", ![w].throws = TRUE]
    BY <2>1, <2>4 DEF WkOK
  <2> QED
    BY <2>2, <2>3, <2>4
<1>6. ASSUME NEW pc \in {"answer", "result", "unknown"}, NEW o \in Outcomes,
             NEW throws \in BOOLEAN
      PROVE  /\ v(pc, o, throws) \in Worker /\ v(pc, o, throws).pc = pc
             /\ v(pc, o, throws).s = wk[w].s /\ v(pc, o, throws).o = o
  BY <1>1 DEF Worker
<1> HIDE DEF v
<1>7. ASSUME NEW pc \in {"answer", "result", "unknown"}, NEW o \in Outcomes,
             NEW throws \in BOOLEAN, wk' = [wk EXCEPT ![w] = v(pc, o, throws)],
             pc = "answer" => offer' # "absent", pc = "result" => o # "none"
      PROVE  WkOK'
  <2>1. PlaceOK(v(pc, o, throws))
    BY <1>1, <1>6, <1>7 DEF PlaceOK, Answered
  <2> QED
    BY <1>3, <1>6, <1>7, <2>1, SetWorker
<1>8. WkOK'
  <2>1. "FAILED" \in Outcomes
    BY DEF Outcomes
  <2> QED
    BY <1>4, <1>5, <1>7, <2>1
<1>9. FaultsOK'
  BY Same, SufferOK
<1> QED
  BY <1>2, <1>3, <1>8, <1>9, Same

LEMMA AnswerTypes ==
  ASSUME TypeInv, NEW w \in Workers, UNCHANGED <<scan, rq>>
  PROVE  ReadAnswer(w) \/ StoreResult(w) \/ StoreUnknown(w) => TypeInv'
<1> USE DEF TypeInv, Rest
<1>1. ASSUME ReadAnswer(w) PROVE TypeInv'
  <2>1. PICK o \in {"SUBMITTED_TO_OZON", Readback[offer]} :
               wk' = [wk EXCEPT ![w].pc = "result", ![w].o = o]
    BY <1>1 DEF ReadAnswer
  <2>2. o \in Outcomes /\ o # "none"
    BY <1>1 DEF ReadAnswer, WkOK, OfferOK, Readback, Outcomes
  <2> DEFINE v == [wk[w] EXCEPT !.pc = "result", !.o = o]
  <2>3. wk[w] \in Worker /\ wk[w].s \in Snapshots
    BY <1>1, AtPlace DEF ReadAnswer, Publishing
  <2>4. v \in Worker /\ v.pc = "result" /\ v.s = wk[w].s /\ v.o = o
    BY <2>2, <2>3 DEF Worker
  <2>5. wk' = [wk EXCEPT ![w] = v]
    BY <2>1 DEF WkOK
  <2> HIDE DEF v
  <2>6. PlaceOK(v)
    BY <2>2, <2>3, <2>4 DEF PlaceOK
  <2>7. WkOK'
    BY <1>1, <2>4, <2>5, <2>6, SetWorker, Same DEF ReadAnswer
  <2> QED
    BY <1>1, <2>7, Same DEF ReadAnswer
<1>2. ASSUME StoreResult(w) PROVE TypeInv'
  <2>1. wk[w].s \in Snapshots /\ wk[w].o \in Outcomes \ {"none"}
    BY <1>2, AtPlace DEF StoreResult, Publishing, Answered
  <2>2. ResultStatus(wk[w].o) \in SubmissionStatus
    BY <2>1 DEF Outcomes, ResultStatus, SubmissionStatus
  <2>3. LedgerOK'
    BY <1>2, <2>1, <2>2, SetSubmission, Same DEF StoreResult, RecordResult
  <2>4. WkOK' /\ JobOK'
    BY <1>2, <2>1, EndAttemptOK, GotoOK, Same DEF StoreResult, Places, Publishing
  <2> QED
    BY <1>2, <2>3, <2>4, Same DEF StoreResult
<1>3. ASSUME StoreUnknown(w) PROVE TypeInv'
  <2>1. wk[w].s \in Snapshots
    BY <1>3, AtPlace DEF StoreUnknown, Publishing
  <2>2. LedgerOK'
    BY <1>3, <2>1, SetSubmission, Same DEF StoreUnknown, RecordUnknown, SubmissionStatus
  <2>3. WkOK' /\ JobOK'
    BY <1>3, EndAttemptOK, GotoOK, Same DEF StoreUnknown, Places, Publishing, Answered
  <2> QED
    BY <1>3, <2>2, <2>3, Same DEF StoreUnknown
<1> QED
  BY <1>1, <1>2, <1>3

LEMMA ReleaseTypes ==
  ASSUME TypeInv, NEW w \in Workers, ReleaseSubmission(w), UNCHANGED <<scan, rq>>
  PROVE  TypeInv'
<1> USE DEF TypeInv, Rest, ReleaseSubmission
<1>1. /\ wk[w].s \in Snapshots /\ wk[w].throws \in BOOLEAN
      /\ wk[w].throws \/ wk[w].o # "none"
  <2>1. PlaceOK(wk[w]) /\ wk[w] \in Worker
    BY DEF WkOK
  <2> QED
    BY <2>1 DEF PlaceOK, Publishing, Worker
<1>2. LedgerOK' /\ LaunchOK'
  <2>1. CASE ReleaseClaim(wk[w].s, wk[w].token)
    BY <1>1, <2>1, SetSubmission, SetStatus DEF ReleaseClaim, SubmissionStatus, LaunchStatus
  <2> QED
    BY <2>1, Same
<1>3. ASSUME Goto(w, "persist"), ~wk[w].throws PROVE WkOK'
  BY <1>1, <1>3, GotoOK, Same DEF Places, Publishing
<1>4. ASSUME Goto(w, "fail") PROVE WkOK'
  BY <1>4, GotoOK, Same DEF Places, Publishing, Answered
<1>5. ASSUME NEW ok \in BOOLEAN, EndAttempt(w, ok) PROVE WkOK' /\ JobOK'
  BY <1>5, EndAttemptOK, Same
<1>6. WkOK' /\ JobOK'
  BY <1>3, <1>4, <1>5, Same
<1>7. FaultsOK'
  BY Same, SufferOK
<1> QED
  BY <1>2, <1>6, <1>7, Same

LEMMA WorkerFaultTypes ==
  ASSUME TypeInv, NEW w \in Workers, UNCHANGED <<scan, rq>>
  PROVE  QueryFails(w) \/ QueryEnds(w) \/ WorkerCrash(w) => TypeInv'
<1> USE DEF TypeInv, Rest
<1>1. ASSUME QueryFails(w) PROVE TypeInv'
  <2>1. WkOK'
    BY <1>1, GotoOK, Same DEF QueryFails, Places, Publishing, Answered
  <2> QED
    BY <1>1, <2>1, Same, SufferOK DEF QueryFails
<1>2. ASSUME QueryEnds(w) PROVE TypeInv'
  <2>1. WkOK' /\ JobOK'
    BY <1>2, EndAttemptOK, Same DEF QueryEnds
  <2> QED
    BY <1>2, <2>1, Same, SufferOK DEF QueryEnds
<1>3. ASSUME WorkerCrash(w) PROVE TypeInv'
  <2>1. WkOK'
    BY <1>3, IdleWorkerOK, IdleWorkerPlace, SetWorker, Same DEF WorkerCrash
  <2>2. JobOK'
    <3>1. CASE UNCHANGED job
      BY <3>1, Same
    <3>2. CASE Holds(w) /\ job[wk[w].j].stalls < 2
      <4> DEFINE j == wk[w].j
                 v == [job[j] EXCEPT !.state = "waiting", !.by = NoOne, !.stalls = @ + 1]
      <4>1. j \in Jobs /\ job[j] \in Job
        BY AtPlace DEF JobOK
      <4>2. job[j].stalls + 1 \in 0..2
        BY <3>2, <4>1 DEF Job
      <4>3. v \in Job /\ v.made = job[j].made
        BY <4>1, <4>2 DEF Job
      <4>4. job[j].made < JobAttempts
        BY <3>2, <4>1 DEF Holds, JobOK
      <4>5. job' = [job EXCEPT ![j] = v]
        BY <1>3, <3>2 DEF WorkerCrash, JobOK
      <4> HIDE DEF v, j
      <4> QED
        BY <4>1, <4>3, <4>4, <4>5, SetJob
    <3> QED
      BY <1>3, <3>1, <3>2 DEF WorkerCrash
  <2> QED
    BY <1>3, <2>1, <2>2, Same, SufferOK DEF WorkerCrash
<1> QED
  BY <1>1, <1>2, <1>3

LEMMA WorkerTypes == ASSUME TypeInv, ByWorker(WorkerNext) PROVE TypeInv'
<1>1. PICK w \in Workers : \/ \E j \in Jobs : TakeJob(w, j)
                           \/ WorkerStep(w) \/ QueryFails(w) \/ QueryEnds(w) \/ WorkerCrash(w)
  BY DEF ByWorker, WorkerNext
<1>2. UNCHANGED <<scan, rq>>
  BY DEF ByWorker
<1>3. CASE WorkerStep(w)
  BY <1>2, <1>3, ReadTypes, PreflightTypes, EndingTypes, PreparationTypes, ClaimingTypes,
     StartingTypes, SendTypes, AnswerTypes, ReleaseTypes
  DEF WorkerStep
<1> QED
  BY <1>1, <1>2, <1>3, TakeJobTypes, WorkerFaultTypes

-----------------------------------------------------------------------------
(* The recovery scan.                                                      *)

LEMMA RecoveryTypes == ASSUME TypeInv, ByRecovery(RecoveryNext) PROVE TypeInv'
<1> USE DEF TypeInv, ByRecovery, Untouched
<1>0. ASSUME Touch PROVE ScanOK'
  BY <1>0, IdleScanOK DEF Touch, ScanOK
<1>1. CASE ScanLaunch
  <2> DEFINE v == [IdleScan EXCEPT !.pc = "claim", !.s = launch.snap]
  <2>1. launch.snap \in Snapshots
    BY <1>1 DEF ScanLaunch, LaunchOK, Launch
  <2>2. v \in Scan /\ v.pc = "claim" /\ v.s = launch.snap
    BY <2>1, IdleScanOK DEF Scan, IdleScan
  <2>3. ScanOK'
    BY <1>1, <2>1, <2>2 DEF ScanLaunch, ScanOK
  <2> QED
    BY <1>1, <2>3, Same DEF ScanLaunch
<1>2. CASE ClaimScan
  <2>1. ScanOK'
    BY <1>0, <1>2 DEF ClaimScan, Step, ScanOK, Scan
  <2> QED
    BY <1>2, <2>1, Same DEF ClaimScan
<1>3. CASE ReadBack
  <2>0. Touch \/ \E o \in {"SUBMITTED_TO_OZON", "ACTIVE_ON_OZON"} :
                   scan' = [scan EXCEPT !.pc = "lookup", !.o = o]
    <3> DEFINE o == [absent |-> "none", pending |-> "SUBMITTED_TO_OZON",
                     active |-> "ACTIVE_ON_OZON"]
    <3>1. offer # "absent" => o[offer] \in {"SUBMITTED_TO_OZON", "ACTIVE_ON_OZON"}
      BY DEF OfferOK
    <3>2. Touch \/ (offer # "absent" /\ scan' = [scan EXCEPT !.pc = "lookup", !.o = o[offer]])
      BY <1>3 DEF ReadBack
    <3> QED
      BY <3>1, <3>2
  <2>1. ScanOK'
    BY <1>0, <1>3, <2>0 DEF ReadBack, ScanOK, Scan
  <2> QED
    BY <1>3, <2>1, Same DEF ReadBack
<1>4. CASE ScanLookUp
  <2>1. scan.s \in Snapshots
    BY <1>4 DEF ScanLookUp, ScanOK
  <2>2. ledger[scan.s].status \in SubmissionStatus
    BY <2>1 DEF LedgerOK, Submission
  <2>3. ScanOK'
    BY <1>4, <2>1, <2>2 DEF ScanLookUp, ScanOK, Scan
  <2> QED
    BY <1>4, <2>3, Same DEF ScanLookUp
<1>5. CASE ScanReconcile
  <2>1. scan.s \in Snapshots /\ scan.o \in {"ACTIVE_ON_OZON", "SUBMITTED_TO_OZON"}
    BY <1>5 DEF ScanReconcile, ScanOK, Scan
  <2>2. ResultStatus(scan.o) \in SubmissionStatus
    BY <2>1 DEF ResultStatus, SubmissionStatus
  <2>3. LedgerOK'
    BY <1>5, <2>1, <2>2, SetSubmission, Same DEF ScanReconcile, RecordReconciled
  <2>4. ScanOK'
    BY <1>0, <1>5 DEF ScanReconcile, Step, ScanOK, Scan
  <2> QED
    BY <1>5, <2>3, <2>4, Same DEF ScanReconcile
<1>6. CASE ScanProposal
  <2>1. ScanOK'
    BY <1>6 DEF ScanProposal, Step, ScanOK, Scan
  <2>2. ProposalTypeOK'
    BY <1>6, ReconcileOutcomeOK DEF ScanProposal
  <2> QED
    BY <1>6, <2>1, <2>2, Same DEF ScanProposal
<1>7. CASE FinishRecovery
  <2>1. LaunchOK'
    BY <1>7, SetStatus, Same DEF FinishRecovery, LaunchStatus
  <2>2. SnapshotOK'
    <3>1. scan.s \in Snapshots
      BY <1>7 DEF FinishRecovery, ScanOK
    <3>2. \/ UNCHANGED snapshot
          \/ \E status \in {"ACTIVE", "SUBMITTED"} :
               snapshot' = [snapshot EXCEPT ![scan.s].status = status]
      BY <1>7 DEF FinishRecovery
    <3> QED
      BY <3>1, <3>2 DEF SnapshotOK, Snapshot
  <2> QED
    BY <1>0, <1>7, <2>1, <2>2, Same DEF FinishRecovery
<1>8. CASE ScanFails
  BY <1>0, <1>8, Same, SufferOK DEF ScanFails
<1> QED
  BY <1>1, <1>2, <1>3, <1>4, <1>5, <1>6, <1>7, <1>8 DEF RecoveryNext, RecoveryStep

-----------------------------------------------------------------------------
(* The requests of people.                                                 *)

RequestPlaceOK(v) ==
  /\ v.pc \in {"sandbox", "prepare", "approve", "add"} => v.s \in Snapshots
  /\ v.pc \in {"consume", "complete", "fail"} => v.p \in Proposals

LEMMA SetRequest ==
  ASSUME RqOK, NEW u \in Users, NEW v \in Request, RequestPlaceOK(v),
         rq' = [rq EXCEPT ![u] = v]
  PROVE  RqOK'
BY DEF RqOK, RequestPlaceOK

LEMMA AtRequest ==
  ASSUME RqOK, NEW u \in Users PROVE rq[u] \in Request /\ RequestPlaceOK(rq[u])
BY DEF RqOK, RequestPlaceOK

RequestPcs == {"idle", "upsert", "enqueue", "undo", "consume", "read", "check", "capture",
               "sandbox", "prepare", "approve", "add", "revert", "complete", "fail"}

LEMMA ProceedOK ==
  ASSUME RqOK, NEW u \in Users, NEW pc \in RequestPcs, Proceed(u, pc),
         pc \in {"sandbox", "prepare", "approve", "add"} => rq[u].s \in Snapshots,
         pc \in {"consume", "complete", "fail"} => rq[u].p \in Proposals
  PROVE  RqOK'
<1> DEFINE v == [rq[u] EXCEPT !.pc = pc]
<1>1. rq[u] \in Request
  BY AtRequest
<1>2. v \in Request /\ v.pc = pc /\ v.s = rq[u].s /\ v.p = rq[u].p
  BY <1>1 DEF Request, RequestPcs
<1>3. rq' = [rq EXCEPT ![u] = v]
  BY DEF Proceed, RqOK
<1> HIDE DEF v
<1> QED
  BY <1>2, <1>3, SetRequest DEF RequestPlaceOK

LEMMA AnswerOK == ASSUME RqOK, NEW u \in Users, Answer(u) PROVE RqOK'
BY IdleRequestOK, SetRequest DEF Answer, RequestPlaceOK

LEMMA RefuseOK == ASSUME RqOK, NEW u \in Users, Refuse(u) PROVE RqOK'
<1>1. rq[u].p \in Proposals \cup {0}
  BY AtRequest DEF Request
<1> QED
  BY <1>1, AnswerOK, ProceedOK DEF Refuse, RequestPcs

\* A proposal gets new fields of their types.
LEMMA SetProposal ==
  ASSUME ProposalTypeOK, NEW p \in Proposals, NEW v \in Proposal,
         proposal' = [proposal EXCEPT ![p] = v]
  PROVE  ProposalTypeOK'
BY DEF ProposalTypeOK

LEMMA MoveOK ==
  ASSUME ProposalTypeOK, NEW p \in Proposals, NEW from, NEW slot \in BOOLEAN,
         NEW to \in {"APPROVED", "CHANGES_REQUESTED"} \cup Ended, Move(p, from, to, slot)
  PROVE  ProposalTypeOK'
<1> DEFINE v == [proposal[p] EXCEPT !.status = to, !.slot = slot]
<1>1. v \in Proposal
  BY DEF ProposalTypeOK, Proposal
<1>2. proposal' = [proposal EXCEPT ![p] = v]
  BY DEF Move, ProposalTypeOK
<1> QED
  BY <1>1, <1>2, SetProposal

LEMMA ClaimOK ==
  ASSUME ProposalTypeOK, NEW p \in Proposals, NEW override, Claim(p, override)
  PROVE  ProposalTypeOK'
<1> DEFINE v == [proposal[p] EXCEPT !.status = "EXECUTING", !.attempt = @ + 1, !.used = FALSE]
<1>1. proposal[p].attempt + 1 \in 0..MaxClaims
  BY DEF Claim, ProposalTypeOK, Proposal
<1>2. v \in Proposal
  BY <1>1 DEF ProposalTypeOK, Proposal, Undecided
<1>3. proposal' = [proposal EXCEPT ![p] = v]
  BY DEF Claim, ProposalTypeOK
<1> QED
  BY <1>2, <1>3, SetProposal

LEMMA ConsumeOK ==
  ASSUME ProposalTypeOK, NEW p \in Proposals, NEW attempt, Consume(p, attempt)
  PROVE  ProposalTypeOK'
<1> DEFINE v == [proposal[p] EXCEPT !.used = TRUE, !.runs = @ + 1]
<1>0. proposal[p].runs + 1 \in Nat
  BY DEF ProposalTypeOK, Proposal
<1>1. v \in Proposal
  BY <1>0 DEF ProposalTypeOK, Proposal
<1>2. proposal' = [proposal EXCEPT ![p] = v]
  BY DEF Consume, ProposalTypeOK
<1> QED
  BY <1>1, <1>2, SetProposal

LEMMA RecoverStaleOK ==
  ASSUME ProposalTypeOK, NEW stale, RecoverStale(stale) PROVE ProposalTypeOK'
<1>1. \A p \in Proposals : [proposal[p] EXCEPT !.status = "UNKNOWN", !.slot = TRUE] \in Proposal
  BY DEF ProposalTypeOK, Proposal, Ended
<1> QED
  BY <1>1 DEF RecoverStale, ProposalTypeOK

LEMMA ClaimTypes ==
  ASSUME TypeInv, NEW u \in Users, NEW p \in Proposals, ClaimProposal(u, p),
         UNCHANGED <<wk, scan>>
  PROVE  TypeInv'
<1> USE DEF TypeInv, Kept
<1> DEFINE v == [IdleRequest EXCEPT !.pc = "consume", !.p = p]
<1>1. v \in Request /\ v.pc = "consume" /\ v.p = p
  BY IdleRequestOK DEF Request, IdleRequest
<1> HIDE DEF v
<1>2. UNCHANGED rq \/ rq' = [rq EXCEPT ![u] = v]
  BY <1>1 DEF ClaimProposal, v
<1>3. RqOK'
  BY <1>1, <1>2, Same, SetRequest DEF RequestPlaceOK
<1>4. ProposalTypeOK'
  BY ClaimOK, MoveOK DEF ClaimProposal, ExpireAtClaim, Ended
<1> QED
  BY <1>3, <1>4, Same, SufferOK DEF ClaimProposal

LEMMA ExecutionTypes ==
  ASSUME TypeInv, NEW u \in Users, UNCHANGED <<wk, scan>>
  PROVE  ConsumeGrant(u) \/ CompleteExecution(u) \/ FailExecution(u) => TypeInv'
<1> USE DEF TypeInv, Kept
<1>0. rq[u].pc \in {"consume", "complete", "fail"} => rq[u].p \in Proposals
  BY DEF RqOK
<1>1. ASSUME ConsumeGrant(u) PROVE TypeInv'
  <2>1. RqOK'
    BY <1>0, <1>1, ProceedOK DEF ConsumeGrant, RequestPcs
  <2>2. ProposalTypeOK'
    BY <1>0, <1>1, ConsumeOK, Same DEF ConsumeGrant
  <2> QED
    BY <1>1, <2>1, <2>2, Same DEF ConsumeGrant
<1>2. ASSUME CompleteExecution(u) PROVE TypeInv'
  <2>1. RqOK'
    BY <1>0, <1>2, ProceedOK, AnswerOK DEF CompleteExecution, RequestPcs
  <2>2. ProposalTypeOK'
    BY <1>0, <1>2, MoveOK, Same DEF CompleteExecution, Complete
  <2> QED
    BY <1>2, <2>1, <2>2, Same DEF CompleteExecution
<1>3. ASSUME FailExecution(u) PROVE TypeInv'
  <2>1. ProposalTypeOK'
    BY <1>0, <1>3, MoveOK, Same DEF FailExecution, Fail, Ended
  <2> QED
    BY <1>3, <2>1, AnswerOK, Same DEF FailExecution
<1> QED
  BY <1>1, <1>2, <1>3

LEMMA ConfirmTypes ==
  ASSUME TypeInv, NEW u \in Users, UNCHANGED <<wk, scan>>
  PROVE  ConfirmLaunch(u) \/ UpsertLaunch(u) \/ EnqueuePrepare(u) \/ UndoConfirm(u) => TypeInv'
<1> USE DEF TypeInv, Kept
<1>0. ASSUME NEW pc \in {"upsert", "enqueue", "undo"}, Proceed(u, pc) PROVE RqOK'
  BY <1>0, ProceedOK DEF RequestPcs
<1>1. ASSUME ConfirmLaunch(u) PROVE TypeInv'
  BY <1>0, <1>1, Same DEF ConfirmLaunch
<1>2. ASSUME UpsertLaunch(u) PROVE TypeInv'
  <2> DEFINE n == Unapproved("QUEUED")
  <2>1. 0 \in Listings /\ 0 \in Grants
    BY DEF Listings, Grants
  <2>2. n \in Launch
    BY <2>1 DEF LaunchOK, Launch, LaunchStatus, Unapproved
  <2>3. [n EXCEPT !.listing = 0] \in Launch
    <3> HIDE DEF n
    <3> QED
      BY <2>1, <2>2 DEF Launch
  <2>4. LaunchOK'
    BY <1>2, <2>3 DEF UpsertLaunch, LaunchOK
  <2> QED
    BY <1>0, <1>2, <2>4, Same DEF UpsertLaunch
<1>3. ASSUME EnqueuePrepare(u) PROVE TypeInv'
  <2>1. 0 \in Jobs /\ 0 \in Grants
    BY DEF Jobs, Grants
  <2>2. JobOK'
    BY <1>3, <2>1, AddJobOK, Same DEF EnqueuePrepare
  <2>3. RqOK' /\ FaultsOK'
    BY <1>0, <1>3, AnswerOK, Same, SufferOK DEF EnqueuePrepare
  <2> QED
    BY <1>3, <2>2, <2>3, Same DEF EnqueuePrepare
<1>4. ASSUME UndoConfirm(u) PROVE TypeInv'
  <2>1. LaunchOK'
    BY <1>4, SetStatus DEF UndoConfirm, LaunchStatus
  <2> QED
    BY <1>4, <2>1, AnswerOK, Same DEF UndoConfirm
<1> QED
  BY <1>1, <1>2, <1>3, <1>4

LEMMA CaptureTypes ==
  ASSUME TypeInv, NEW u \in Users, UNCHANGED <<wk, scan>>
  PROVE  /\ RequestPublish(u) \/ ReadAwaiting(u) \/ CheckListing(u) => TypeInv'
         /\ CaptureSnapshot(u) \/ EvaluateSandbox(u) => TypeInv'
<1> USE DEF TypeInv, Kept
<1>1. ASSUME RequestPublish(u) PROVE TypeInv'
  <2>1. RqOK'
    BY <1>1, ProceedOK DEF RequestPublish, RequestPcs
  <2> QED
    BY <1>1, <2>1, Same DEF RequestPublish
<1>2. ASSUME ReadAwaiting(u) PROVE TypeInv'
  <2> DEFINE v == [rq[u] EXCEPT !.pc = "check", !.doc = launch.listing]
  <2>1. launch.listing \in Listings /\ rq[u] \in Request
    BY AtRequest DEF LaunchOK, Launch
  <2>2. v \in Request /\ v.pc = "check"
    BY <2>1 DEF Request
  <2>3. Refuse(u) \/ rq' = [rq EXCEPT ![u] = v]
    BY <1>2 DEF ReadAwaiting, RqOK
  <2> HIDE DEF v
  <2>4. RqOK'
    BY <2>2, <2>3, RefuseOK, SetRequest DEF RequestPlaceOK
  <2> QED
    BY <1>2, <2>4, Same DEF ReadAwaiting
<1>3. ASSUME CheckListing(u) PROVE TypeInv'
  <2>1. RqOK'
    BY <1>3, ProceedOK, RefuseOK DEF CheckListing, RequestPcs
  <2> QED
    BY <1>3, <2>1, Same DEF CheckListing
<1>4. ASSUME CaptureSnapshot(u) PROVE TypeInv'
  <2> DEFINE v(s) == [rq[u] EXCEPT !.pc = "sandbox", !.s = s]
             new == [status |-> "APPROVED", report |-> "none", content |-> rq[u].doc]
  <2>1. rq[u] \in Request
    BY AtRequest
  <2>2. ASSUME NEW s \in Snapshots
        PROVE  v(s) \in Request /\ v(s).pc = "sandbox" /\ v(s).s = s
    BY <2>1 DEF Request
  <2>3. new \in Snapshot
    BY <2>1 DEF Request, Snapshot
  <2>4. \/ Refuse(u) /\ UNCHANGED snapshot
        \/ \E s \in Snapshots :
             /\ rq' = [rq EXCEPT ![u] = v(s)]
             /\ UNCHANGED snapshot \/ snapshot' = [snapshot EXCEPT ![s] = new]
    BY <1>4 DEF CaptureSnapshot, Reusable, Fresh, RqOK
  <2> HIDE DEF v, new
  <2>5. RqOK'
    BY <2>2, <2>4, RefuseOK, SetRequest DEF RequestPlaceOK
  <2>6. SnapshotOK'
    BY <2>3, <2>4 DEF SnapshotOK
  <2> QED
    BY <1>4, <2>5, <2>6, Same DEF CaptureSnapshot
<1>5. ASSUME EvaluateSandbox(u) PROVE TypeInv'
  <2> DEFINE v == [rq[u] EXCEPT !.pc = "fail", !.blocked = TRUE]
  <2>1. rq[u] \in Request /\ rq[u].s \in Snapshots
    BY <1>5, AtRequest DEF EvaluateSandbox, RequestPlaceOK
  <2>2. v \in Request /\ v.pc = "fail" /\ v.p = rq[u].p
    BY <2>1 DEF Request
  <2>3. rq[u].p \in Proposals \cup {0}
    BY <2>1 DEF Request
  <2>4. \/ Refuse(u) \/ Answer(u) \/ Proceed(u, "prepare")
        \/ rq[u].p # 0 /\ rq' = [rq EXCEPT ![u] = v]
    BY <1>5 DEF EvaluateSandbox, RqOK
  <2> HIDE DEF v
  <2>5. RqOK'
    BY <2>1, <2>2, <2>3, <2>4, RefuseOK, AnswerOK, ProceedOK, SetRequest
    DEF RequestPlaceOK, RequestPcs
  <2>6. \/ UNCHANGED snapshot
        \/ \E report \in {"clear", "blocked"}, status \in {"APPROVED", "BLOCKED"} :
             snapshot' = [snapshot EXCEPT ![rq[u].s].report = report,
                                          ![rq[u].s].status = status]
    BY <1>5 DEF EvaluateSandbox
  <2>7. SnapshotOK'
    BY <2>1, <2>6 DEF SnapshotOK, Snapshot
  <2> QED
    BY <1>5, <2>5, <2>7, Same DEF EvaluateSandbox
<1> QED
  BY <1>1, <1>2, <1>3, <1>4, <1>5

LEMMA PublishTypes ==
  ASSUME TypeInv, NEW u \in Users, UNCHANGED <<wk, scan>>
  PROVE  /\ PrepareLedger(u) \/ ApprovePublish(u) => TypeInv'
         /\ EnqueuePublish(u) \/ RevertPublish(u) \/ RequestFails(u) => TypeInv'
<1> USE DEF TypeInv, Kept
<1>0. /\ rq[u] \in Request /\ RequestPlaceOK(rq[u])
      /\ rq[u].p \in Proposals \cup {0} /\ rq[u].g \in Grants /\ rq[u].doc \in Listings
  BY AtRequest DEF Request
<1>1. ASSUME PrepareLedger(u) PROVE TypeInv'
  <2>1. rq[u].s \in Snapshots
    BY <1>0, <1>1 DEF PrepareLedger, RequestPlaceOK
  <2>2. LedgerOK'
    BY <1>1, <2>1, SetSubmission, Same DEF PrepareLedger, Prepare, Prepared, SubmissionStatus
  <2>3. RqOK'
    BY <1>1, <2>1, ProceedOK, RefuseOK DEF PrepareLedger, RequestPcs
  <2> QED
    BY <1>1, <2>2, <2>3, Same DEF PrepareLedger
<1>2. ASSUME ApprovePublish(u) PROVE TypeInv'
  <2> DEFINE v == [rq[u] EXCEPT !.pc = "add", !.g = issued + 1]
             n == [launch EXCEPT !.status = "QUEUED", !.auto = TRUE, !.content = rq[u].doc,
                                 !.snap = rq[u].s, !.grant = issued + 1, !.auth = "live"]
  <2>1. rq[u].s \in Snapshots
    BY <1>0, <1>2 DEF ApprovePublish, RequestPlaceOK
  <2>2. issued + 1 \in Grants
    BY <1>2 DEF ApprovePublish, IssuedOK, Grants
  <2>3. v \in Request /\ v.pc = "add" /\ v.s = rq[u].s
    BY <1>0, <2>2 DEF Request
  <2>4. n \in Launch
    BY <1>0, <2>1, <2>2 DEF LaunchOK, Launch, LaunchStatus
  <2>5. rq' = [rq EXCEPT ![u] = v] /\ launch' = n /\ issued' = issued + 1
    BY <1>2 DEF ApprovePublish, RqOK
  <2> HIDE DEF v, n
  <2>6. RqOK' /\ LaunchOK' /\ IssuedOK'
    BY <2>1, <2>2, <2>3, <2>4, <2>5, SetRequest DEF RequestPlaceOK, LaunchOK, IssuedOK
  <2> QED
    BY <1>2, <2>6, Same DEF ApprovePublish
<1>3. ASSUME EnqueuePublish(u) PROVE TypeInv'
  <2>1. rq[u].s \in Snapshots
    BY <1>0, <1>3 DEF EnqueuePublish, RequestPlaceOK
  <2>2. JobOK'
    BY <1>0, <1>3, <2>1, AddJobOK, Same DEF EnqueuePublish, Jobs
  <2>3. RqOK'
    BY <1>0, <1>3, AnswerOK, ProceedOK DEF EnqueuePublish, RequestPcs
  <2> QED
    BY <1>3, <2>2, <2>3, Same, SufferOK DEF EnqueuePublish
<1>4. ASSUME RevertPublish(u) PROVE TypeInv'
  <2>1. LaunchOK'
    BY <1>4, SetStatus DEF RevertPublish, LaunchStatus
  <2> QED
    BY <1>4, <2>1, RefuseOK, Same DEF RevertPublish
<1>5. ASSUME RequestFails(u) PROVE TypeInv'
  BY <1>5, RefuseOK, AnswerOK, Same, SufferOK DEF RequestFails
<1> QED
  BY <1>1, <1>2, <1>3, <1>4, <1>5

LEMMA ApiTypes == ASSUME TypeInv, ByApi(ApiNext) PROVE TypeInv'
<1>1. UNCHANGED <<wk, scan>> /\ ApiNext
  BY DEF ByApi
<1>2. ASSUME NEW p \in Proposals, DecideOtherwise(p) PROVE TypeInv'
  <2>1. ProposalTypeOK'
    BY <1>2, MoveOK DEF TypeInv, DecideOtherwise, Dismiss, Review, Ended
  <2> QED
    BY <1>1, <1>2, <2>1, Same DEF TypeInv, DecideOtherwise, Kept
<1>3. ASSUME RecoverExecutions PROVE TypeInv'
  BY <1>1, <1>3, RecoverStaleOK, Same DEF TypeInv, RecoverExecutions, Kept
<1>4. ASSUME NEW u \in Users, RequestStep(u) PROVE TypeInv'
  BY <1>1, <1>4, ExecutionTypes, ConfirmTypes, CaptureTypes, PublishTypes DEF RequestStep
<1> QED
  BY <1>1, <1>2, <1>3, <1>4, ClaimTypes, ConfirmTypes, CaptureTypes, PublishTypes DEF ApiNext

-----------------------------------------------------------------------------
LEMMA NextTypeInv == TypeInv /\ [Next]_vars => TypeInv'
<1> SUFFICES ASSUME TypeInv, [Next]_vars PROVE TypeInv'
  OBVIOUS
<1>1. CASE UNCHANGED vars
  BY <1>1, Same DEF TypeInv, vars, launchVars
<1> QED
  BY <1>1, ApiTypes, WorkerTypes, RecoveryTypes, EnvironmentTypes DEF Next

LEMMA TypeInvInvariant == Spec => []TypeInv
BY InitTypeInv, NextTypeInv, PTL DEF Spec

\* The rows, jobs, workers and requests keep their types: no operation writes a
\* status that its table does not have, for any sizes and faults.
THEOREM LaunchTypes == Spec => []TypeOK
BY TypeInvInvariant, TypeInvTypeOK, PTL
=============================================================================
