----------------------------- MODULE LaunchStore -----------------------------
(***************************************************************************)
(* What the product-launch subsystem keeps: the row of one launch, the     *)
(* listing generated for it, the publish snapshots captured from approved  *)
(* listings, the ledger of external submissions (one row per snapshot),    *)
(* the jobs of the product-launches queue, and the offer at Ozon.          *)
(*                                                                         *)
(* Listings, snapshots and grants are numbered in the order in which they  *)
(* are made; 0 stands for null.  A listing number also stands for its      *)
(* content hash: an approved listing is immutable.                         *)
(***************************************************************************)
EXTENDS Naturals, FiniteSets, Sequences

CONSTANTS
  MaxListings,    \* listings that may be generated (each after the last was removed)
  MaxSnapshots,   \* publish snapshots that may be captured
  MaxGrants,      \* publish execution grants that may be issued
  JobAttempts,    \* attempts of a product-launches job
  Workers,        \* worker slots: one per process, concurrency is 1
  NoOne,          \* no worker
  FaultKinds,     \* what the environment may do to the program
  MaxFaults       \* how many times it does it in a behaviour

AllFaultKinds == {"redis", "database", "crash", "stall", "network", "refused", "channel",
                  "denied", "late"}

ASSUME LaunchAssumption ==
  /\ MaxListings \in Nat /\ MaxSnapshots \in Nat /\ MaxGrants \in Nat
  /\ JobAttempts \in Nat \ {0} /\ MaxFaults \in Nat
  /\ NoOne \notin Workers /\ FaultKinds \subseteq AllFaultKinds

VARIABLES launch, listing, snapshot, ledger, job,
          issued,   \* publish execution grants issued so far
          offer,    \* the product at Ozon, found by its offer id
          sent,     \* history: the import requests that left, in order
          faults

launchVars == <<launch, listing, snapshot, ledger, job, issued, offer, sent, faults>>

Snapshots == 1..MaxSnapshots
Listings  == 0..MaxListings
Grants    == 0..MaxGrants
Jobs      == {0} \cup Snapshots     \* 0: the prepare job; s: the publish job of s

LaunchStatus == {"NONE", "QUEUED", "GENERATING_IMAGES", "AWAITING_PUBLISH_APPROVAL",
                 "SUBMITTING_TO_OZON", "RECOVERING", "ACTIVE_ON_OZON", "FAILED", "BLOCKED"}

SubmissionStatus == {"NONE", "PREPARED", "CLAIMED", "REQUEST_SENT", "ACKNOWLEDGED",
                     "SUCCEEDED", "REJECTED", "UNKNOWN", "RETRYABLE_FAILED", "RECONCILING"}

Launch == [status  : LaunchStatus,
           auto    : BOOLEAN,                              \* confirmAutoPublish
           listing : Listings,                             \* listingDraftId
           content : Listings,                             \* approvedContentHash
           snap    : Snapshots \cup {0},                   \* selectedPublishSnapshotId
           grant   : Grants,                               \* publishExecutionGrantHash
           auth    : {"none", "live", "expired", "used"}]  \* ...ExpiresAt, ...ConsumedAt

Listing == [v : Listings, state : {"none", "IN_REVIEW", "APPROVED"}]

Snapshot == [status  : {"none", "APPROVED", "BLOCKED", "SUBMITTED", "ACTIVE"},
             content : Listings,
             report  : {"none", "clear", "blocked"}]       \* the sandbox report

Submission == [status : SubmissionStatus, token : Nat]     \* claimToken, by attemptCount

Job == [state  : {"none", "waiting", "active", "completed", "failed"},
        made   : 0..JobAttempts,
        grant  : Grants,                                   \* publishExecutionGrant
        by     : Workers \cup {NoOne},
        stalls : 0..2]

StoreTypeOK ==
  /\ launch \in Launch /\ listing \in Listing
  /\ snapshot \in [Snapshots -> Snapshot]
  /\ ledger \in [Snapshots -> Submission]
  /\ job \in [Jobs -> Job]
  /\ issued \in Grants /\ offer \in {"absent", "pending", "active"}
  /\ sent \in Seq([snap : Snapshots, grant : Grants])
  /\ faults \in Nat

NoJob == [state |-> "none", made |-> 0, grant |-> 0, by |-> NoOne, stalls |-> 0]

StoreInit ==
  /\ launch = [status |-> "NONE", auto |-> FALSE, listing |-> 0, content |-> 0,
               snap |-> 0, grant |-> 0, auth |-> "none"]
  /\ listing = [v |-> 0, state |-> "none"]
  /\ snapshot = [s \in Snapshots |-> [status |-> "none", content |-> 0, report |-> "none"]]
  /\ ledger = [s \in Snapshots |-> [status |-> "NONE", token |-> 0]]
  /\ job = [j \in Jobs |-> NoJob]
  /\ issued = 0 /\ offer = "absent" /\ sent = <<>> /\ faults = 0

Suffer(kind) == kind \in FaultKinds /\ faults < MaxFaults /\ faults' = faults + 1

\* queue.add: an id that is still in the queue, finished jobs included, is ignored.
AddJob(j, grant) ==
  job' = IF job[j].state = "none" THEN [job EXCEPT ![j] = [NoJob EXCEPT !.state = "waiting",
                                                                        !.grant = grant]]
         ELSE job

\* What confirm (and a failed confirmPublish) resets on the row.
Unapproved(status) ==
  [launch EXCEPT !.status = status, !.auto = FALSE, !.content = 0, !.snap = 0,
                 !.grant = 0, !.auth = "none"]

-----------------------------------------------------------------------------
(* Around the program: people, time, BullMQ and Ozon.                      *)

\* The review of the listing (ReviewService.approveListingReview).
ApproveListing ==
  /\ listing.state = "IN_REVIEW"
  /\ listing' = [listing EXCEPT !.state = "APPROVED"]
  /\ UNCHANGED <<launch, snapshot, ledger, job, issued, offer, sent, faults>>

\* ListingsService.remove has no condition on the status of the listing.
\* (The last listing that may be made stays: a bound.)
RemoveListing ==
  /\ listing.state # "none" /\ listing.v < MaxListings
  /\ listing' = [listing EXCEPT !.state = "none"]
  /\ UNCHANGED <<launch, snapshot, ledger, job, issued, offer, sent, faults>>

\* ListingSandboxService.override: the blocked snapshot is publishable again.
OverrideReport(s) ==
  /\ snapshot[s].report = "blocked"
  /\ snapshot' = [snapshot EXCEPT ![s].report = "clear", ![s].status = "APPROVED"]
  /\ UNCHANGED <<launch, listing, ledger, job, issued, offer, sent, faults>>

GrantExpires ==
  /\ launch.auth = "live"
  /\ launch' = [launch EXCEPT !.auth = "expired"]
  /\ UNCHANGED <<listing, snapshot, ledger, job, issued, offer, sent, faults>>

\* removeOnComplete, removeOnFail: a finished job leaves once 100 others followed.
EvictJob(j) ==
  /\ job[j].state \in {"completed", "failed"}
  /\ job' = [job EXCEPT ![j] = NoJob]
  /\ UNCHANGED <<launch, listing, snapshot, ledger, issued, offer, sent, faults>>

\* The lock of an active job runs out although its worker still works on it.
StallJob(j) ==
  /\ job[j].state = "active" /\ job[j].stalls < 2 /\ Suffer("stall")
  /\ job' = [job EXCEPT ![j].state = "waiting", ![j].by = NoOne, ![j].stalls = @ + 1]
  /\ UNCHANGED <<launch, listing, snapshot, ledger, issued, offer, sent>>

OfferActivated ==
  /\ offer = "pending" /\ offer' = "active"
  /\ UNCHANGED <<launch, listing, snapshot, ledger, job, issued, sent, faults>>

EnvironmentNext ==
  \/ ApproveListing \/ RemoveListing \/ GrantExpires \/ OfferActivated
  \/ \E s \in Snapshots : OverrideReport(s)
  \/ \E j \in Jobs : EvictJob(j) \/ StallJob(j)
=============================================================================
