------------------------ MODULE ProductLaunchRecovery ------------------------
(***************************************************************************)
(* ProductLaunchRecoveryService: a periodic scan that reads back from Ozon *)
(* what became of a submission, and never sends one.  One scan at a time   *)
(* (activeScan), in one process.                                           *)
(***************************************************************************)
EXTENDS ExternalSubmissions, ActionProposals

VARIABLE scan

IdleScan == [pc |-> "idle", s |-> 0, o |-> "none", seen |-> "NONE"]

Scan == [pc   : {"idle", "claim", "readback", "lookup", "reconcile", "proposal", "finish"},
         s    : Snapshots \cup {0},
         o    : {"none", "ACTIVE_ON_OZON", "SUBMITTED_TO_OZON"},
         seen : SubmissionStatus]

RecoveryTypeOK == scan \in Scan
RecoveryInit == scan = IdleScan

Untouched == <<listing, job, issued, offer, sent>>

Step(pc) == scan' = [scan EXCEPT !.pc = pc]

\* Every way out of the loop body is a touchRecoveringLaunch, which changes no
\* status: the launch is scanned again when it has been RECOVERING for a while.
Touch == scan' = IdleScan

\* Only a submission (of the launch, of whichever snapshot) that Ozon may know
\* makes a launch recoverable; an UNKNOWN or REQUEST_SENT one does not.
Recoverable ==
  \E s \in Snapshots : ledger[s].status \in {"ACKNOWLEDGED", "RECONCILING", "SUCCEEDED"}

ScanLaunch ==
  /\ scan = IdleScan
  /\ launch.status = "RECOVERING" /\ launch.snap # 0 /\ Recoverable
  /\ scan' = [IdleScan EXCEPT !.pc = "claim", !.s = launch.snap]
  /\ UNCHANGED <<launch, ledger, snapshot, faults, proposal, Untouched>>

ClaimScan ==
  /\ scan.pc = "claim"
  /\ IF launch.status = "RECOVERING" THEN Step("readback") ELSE Touch
  /\ UNCHANGED <<launch, ledger, snapshot, faults, proposal, Untouched>>

\* preflightSnapshot loads the snapshot by its APPROVED status, as publishing does.
ReadBack ==
  LET o == [absent |-> "none", pending |-> "SUBMITTED_TO_OZON", active |-> "ACTIVE_ON_OZON"]
  IN
  /\ scan.pc = "readback"
  /\ IF Preparable(scan.s) /\ offer # "absent"
       THEN scan' = [scan EXCEPT !.pc = "lookup", !.o = o[offer]]
       ELSE Touch
  /\ UNCHANGED <<launch, ledger, snapshot, faults, proposal, Untouched>>

ScanLookUp ==
  /\ scan.pc = "lookup"
  /\ scan' = [scan EXCEPT !.pc = "reconcile", !.seen = ledger[scan.s].status]
  /\ UNCHANGED <<launch, ledger, snapshot, faults, proposal, Untouched>>

ScanReconcile ==
  /\ scan.pc = "reconcile"
  /\ \/ /\ RecordReconciled(scan.s, scan.o, scan.seen)
        /\ Step(IF scan.o = "ACTIVE_ON_OZON" THEN "proposal" ELSE "finish")
     \/ ~ReconciliationAllowed(scan.s, scan.o, scan.seen) /\ Touch /\ UNCHANGED ledger
  /\ UNCHANGED <<launch, snapshot, faults, proposal, Untouched>>

ScanProposal ==
  /\ scan.pc = "proposal" /\ ReconcileOutcome("EXECUTED") /\ Step("finish")
  /\ UNCHANGED <<launch, ledger, snapshot, faults, Untouched>>

\* One transaction: the launch if it still recovers, and the snapshot.
FinishRecovery ==
  LET active == scan.o = "ACTIVE_ON_OZON" IN
  /\ scan.pc = "finish" /\ Touch
  /\ IF launch.status = "RECOVERING"
       THEN /\ launch' = [launch EXCEPT !.status = IF active THEN "ACTIVE_ON_OZON"
                                                   ELSE "RECOVERING"]
            /\ snapshot' = [snapshot EXCEPT ![scan.s].status = IF active THEN "ACTIVE"
                                                               ELSE "SUBMITTED"]
       ELSE UNCHANGED <<launch, snapshot>>
  /\ UNCHANGED <<ledger, faults, proposal, Untouched>>

\* A query fails, or the process dies: the launch waits for the next scan.
ScanFails ==
  /\ scan # IdleScan /\ (Suffer("database") \/ Suffer("crash")) /\ Touch
  /\ UNCHANGED <<launch, ledger, snapshot, proposal, Untouched>>

RecoveryStep == \/ ScanLaunch \/ ClaimScan \/ ReadBack \/ ScanLookUp \/ ScanReconcile
                \/ ScanProposal \/ FinishRecovery

RecoveryNext == RecoveryStep \/ ScanFails
=============================================================================
