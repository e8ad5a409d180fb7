--------------------------- MODULE ActionProposals ---------------------------
(***************************************************************************)
(* ActionProposalsService: a proposal waits for a person, is claimed by    *)
(* one decision that issues a one-time execution grant, runs, and ends.    *)
(* Every change is a compare-and-set on the status.  The proposals here    *)
(* are those of one dedupe key, numbered in the order they are made; the   *)
(* unique index (dedupeKey, activeDedupeSlot) allows one ACTIVE slot.      *)
(***************************************************************************)
EXTENDS Naturals, FiniteSets

CONSTANTS MaxProposals,  \* proposals that may be created
          MaxClaims      \* claims of one proposal (executionAttempt)

ASSUME ProposalAssumption == MaxProposals \in Nat /\ MaxClaims \in Nat

VARIABLE proposal

Proposals == 1..MaxProposals

Undecided == {"PENDING", "EXECUTING", "UNKNOWN"}
Ended     == {"EXECUTED", "FAILED", "REJECTED", "DISMISSED", "EXPIRED", "UNKNOWN"}

Proposal == [status  : {"NONE", "APPROVED", "CHANGES_REQUESTED"} \cup Undecided \cup Ended,
             slot    : BOOLEAN,               \* activeDedupeSlot = 'ACTIVE'
             attempt : 0..MaxClaims,          \* executionAttempt: the grant of the last claim
             used    : BOOLEAN,               \* executionGrantConsumedAt
             runs    : Nat]                  \* history: grants consumed

ProposalTypeOK == proposal \in [Proposals -> Proposal]

ProposalInit ==
  proposal = [p \in Proposals |-> [status |-> "NONE", slot |-> FALSE, attempt |-> 0,
                                   used |-> FALSE, runs |-> 0]]

Active == {p \in Proposals : proposal[p].slot /\ proposal[p].status \in Undecided}
Slot   == {p \in Proposals : proposal[p].slot}
Unmade == {p \in Proposals : proposal[p].status = "NONE"}

-----------------------------------------------------------------------------
\* create: the active proposal if there is one; the unique index refuses a
\* second ACTIVE slot, and then there is none to return either.
CreateProposal ==
  \/ Active # {} /\ UNCHANGED proposal
  \/ /\ Slot = {}
     /\ \E p \in Unmade :
          /\ \A q \in Unmade : p <= q
          /\ proposal' = [proposal EXCEPT ![p].status = "PENDING", ![p].slot = TRUE]

SlotTaken == Active = {} /\ Slot # {}

Move(p, from, to, slot) ==
  /\ proposal[p].status = from
  /\ proposal' = [proposal EXCEPT ![p].status = to, ![p].slot = slot]

\* claimExecution (PENDING) and claimExecutionById (an administrator may also
\* override CHANGES_REQUESTED).
Claimable(p, override) ==
  proposal[p].status = IF override THEN "CHANGES_REQUESTED" ELSE "PENDING"

Claim(p, override) ==
  /\ Claimable(p, override) /\ proposal[p].attempt < MaxClaims
  /\ proposal' = [proposal EXCEPT ![p].status = "EXECUTING", ![p].attempt = @ + 1,
                                  ![p].used = FALSE]

\* A claim that comes too late ends the proposal instead.
ExpireAtClaim(p) ==
  \/ Move(p, "PENDING", "EXPIRED", FALSE)
  \/ Move(p, "CHANGES_REQUESTED", "EXPIRED", FALSE)

\* Mutant of Consumable: the grant may be presented again.
ConsumableAgain(p, attempt) == proposal[p].attempt = attempt

\* consumeExecutionGrant.
Consumable(p, attempt) ==
  proposal[p].status = "EXECUTING" /\ proposal[p].attempt = attempt /\ ~proposal[p].used

Consume(p, attempt) ==
  /\ Consumable(p, attempt)
  /\ proposal' = [proposal EXCEPT ![p].used = TRUE, ![p].runs = @ + 1]

\* completeExecution of a publish: confirmPublish only queued it.
Complete(p) == Move(p, "EXECUTING", "APPROVED", FALSE)

\* failExecution keeps a proposal that the listing sandbox blocked.
Fail(p, sandboxBlocked) ==
  IF sandboxBlocked THEN Move(p, "EXECUTING", "CHANGES_REQUESTED", TRUE)
  ELSE Move(p, "EXECUTING", "FAILED", FALSE)

\* dismiss and recordReviewDecision.
Dismiss(p) == Move(p, "PENDING", "DISMISSED", FALSE)
Review(p)  == \/ Move(p, "PENDING", "REJECTED", FALSE)
              \/ Move(p, "PENDING", "CHANGES_REQUESTED", FALSE)

\* recoverStaleExecutions is one updateMany over the stale executions of the
\* organization: it fails as a whole when the unique index refuses a slot.
RecoverStale(stale) ==
  LET old == {p \in stale : proposal[p].status = "EXECUTING"} IN
  /\ old # {}
  /\ Cardinality(old \cup Slot) = 1
  /\ proposal' = [p \in Proposals |->
                    IF p \in old THEN [proposal[p] EXCEPT !.status = "UNKNOWN", !.slot = TRUE]
                    ELSE proposal[p]]

\* reconcileApprovedProductLaunchOutcome: an APPROVED proposal of the launch,
\* whichever is found first, and nothing when there is none.
Approved == {p \in Proposals : proposal[p].status = "APPROVED"}

ReconcileOutcome(status) ==
  IF Approved = {} THEN UNCHANGED proposal
  ELSE \E p \in Approved : Move(p, "APPROVED", status, proposal[p].slot)
=============================================================================
