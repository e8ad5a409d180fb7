------------------------- MODULE DeadLettersProofs -------------------------
(***************************************************************************)
(* Proofs about DeadLetters, for any number of records, requests,          *)
(* operators, keys, deliveries, approvals and faults.                      *)
(***************************************************************************)
EXTENDS DeadLetters, TLAPS

USE DeadLetterAssumption

-----------------------------------------------------------------------------
(* Type correctness.                                                       *)

FailureOK == failure \in [queue : Queues, why : Class, target : Target]
RecordOK  == record \in [Records -> Record]
CountsOK  == job \in 0..Deliveries /\ claims \in Nat /\ faults \in 0..MaxFaults
             /\ approvals \in Nat
MadeOK    == made \in Seq(Run)

\* A replay has brought a key.
RqOK == /\ rq \in [Requests -> Request]
        /\ \A x \in Requests : rq[x].pc \in {"claim", "replay"} => rq[x].key \in Keys

TypeInv == FailureOK /\ RecordOK /\ CountsOK /\ MadeOK /\ RqOK

LEMMA TypeInvTypeOK == TypeInv => TypeOK
BY DEF TypeInv, FailureOK, RecordOK, CountsOK, MadeOK, RqOK, TypeOK

LEMMA IdleOK == Idle \in Request
BY DEF Idle, Request, Class

LEMMA InitTypeInv == Init => TypeInv
<1> SUFFICES ASSUME Init PROVE TypeInv
  OBVIOUS
<1>1. FailureOK /\ CountsOK /\ MadeOK
  BY DEF Init, FailureOK, CountsOK, MadeOK, Target
<1>2. RecordOK
  BY DEF Init, RecordOK, Record, Status, Class
<1>3. RqOK
  BY IdleOK DEF Init, RqOK, Idle
<1> QED
  BY <1>1, <1>2, <1>3 DEF TypeInv

LEMMA SetRequest ==
  ASSUME RqOK, NEW x \in Requests, NEW v \in Request,
         v.pc \in {"claim", "replay"} => v.key \in Keys, rq' = [rq EXCEPT ![x] = v]
  PROVE  RqOK'
BY DEF RqOK

Places == {"idle", "release", "read", "inspect", "triage", "classify", "finalize", "reopen",
           "resolve"}

LEMMA GotoOK ==
  ASSUME RqOK, NEW x \in Requests, NEW pc \in Places, Goto(x, pc) PROVE RqOK'
<1>0. rq[x] \in Request
  BY DEF RqOK
<1>1. [rq[x] EXCEPT !.pc = pc] \in Request
  BY <1>0 DEF Request, Places
<1> QED
  BY <1>1, SetRequest DEF Goto, Places, RqOK, Request

LEMMA FinishOK == ASSUME RqOK, NEW x \in Requests, Finish(x) PROVE RqOK'
BY IdleOK, SetRequest DEF Finish, Idle

LEMMA ClassifiedOK ==
  ASSUME RecordOK, CountsOK, NEW r \in Records, NEW status \in Status, NEW class \in Class,
         NEW eligible \in BOOLEAN, Classified(r, status, class, eligible)
  PROVE  RecordOK' /\ approvals' \in Nat
<1> DEFINE n == IF eligible THEN approvals + 1 ELSE record[r].approval
           v == [record[r] EXCEPT !.status = status, !.class = class, !.eligible = eligible,
                                  !.approval = n]
<1>1. n \in Nat /\ approvals' \in Nat
  BY DEF RecordOK, CountsOK, Record, Classified
<1>2. v \in Record
  BY <1>1 DEF RecordOK, Record
<1>3. record' = [record EXCEPT ![r] = v]
  BY DEF Classified, RecordOK
<1> QED
  BY <1>1, <1>2, <1>3 DEF RecordOK

LEMMA ReopenedOK ==
  ASSUME RecordOK, NEW r \in Records PROVE Reopened(r) \in Record
BY DEF RecordOK, Record, Reopened, Status

LEMMA TriagedOK ==
  ASSUME FailureOK, NEW t \in Target PROVE Triaged(t) \in Class
BY DEF FailureOK, Triaged, Class

LEMMA RecordFailureTypes ==
  ASSUME TypeInv, NEW r \in Records, RecordFailure(r) PROVE TypeInv'
<1> USE DEF TypeInv, RecordFailure
<1>1. RecordOK' /\ approvals' \in Nat
  <2>1. failure.why \in Class /\ "OPEN" \in Status
    BY DEF FailureOK, Status
  <2> QED
    BY <2>1, ClassifiedOK
<1>2. CountsOK'
  BY <1>1 DEF CountsOK, Suffer
<1>3. FailureOK' /\ MadeOK' /\ RqOK'
  BY DEF FailureOK, MadeOK, RqOK
<1> QED
  BY <1>1, <1>2, <1>3

LEMMA RecordingFailsTypes == ASSUME TypeInv, RecordingFails PROVE TypeInv'
BY DEF TypeInv, RecordingFails, FailureOK, RecordOK, CountsOK, MadeOK, RqOK, Suffer

LEMMA TargetChangesTypes == ASSUME TypeInv, TargetChanges PROVE TypeInv'
<1>1. FailureOK'
  BY DEF TypeInv, TargetChanges, FailureOK, Target
<1> QED
  BY <1>1 DEF TypeInv, TargetChanges, RecordOK, CountsOK, MadeOK, RqOK

LEMMA ArrivalTypes ==
  ASSUME TypeInv, NEW x \in Requests, RequestArrives(x) PROVE TypeInv'
<1> USE DEF TypeInv
<1>1. ASSUME NEW user \in Users, StartTriage(x, user) PROVE TypeInv'
  <2>1. PICK stale \in SUBSET {r \in Records : record[r].status = "REPLAYING"} :
          rq' = [rq EXCEPT ![x] = [Idle EXCEPT !.pc = "release", !.user = user, !.items = stale,
                   !.stale = [r \in Records |-> IF r \in stale THEN record[r].claim ELSE 0]]]
    BY <1>1 DEF StartTriage
  <2> DEFINE f == [r \in Records |-> IF r \in stale THEN record[r].claim ELSE 0]
             v == [Idle EXCEPT !.pc = "release", !.user = user, !.items = stale, !.stale = f]
  <2>2. f \in [Records -> Nat]
    BY DEF RecordOK, Record
  <2>3. v \in Request /\ v.pc = "release"
    BY <2>2, IdleOK DEF Request, Idle
  <2>4. RqOK'
    BY <2>1, <2>3, SetRequest
  <2> QED
    BY <1>1, <2>4 DEF StartTriage, FailureOK, RecordOK, CountsOK, MadeOK
<1>2. ASSUME NEW user \in Users, NEW r \in Records, StartClassify(x, user, r) PROVE TypeInv'
  <2> DEFINE v == [Idle EXCEPT !.pc = "classify", !.user = user, !.items = {r}]
  <2>1. v \in Request /\ v.pc = "classify"
    BY IdleOK DEF Request, Idle
  <2>2. RqOK'
    BY <1>2, <2>1, SetRequest DEF StartClassify
  <2> QED
    BY <1>2, <2>2 DEF StartClassify, FailureOK, RecordOK, CountsOK, MadeOK
<1>3. ASSUME NEW user \in Users, NEW r \in Records, StartResolve(x, user, r) PROVE TypeInv'
  <2> DEFINE v == [Idle EXCEPT !.pc = "resolve", !.user = user, !.items = {r}]
  <2>1. v \in Request /\ v.pc = "resolve"
    BY IdleOK DEF Request, Idle
  <2>2. RqOK'
    BY <1>3, <2>1, SetRequest DEF StartResolve
  <2> QED
    BY <1>3, <2>2 DEF StartResolve, FailureOK, RecordOK, CountsOK, MadeOK
<1>4. ASSUME NEW user \in Users, NEW r \in Records, NEW key \in Keys,
             StartReplay(x, user, r, key)
      PROVE TypeInv'
  <2> DEFINE v == [Idle EXCEPT !.pc = "claim", !.user = user, !.items = {r}, !.key = key]
  <2>1. v \in Request /\ v.key = key
    BY IdleOK DEF Request, Idle
  <2>2. RqOK'
    BY <1>4, <2>1, SetRequest DEF StartReplay
  <2> QED
    BY <1>4, <2>2 DEF StartReplay, FailureOK, RecordOK, CountsOK, MadeOK
<1> QED
  BY <1>1, <1>2, <1>3, <1>4 DEF RequestArrives

LEMMA TriageTypes ==
  ASSUME TypeInv, NEW x \in Requests
  PROVE  /\ ReadUnclassified(x) \/ InspectTarget(x) => TypeInv'
         /\ \A r \in Records : ReleaseClaim(x, r) \/ WriteTriage(x, r) => TypeInv'
<1> USE DEF TypeInv
<1>1. ASSUME ReadUnclassified(x) PROVE TypeInv'
  <2> DEFINE open == {r \in Records : record[r].status = "OPEN"
                                      /\ record[r].class = "UNCLASSIFIED"}
             v == [rq[x] EXCEPT !.pc = "inspect", !.items = open]
  <2>1. v \in Request /\ v.pc = "inspect"
    BY DEF RqOK, Request
  <2>2. rq' = [rq EXCEPT ![x] = v]
    BY <1>1 DEF ReadUnclassified, RqOK
  <2>3. RqOK'
    BY <2>1, <2>2, SetRequest
  <2> QED
    BY <1>1, <2>3 DEF ReadUnclassified, FailureOK, RecordOK, CountsOK, MadeOK
<1>2. ASSUME InspectTarget(x) PROVE TypeInv'
  <2> DEFINE v == [rq[x] EXCEPT !.pc = "triage", !.class = Triaged(failure.target)]
  <2>1. v \in Request /\ v.pc = "triage"
    <3>1. rq[x] \in Request /\ Triaged(failure.target) \in Class
      BY TriagedOK DEF FailureOK, RqOK
    <3> QED
      BY <3>1 DEF Request
  <2>2. Finish(x) \/ rq' = [rq EXCEPT ![x] = v]
    BY <1>2 DEF InspectTarget, RqOK
  <2>3. RqOK'
    BY <2>1, <2>2, SetRequest, FinishOK
  <2> QED
    BY <1>2, <2>3 DEF InspectTarget, FailureOK, RecordOK, CountsOK, MadeOK
<1>3. ASSUME NEW r \in Records, ReleaseClaim(x, r) PROVE TypeInv'
  <2> DEFINE v == [rq[x] EXCEPT !.items = @ \ {r}, !.stale[r] = 0]
  <2>1. v \in Request /\ v.pc = "release"
    <3>1. rq[x] \in Request /\ rq[x].pc = "release"
      BY <1>3 DEF ReleaseClaim, RqOK
    <3> QED
      BY <3>1 DEF Request
  <2>2. rq' = [rq EXCEPT ![x] = v]
    BY <1>3 DEF ReleaseClaim, RqOK
  <2>3. RqOK'
    BY <2>1, <2>2, SetRequest
  <2>4. RecordOK'
    BY <1>3, ReopenedOK DEF ReleaseClaim, RecordOK
  <2> QED
    BY <1>3, <2>3, <2>4 DEF ReleaseClaim, FailureOK, CountsOK, MadeOK
<1>4. ASSUME NEW r \in Records, WriteTriage(x, r) PROVE TypeInv'
  <2> DEFINE v == [rq[x] EXCEPT !.pc = "inspect", !.items = @ \ {r}]
  <2>1. v \in Request /\ v.pc = "inspect"
    BY DEF RqOK, Request
  <2>2. rq' = [rq EXCEPT ![x] = v]
    BY <1>4 DEF WriteTriage, RqOK
  <2>3. RqOK'
    BY <2>1, <2>2, SetRequest
  <2>4. record[r].status \in Status /\ rq[x].class \in Class
    BY DEF RecordOK, Record, RqOK, Request
  <2>5. RecordOK' /\ approvals' \in Nat
    BY <1>4, <2>4, ClassifiedOK DEF WriteTriage
  <2> QED
    BY <1>4, <2>3, <2>5 DEF WriteTriage, FailureOK, CountsOK, MadeOK
<1> QED
  BY <1>1, <1>2, <1>3, <1>4

LEMMA DecisionTypes ==
  ASSUME TypeInv, NEW x \in Requests, NEW r \in Records
  PROVE  /\ WriteResolution(x, r) => TypeInv'
         /\ \A class \in Class, eligible \in BOOLEAN :
              WriteClass(x, r, class, eligible) => TypeInv'
<1> USE DEF TypeInv
<1>1. ASSUME WriteResolution(x, r) PROVE TypeInv'
  <2> DEFINE c == [record[r] EXCEPT !.status = "RESOLVED", !.eligible = FALSE]
  <2>3. c \in Record
    BY DEF RecordOK, Record, Status
  <2>4. record' = [record EXCEPT ![r] = c]
    BY <1>1 DEF WriteResolution, RecordOK
  <2>1. RecordOK'
    BY <2>3, <2>4 DEF RecordOK
  <2>2. RqOK'
    BY <1>1, FinishOK DEF WriteResolution
  <2> QED
    BY <1>1, <2>1, <2>2 DEF WriteResolution, FailureOK, CountsOK, MadeOK
<1>2. ASSUME NEW class \in Class, NEW eligible \in BOOLEAN, WriteClass(x, r, class, eligible)
      PROVE  TypeInv'
  <2>1. record[r].status \in Status
    BY DEF RecordOK, Record
  <2>2. RecordOK' /\ approvals' \in Nat
    BY <1>2, <2>1, ClassifiedOK DEF WriteClass
  <2>3. RqOK'
    BY <1>2, FinishOK DEF WriteClass
  <2> QED
    BY <1>2, <2>2, <2>3 DEF WriteClass, FailureOK, CountsOK, MadeOK
<1> QED
  BY <1>1, <1>2

LEMMA ReplayTypes ==
  ASSUME TypeInv, NEW x \in Requests, NEW r \in Records
  PROVE  ClaimReplay(x, r) \/ Recover(x, r) \/ Finalize(x, r) \/ Reopen(x, r) => TypeInv'
<1> USE DEF TypeInv
<1>1. ASSUME ClaimReplay(x, r) PROVE TypeInv'
  <2>1. CASE Claimable(x, r)
    <3> DEFINE v == [rq[x] EXCEPT !.pc = "replay", !.approval = record[r].approval]
               c == [record[r] EXCEPT !.status = "REPLAYING", !.eligible = FALSE,
                                      !.claim = claims + 1, !.by = rq[x].user]
    <3>1. v \in Request /\ v.key \in Keys
      <4>1. rq[x] \in Request /\ rq[x].key \in Keys
        BY <1>1 DEF ClaimReplay, RqOK
      <4>2. record[r].approval \in Nat
        BY DEF RecordOK, Record
      <4> QED
        BY <4>1, <4>2 DEF Request
    <3>2. rq' = [rq EXCEPT ![x] = v]
      BY <1>1, <2>1 DEF ClaimReplay, RqOK
    <3>3. RqOK'
      BY <3>1, <3>2, SetRequest
    <3>7. claims + 1 \in Nat /\ rq[x].user \in Users \cup {NoUser}
      BY DEF CountsOK, RqOK, Request
    <3>4. c \in Record
      BY <3>7 DEF RecordOK, Record, Status
    <3>5. record' = [record EXCEPT ![r] = c]
      BY <1>1, <2>1 DEF ClaimReplay, RecordOK
    <3>6. RecordOK'
      BY <3>4, <3>5 DEF RecordOK
    <3> QED
      BY <1>1, <2>1, <3>3, <3>6 DEF ClaimReplay, FailureOK, CountsOK, MadeOK
  <2>2. CASE ~Claimable(x, r)
    BY <1>1, <2>2, FinishOK DEF ClaimReplay, FailureOK, RecordOK, CountsOK, MadeOK
  <2> QED
    BY <2>1, <2>2
<1>2. ASSUME Recover(x, r) PROVE TypeInv'
  <2> DEFINE e == [record |-> r, key |-> rq[x].key, approval |-> rq[x].approval]
             v(i) == [rq[x] EXCEPT !.pc = "finalize", !.run = i]
  <2>1. e \in Run
    <3>1. rq[x].key \in Keys /\ rq[x].approval \in Nat
      BY <1>2 DEF Recover, RqOK, Request
    <3> QED
      BY <3>1 DEF Run
  <2>2. ASSUME NEW i \in Nat PROVE v(i) \in Request /\ v(i).pc = "finalize"
    <3>1. rq[x] \in Request
      BY DEF RqOK
    <3> QED
      BY <3>1 DEF Request
  <2>3. Len(made) \in Nat /\ RqOK /\ rq \in [Requests -> Request]
    BY DEF MadeOK, RqOK
  <2>4. Goto(x, "reopen") \/ \E i \in Nat : rq' = [rq EXCEPT ![x] = v(i)]
    <3> DEFINE known == {i \in 1..Len(made) : SameRequest(made[i], r, rq[x].key)}
    <3>1. CASE \E i \in known : rq' = [rq EXCEPT ![x].pc = "finalize", ![x].run = i]
      <4>1. PICK i \in known : rq' = [rq EXCEPT ![x].pc = "finalize", ![x].run = i]
        BY <3>1
      <4>2. i \in Nat
        BY <2>3
      <4>3. rq' = [rq EXCEPT ![x] = v(i)]
        BY <2>3, <4>1
      <4> HIDE DEF v
      <4> QED
        BY <4>2, <4>3
    <3>2. CASE rq' = [rq EXCEPT ![x].pc = "finalize", ![x].run = Len(made) + 1]
      <4>1. rq' = [rq EXCEPT ![x] = v(Len(made) + 1)]
        BY <2>3, <3>2
      <4>2. Len(made) + 1 \in Nat
        BY <2>3
      <4> HIDE DEF v
      <4> QED
        BY <4>1, <4>2
    <3> QED
      BY <1>2, <3>1, <3>2 DEF Recover
  <2>5. RqOK'
    BY <2>2, <2>4, SetRequest, GotoOK DEF Places
  <2>6. UNCHANGED made \/ made' = Append(made, e)
    BY <1>2 DEF Recover
  <2>7. MadeOK'
    BY <2>1, <2>6 DEF MadeOK
  <2> QED
    BY <1>2, <2>5, <2>7 DEF Recover, FailureOK, RecordOK, CountsOK
<1>3. ASSUME Finalize(x, r) PROVE TypeInv'
  <2>1. RqOK'
    BY <1>3, FinishOK, GotoOK DEF Finalize, Places
  <2>2. RecordOK'
    <3> DEFINE c == [record[r] EXCEPT !.status = "REPLAYED", !.run = rq[x].run,
                                      !.eligible = FALSE, !.claim = 0, !.by = NoUser]
    <3>3. rq[x].run \in Nat
      BY DEF RqOK, Request
    <3>1. c \in Record
      BY <3>3 DEF RecordOK, Record, Status
    <3>2. UNCHANGED record \/ record' = [record EXCEPT ![r] = c]
      BY <1>3 DEF Finalize, RecordOK
    <3> QED
      BY <3>1, <3>2 DEF RecordOK
  <2> QED
    BY <1>3, <2>1, <2>2 DEF Finalize, FailureOK, CountsOK, MadeOK
<1>4. ASSUME Reopen(x, r) PROVE TypeInv'
  <2>1. RecordOK'
    BY <1>4, ReopenedOK DEF Reopen, RecordOK
  <2> QED
    BY <1>4, <2>1, FinishOK DEF Reopen, FailureOK, CountsOK, MadeOK
<1> QED
  BY <1>1, <1>2, <1>3, <1>4

LEMMA EndingTypes ==
  ASSUME TypeInv, NEW x \in Requests, ReplayThrows(x) \/ RequestEnds(x) PROVE TypeInv'
<1>1. RqOK'
  BY GotoOK, FinishOK DEF TypeInv, ReplayThrows, RequestEnds, Places
<1> QED
  BY <1>1 DEF TypeInv, ReplayThrows, RequestEnds, FailureOK, RecordOK, CountsOK, MadeOK, Suffer

LEMMA NextTypeInv == TypeInv /\ [Next]_vars => TypeInv'
<1> SUFFICES ASSUME TypeInv, [Next]_vars PROVE TypeInv'
  OBVIOUS
<1>1. ASSUME NEW x \in Requests, RequestStep(x) PROVE TypeInv'
  BY <1>1, TriageTypes, DecisionTypes, ReplayTypes, EndingTypes DEF RequestStep
<1>2. CASE UNCHANGED vars
  BY <1>2 DEF vars, TypeInv, FailureOK, RecordOK, CountsOK, MadeOK, RqOK
<1> QED
  BY <1>1, <1>2, RecordFailureTypes, RecordingFailsTypes, TargetChangesTypes, ArrivalTypes
  DEF Next

LEMMA TypeInvInvariant == Spec => []TypeInv
BY InitTypeInv, NextTypeInv, PTL DEF Spec

\* Records, requests and the runs that were created keep their types, for any
\* number of records, requests and operators.
THEOREM DeadLetterTypes == Spec => []TypeOK
BY TypeInvInvariant, TypeInvTypeOK, PTL
-----------------------------------------------------------------------------
(* The kinds of steps: what a step does to the approvals, to the runs that *)
(* were created and to the outcome of a record.                            *)

StatusCalm(r) ==
  /\ record'[r].status = "REPLAYED" =>
       record[r].status = "REPLAYED" /\ record'[r].run = record[r].run
  /\ record[r].status \in Closed => record'[r].status \in Closed

GrantCalm(r) ==
  record'[r].approval = record[r].approval /\ (record'[r].eligible => record[r].eligible)

\* A request starts no replay, and one that begins to replay has one record.
RequestCalm(y) ==
  /\ rq'[y].pc \in {"replay", "finalize"} => rq'[y] = rq[y]
  /\ rq'[y].pc = "claim" => rq'[y] = rq[y] \/ \A r, s \in rq'[y].items : r = s

SameQueue == failure'.queue = failure.queue

CalmStep ==
  /\ SameQueue /\ made' = made /\ approvals' = approvals
  /\ \A r \in Records : StatusCalm(r) /\ GrantCalm(r)
  /\ \A y \in Requests : RequestCalm(y)

GrantStep(r) ==
  /\ SameQueue /\ made' = made /\ approvals' = approvals + 1
  /\ record'[r].approval = approvals + 1
  /\ \A s \in Records : StatusCalm(s) /\ (s # r => GrantCalm(s))
  /\ \A y \in Requests : RequestCalm(y)

ClaimStep(x, r) ==
  /\ SameQueue /\ made' = made /\ approvals' = approvals
  /\ \A s \in Records : StatusCalm(s) /\ GrantCalm(s)
  /\ record[r].eligible /\ record'[r].eligible = FALSE
  /\ rq[x].pc = "claim" /\ rq'[x].pc = "replay"
  /\ rq'[x].items = rq[x].items /\ rq'[x].approval = record[r].approval
  /\ \A y \in Requests \ {x} : RequestCalm(y)

RecoverStep(x, r) ==
  /\ SameQueue /\ record' = record /\ approvals' = approvals
  /\ rq[x].pc = "replay" /\ r \in rq[x].items
  /\ rq'[x].pc = "finalize" /\ rq'[x].items = rq[x].items
  /\ \A y \in Requests \ {x} : RequestCalm(y)
  /\ \/ /\ made' = made /\ rq'[x].run \in 1..Len(made)
        /\ failure.queue = "agent-runs" => made[rq'[x].run].record = r
     \/ \E e \in Run : /\ made' = Append(made, e) /\ rq'[x].run = Len(made) + 1
                       /\ e.record = r /\ e.approval = rq[x].approval

FinalizeStep(x, r) ==
  /\ SameQueue /\ made' = made /\ approvals' = approvals
  /\ \A s \in Records : GrantCalm(s) /\ (s # r => StatusCalm(s))
  /\ rq[x].pc = "finalize" /\ r \in rq[x].items
  /\ record'[r].status = "REPLAYED" /\ record'[r].run = rq[x].run
  /\ \A y \in Requests : RequestCalm(y)

Kind == \/ CalmStep \/ \E r \in Records : GrantStep(r)
        \/ \E x \in Requests, r \in Records :
             ClaimStep(x, r) \/ RecoverStep(x, r) \/ FinalizeStep(x, r)

LEMMA SetCalm ==
  ASSUME RqOK, NEW x \in Requests, NEW v, rq' = [rq EXCEPT ![x] = v],
         v.pc \notin {"claim", "replay", "finalize"}
  PROVE  \A y \in Requests : RequestCalm(y)
BY DEF RqOK, RequestCalm

LEMMA GotoCalm ==
  ASSUME RqOK, NEW x \in Requests, NEW pc, Goto(x, pc),
         pc \notin {"claim", "replay", "finalize"}
  PROVE  \A y \in Requests : RequestCalm(y)
BY DEF Goto, RqOK, Request, RequestCalm

LEMMA FinishCalm ==
  ASSUME RqOK, NEW x \in Requests, Finish(x) PROVE \A y \in Requests : RequestCalm(y)
BY SetCalm DEF Finish, Idle

LEMMA SameRecordCalm ==
  ASSUME record' = record PROVE \A r \in Records : StatusCalm(r) /\ GrantCalm(r)
BY DEF StatusCalm, GrantCalm

LEMMA SameRqCalm == ASSUME rq' = rq PROVE \A y \in Requests : RequestCalm(y)
BY DEF RequestCalm

\* A record that is opened again was being replayed.
LEMMA ReopenedCalm ==
  ASSUME RecordOK, NEW r \in Records, record[r].status = "REPLAYING",
         record' = [record EXCEPT ![r] = Reopened(r)]
  PROVE  \A s \in Records : StatusCalm(s) /\ GrantCalm(s)
BY DEF RecordOK, Record, Reopened, StatusCalm, GrantCalm, Closed

LEMMA ClassifiedKind ==
  ASSUME TypeInv, NEW r \in Records, NEW status, NEW class, NEW eligible \in BOOLEAN,
         Classified(r, status, class, eligible),
         status = record[r].status \/ (status = "OPEN" /\ record[r].status = "none"),
         SameQueue, made' = made, \A y \in Requests : RequestCalm(y)
  PROVE  Kind
<1>1. \A s \in Records : StatusCalm(s)
  BY DEF TypeInv, RecordOK, Record, Classified, StatusCalm, Closed
<1>2. CASE eligible
  <2>1. GrantStep(r)
    BY <1>1, <1>2 DEF TypeInv, RecordOK, Record, Classified, GrantStep, GrantCalm
  <2> QED
    BY <2>1 DEF Kind
<1>3. CASE ~eligible
  <2>1. CalmStep
    BY <1>1, <1>3 DEF TypeInv, RecordOK, Record, Classified, CalmStep, GrantCalm
  <2> QED
    BY <2>1 DEF Kind
<1> QED
  BY <1>2, <1>3

LEMMA QueueKinds ==
  ASSUME TypeInv
  PROVE  /\ RecordingFails \/ TargetChanges => Kind
         /\ \A r \in Records : RecordFailure(r) => Kind
<1> USE DEF TypeInv
<1>1. ASSUME RecordingFails \/ TargetChanges PROVE Kind
  <2>1. CalmStep
    BY <1>1, SameRecordCalm, SameRqCalm
    DEF RecordingFails, TargetChanges, CalmStep, SameQueue, FailureOK
  <2> QED
    BY <2>1 DEF Kind
<1>2. ASSUME NEW r \in Records, RecordFailure(r) PROVE Kind
  <2>1. SameQueue /\ made' = made /\ \A y \in Requests : RequestCalm(y)
    BY <1>2, SameRqCalm DEF RecordFailure, SameQueue
  <2> QED
    BY <1>2, <2>1, ClassifiedKind DEF RecordFailure
<1> QED
  BY <1>1, <1>2

LEMMA ArrivalKind ==
  ASSUME TypeInv, NEW x \in Requests, RequestArrives(x) PROVE Kind
<1> USE DEF TypeInv, RequestArrives, StartTriage, StartClassify, StartResolve, StartReplay
<1>1. record' = record /\ SameQueue /\ made' = made /\ approvals' = approvals
  BY DEF SameQueue
<1>2. \A y \in Requests : RequestCalm(y)
  <2>1. ASSUME NEW user \in Users, StartTriage(x, user)
        PROVE  \A y \in Requests : RequestCalm(y)
    <3>1. PICK items, stale :
            rq' = [rq EXCEPT ![x] = [Idle EXCEPT !.pc = "release", !.user = user,
                                                 !.items = items, !.stale = stale]]
      BY <2>1
    <3> DEFINE v == [Idle EXCEPT !.pc = "release", !.user = user, !.items = items,
                                 !.stale = stale]
    <3>2. v.pc = "release"
      BY DEF Idle
    <3> QED
      BY <3>1, <3>2, SetCalm
  <2>2. ASSUME NEW user \in Users, NEW r \in Records,
               StartClassify(x, user, r) \/ StartResolve(x, user, r)
        PROVE  \A y \in Requests : RequestCalm(y)
    <3> DEFINE v(pc) == [Idle EXCEPT !.pc = pc, !.user = user, !.items = {r}]
    <3>1. v("classify").pc = "classify" /\ v("resolve").pc = "resolve"
      BY DEF Idle
    <3>2. rq' = [rq EXCEPT ![x] = v("classify")] \/ rq' = [rq EXCEPT ![x] = v("resolve")]
      BY <2>2
    <3> HIDE DEF v
    <3> QED
      BY <3>1, <3>2, SetCalm
  <2>3. ASSUME NEW user \in Users, NEW r \in Records, NEW key \in Keys,
               StartReplay(x, user, r, key)
        PROVE  \A y \in Requests : RequestCalm(y)
    BY <2>3 DEF Idle, RqOK, RequestCalm
  <2> QED
    BY <2>1, <2>2, <2>3
<1> QED
  BY <1>1, <1>2, SameRecordCalm DEF CalmStep, Kind

LEMMA TriageKind ==
  ASSUME TypeInv, NEW x \in Requests
  PROVE  /\ ReadUnclassified(x) \/ InspectTarget(x) => Kind
         /\ \A r \in Records : ReleaseClaim(x, r) \/ WriteTriage(x, r) => Kind
<1> USE DEF TypeInv
<1>1. ASSUME ReadUnclassified(x) \/ InspectTarget(x) PROVE Kind
  <2>1. \A y \in Requests : RequestCalm(y)
    BY <1>1, FinishCalm DEF ReadUnclassified, InspectTarget, RqOK, Request, RequestCalm
  <2> QED
    BY <1>1, <2>1, SameRecordCalm
    DEF ReadUnclassified, InspectTarget, CalmStep, Kind, SameQueue
<1>2. ASSUME NEW r \in Records, ReleaseClaim(x, r) PROVE Kind
  <2>1. \A y \in Requests : RequestCalm(y)
    BY <1>2 DEF ReleaseClaim, RqOK, Request, RequestCalm
  <2>2. \A s \in Records : StatusCalm(s) /\ GrantCalm(s)
    BY <1>2, SameRecordCalm, ReopenedCalm DEF ReleaseClaim
  <2> QED
    BY <1>2, <2>1, <2>2 DEF ReleaseClaim, CalmStep, Kind, SameQueue
<1>3. ASSUME NEW r \in Records, WriteTriage(x, r) PROVE Kind
  <2>1. \A y \in Requests : RequestCalm(y)
    BY <1>3 DEF WriteTriage, RqOK, Request, RequestCalm
  <2>2. SameQueue /\ made' = made
    BY <1>3 DEF WriteTriage, SameQueue
  <2> QED
    BY <1>3, <2>1, <2>2, ClassifiedKind DEF WriteTriage
<1> QED
  BY <1>1, <1>2, <1>3

LEMMA DecisionKind ==
  ASSUME TypeInv, NEW x \in Requests, NEW r \in Records
  PROVE  /\ WriteResolution(x, r) => Kind
         /\ \A class \in Class, eligible \in BOOLEAN :
              WriteClass(x, r, class, eligible) => Kind
<1> USE DEF TypeInv
<1>1. ASSUME WriteResolution(x, r) PROVE Kind
  <2>1. \A s \in Records : StatusCalm(s) /\ GrantCalm(s)
    BY <1>1 DEF WriteResolution, RecordOK, Record, StatusCalm, GrantCalm, Closed
  <2> QED
    BY <1>1, <2>1, FinishCalm DEF WriteResolution, CalmStep, Kind, SameQueue
<1>2. ASSUME NEW class \in Class, NEW eligible \in BOOLEAN, WriteClass(x, r, class, eligible)
      PROVE  Kind
  <2>1. SameQueue /\ made' = made /\ \A y \in Requests : RequestCalm(y)
    BY <1>2, FinishCalm DEF WriteClass, SameQueue
  <2> QED
    BY <1>2, <2>1, ClassifiedKind DEF WriteClass
<1> QED
  BY <1>1, <1>2

LEMMA ClaimKind ==
  ASSUME TypeInv, NEW x \in Requests, NEW r \in Records, ClaimReplay(x, r) PROVE Kind
<1> USE DEF TypeInv, ClaimReplay
<1>1. SameQueue /\ made' = made /\ approvals' = approvals
  BY DEF SameQueue
<1>2. CASE ~Claimable(x, r)
  BY <1>1, <1>2, SameRecordCalm, FinishCalm DEF CalmStep, Kind
<1>3. CASE Claimable(x, r)
  <2>1. \A s \in Records : StatusCalm(s) /\ GrantCalm(s)
    BY <1>3 DEF RecordOK, Record, StatusCalm, GrantCalm, Closed, Claimable, Replayable
  <2>2. record[r].eligible /\ record'[r].eligible = FALSE
    BY <1>3 DEF RecordOK, Record, Claimable, Replayable
  <2>3. /\ rq[x].pc = "claim" /\ rq'[x].pc = "replay"
        /\ rq'[x].items = rq[x].items /\ rq'[x].approval = record[r].approval
        /\ \A y \in Requests \ {x} : RequestCalm(y)
    BY <1>3 DEF RqOK, Request, RequestCalm
  <2> QED
    BY <1>1, <2>1, <2>2, <2>3 DEF ClaimStep, Kind
<1> QED
  BY <1>2, <1>3

LEMMA RecoverKind ==
  ASSUME TypeInv, NEW x \in Requests, NEW r \in Records, Recover(x, r) PROVE Kind
<1> USE DEF TypeInv
<1> DEFINE known == {i \in 1..Len(made) : SameRequest(made[i], r, rq[x].key)}
           e == [record |-> r, key |-> rq[x].key, approval |-> rq[x].approval]
<1>1. /\ SameQueue /\ record' = record /\ approvals' = approvals
      /\ rq[x].pc = "replay" /\ r \in rq[x].items
  BY DEF Recover, SameQueue
<1>2. CASE Goto(x, "reopen") /\ UNCHANGED made
  BY <1>1, <1>2, SameRecordCalm, GotoCalm DEF CalmStep, Kind
<1>3. ASSUME NEW i, rq' = [rq EXCEPT ![x].pc = "finalize", ![x].run = i]
      PROVE  /\ rq'[x].pc = "finalize" /\ rq'[x].items = rq[x].items /\ rq'[x].run = i
             /\ \A y \in Requests \ {x} : RequestCalm(y)
  BY <1>3 DEF RqOK, Request, RequestCalm
<1>4. ASSUME NEW i \in known, rq' = [rq EXCEPT ![x].pc = "finalize", ![x].run = i],
             UNCHANGED made
      PROVE  Kind
  <2>1. i \in 1..Len(made) /\ (failure.queue = "agent-runs" => made[i].record = r)
    BY DEF SameRequest
  <2>2. RecoverStep(x, r)
    BY <1>1, <1>3, <1>4, <2>1 DEF RecoverStep
  <2> QED
    BY <2>2 DEF Kind
<1>5. ASSUME rq' = [rq EXCEPT ![x].pc = "finalize", ![x].run = Len(made) + 1],
             made' = Append(made, e)
      PROVE  Kind
  <2>1. rq[x].key \in Keys /\ rq[x].approval \in Nat
    BY <1>1 DEF RqOK, Request
  <2>2. e \in Run /\ e.record = r /\ e.approval = rq[x].approval
    BY <2>1 DEF Run
  <2>3. RecoverStep(x, r)
    <3>1. \E d \in Run : /\ made' = Append(made, d) /\ rq'[x].run = Len(made) + 1
                         /\ d.record = r /\ d.approval = rq[x].approval
      BY <1>3, <1>5, <2>2
    <3>2. /\ rq'[x].pc = "finalize" /\ rq'[x].items = rq[x].items
          /\ \A y \in Requests \ {x} : RequestCalm(y)
      BY <1>3, <1>5
    <3> QED
      BY <1>1, <3>1, <3>2 DEF RecoverStep
  <2> QED
    BY <2>3 DEF Kind
<1> QED
  BY <1>2, <1>4, <1>5 DEF Recover

LEMMA FinalizeKind ==
  ASSUME TypeInv, NEW x \in Requests, NEW r \in Records,
         Finalize(x, r) \/ Reopen(x, r)
  PROVE  Kind
<1> USE DEF TypeInv
<1>1. CASE Finalize(x, r) /\ Holds(x, r)
  <2>1. /\ record'[r].status = "REPLAYED" /\ record'[r].run = rq[x].run
        /\ \A s \in Records : GrantCalm(s) /\ (s # r => StatusCalm(s))
    BY <1>1 DEF Finalize, RecordOK, Record, GrantCalm, StatusCalm
  <2>2. FinalizeStep(x, r)
    BY <1>1, <2>1, FinishCalm DEF Finalize, FinalizeStep, SameQueue
  <2> QED
    BY <2>2 DEF Kind
<1>2. CASE Finalize(x, r) /\ ~Holds(x, r)
  BY <1>2, SameRecordCalm, GotoCalm DEF Finalize, CalmStep, Kind, SameQueue
<1>3. CASE Reopen(x, r)
  <2>1. \A s \in Records : StatusCalm(s) /\ GrantCalm(s)
    BY <1>3, SameRecordCalm, ReopenedCalm DEF Reopen, Holds
  <2> QED
    BY <1>3, <2>1, FinishCalm DEF Reopen, CalmStep, Kind, SameQueue
<1> QED
  BY <1>1, <1>2, <1>3

LEMMA EndingKind ==
  ASSUME TypeInv, NEW x \in Requests, ReplayThrows(x) \/ RequestEnds(x) PROVE Kind
BY SameRecordCalm, GotoCalm, FinishCalm
DEF TypeInv, ReplayThrows, RequestEnds, CalmStep, Kind, SameQueue

LEMMA NextKind == TypeInv /\ [Next]_vars => Kind
<1> SUFFICES ASSUME TypeInv, [Next]_vars PROVE Kind
  OBVIOUS
<1>1. ASSUME NEW x \in Requests, RequestStep(x) PROVE Kind
  BY <1>1, TriageKind, DecisionKind, ClaimKind, RecoverKind, FinalizeKind, EndingKind
  DEF RequestStep
<1>2. CASE UNCHANGED vars
  BY <1>2, SameRecordCalm, SameRqCalm DEF vars, CalmStep, Kind, SameQueue
<1> QED
  BY <1>1, <1>2, QueueKinds, ArrivalKind DEF Next

-----------------------------------------------------------------------------
\* A record that was replayed or resolved is never open again, for any number of
\* records, requests, claims and faults: by the types of the records alone.
THEOREM ClosedForGood == Spec => ClosedStaysClosed
<1>1. TypeInv /\ [Next]_vars =>
        [\A r \in Records : record[r].status \in Closed => record'[r].status \in Closed]_vars
  BY NextKind DEF Kind, CalmStep, GrantStep, ClaimStep, RecoverStep, FinalizeStep,
                  StatusCalm, Closed
<1> QED
  BY <1>1, TypeInvInvariant, PTL DEF Spec, ClosedStaysClosed
-----------------------------------------------------------------------------
(* One run per approval.  An approval that can still lead to a run is held *)
(* once: by a record that is eligible or by a request that replays, never  *)
(* by two of them and never by one beside the run it has already led to.   *)

Replaying(x) == rq[x].pc = "replay"

ApprovalsGiven ==
  /\ \A r \in Records : record[r].approval <= approvals
  /\ \A i \in 1..Len(made) : made[i].approval <= approvals
  /\ \A x \in Requests : Replaying(x) => rq[x].approval <= approvals

HeldByRecord ==
  \A r \in Records : record[r].eligible =>
    /\ \A s \in Records : s # r /\ record[s].eligible =>
         record[s].approval # record[r].approval
    /\ \A x \in Requests : Replaying(x) => rq[x].approval # record[r].approval
    /\ \A i \in 1..Len(made) : made[i].approval # record[r].approval

HeldByRequest ==
  \A x \in Requests : Replaying(x) =>
    /\ \A y \in Requests : y # x /\ Replaying(y) => rq[y].approval # rq[x].approval
    /\ \A i \in 1..Len(made) : made[i].approval # rq[x].approval

ApprovalInv == ApprovalsGiven /\ HeldByRecord /\ HeldByRequest /\ OneRunPerApproval

LEMMA InitApprovalInv == Init => ApprovalInv
BY DEF Init, Idle, ApprovalInv, ApprovalsGiven, HeldByRecord, HeldByRequest,
       OneRunPerApproval, Replaying

\* The naturals a step compares.
LEMMA ApprovalsNat ==
  ASSUME TypeInv
  PROVE  /\ approvals \in Nat /\ Len(made) \in Nat
         /\ \A r \in Records : record[r].approval \in Nat /\ record[r].eligible \in BOOLEAN
         /\ \A x \in Requests : rq[x].approval \in Nat
         /\ \A i \in 1..Len(made) : made[i].approval \in Nat
<1>1. approvals \in Nat /\ Len(made) \in Nat
      /\ \A i \in 1..Len(made) : made[i].approval \in Nat
  <2>1. approvals \in Nat /\ Len(made) \in Nat
    BY DEF TypeInv, CountsOK, MadeOK
  <2>2. \A i \in 1..Len(made) : made[i] \in Run
    BY DEF TypeInv, MadeOK
  <2>3. \A e \in Run : e.approval \in Nat
    BY DEF Run
  <2> QED
    BY <2>1, <2>2, <2>3
<1>2. \A r \in Records : record[r].approval \in Nat /\ record[r].eligible \in BOOLEAN
  BY DEF TypeInv, RecordOK, Record
<1>3. \A x \in Requests : rq[x].approval \in Nat
  BY DEF TypeInv, RqOK, Request
<1> QED
  BY <1>1, <1>2, <1>3

LEMMA RequestCalmReplaying ==
  ASSUME NEW y \in Requests, RequestCalm(y), Replaying(y)'
  PROVE  Replaying(y) /\ rq'[y].approval = rq[y].approval
BY DEF RequestCalm, Replaying

LEMMA CalmApproval == ASSUME TypeInv, ApprovalInv, CalmStep PROVE ApprovalInv'
<1>1. \A r \in Records : record'[r].approval = record[r].approval
                         /\ (record'[r].eligible => record[r].eligible)
  BY DEF CalmStep, GrantCalm
<1>2. \A x \in Requests : Replaying(x)' => Replaying(x) /\ rq'[x].approval = rq[x].approval
  BY RequestCalmReplaying DEF CalmStep
<1>3. made' = made /\ approvals' = approvals
  BY DEF CalmStep
<1> QED
  BY <1>1, <1>2, <1>3
  DEF ApprovalInv, ApprovalsGiven, HeldByRecord, HeldByRequest, OneRunPerApproval

LEMMA GrantApproval ==
  ASSUME TypeInv, ApprovalInv, NEW r \in Records, GrantStep(r) PROVE ApprovalInv'
<1>1. record'[r].approval = approvals + 1
      /\ \A s \in Records \ {r} : record'[s].approval = record[s].approval
                                  /\ (record'[s].eligible => record[s].eligible)
  BY DEF GrantStep, GrantCalm
<1>2. \A x \in Requests : Replaying(x)' => Replaying(x) /\ rq'[x].approval = rq[x].approval
  BY RequestCalmReplaying DEF GrantStep
<1>3. made' = made /\ approvals' = approvals + 1
  BY DEF GrantStep
<1>4. ApprovalsGiven'
  BY <1>1, <1>2, <1>3, ApprovalsNat DEF ApprovalInv, ApprovalsGiven
<1>5. HeldByRecord'
  <2> SUFFICES ASSUME NEW s \in Records, record'[s].eligible
               PROVE  /\ \A t \in Records : t # s /\ record'[t].eligible =>
                           record'[t].approval # record'[s].approval
                      /\ \A x \in Requests : Replaying(x)' =>
                           rq'[x].approval # record'[s].approval
                      /\ \A i \in 1..Len(made) : made[i].approval # record'[s].approval
    BY <1>3 DEF HeldByRecord
  <2>1. CASE s = r
    BY <1>1, <1>2, <2>1, ApprovalsNat DEF ApprovalInv, ApprovalsGiven
  <2>2. CASE s # r
    <3>1. /\ record[s].eligible /\ record'[s].approval = record[s].approval
          /\ record[s].approval <= approvals
      BY <1>1, <2>2 DEF ApprovalInv, ApprovalsGiven
    <3>2. ASSUME NEW t \in Records, t # s, record'[t].eligible
          PROVE  record'[t].approval # record'[s].approval
      BY <1>1, <3>1, <3>2, ApprovalsNat DEF ApprovalInv, HeldByRecord
    <3> QED
      BY <1>2, <3>1, <3>2 DEF ApprovalInv, HeldByRecord
  <2> QED
    BY <2>1, <2>2
<1> QED
  BY <1>2, <1>3, <1>4, <1>5 DEF ApprovalInv, HeldByRequest, OneRunPerApproval

LEMMA ClaimApproval ==
  ASSUME TypeInv, ApprovalInv, NEW x \in Requests, NEW r \in Records, ClaimStep(x, r)
  PROVE  ApprovalInv'
<1>1. \A s \in Records : record'[s].approval = record[s].approval
                         /\ (record'[s].eligible => record[s].eligible /\ s # r)
  BY DEF ClaimStep, GrantCalm
<1>2. \A y \in Requests \ {x} :
        Replaying(y)' => Replaying(y) /\ rq'[y].approval = rq[y].approval
  BY RequestCalmReplaying DEF ClaimStep
<1>3. /\ made' = made /\ approvals' = approvals
      /\ record[r].eligible /\ rq'[x].approval = record[r].approval
  BY DEF ClaimStep
<1>4. ApprovalsGiven'
  BY <1>1, <1>2, <1>3 DEF ApprovalInv, ApprovalsGiven
<1>5. HeldByRecord'
  BY <1>1, <1>2, <1>3 DEF ApprovalInv, HeldByRecord
<1>6. HeldByRequest'
  BY <1>2, <1>3 DEF ApprovalInv, HeldByRecord, HeldByRequest
<1> QED
  BY <1>3, <1>4, <1>5, <1>6 DEF ApprovalInv, OneRunPerApproval

LEMMA RecoverApproval ==
  ASSUME TypeInv, ApprovalInv, NEW x \in Requests, NEW r \in Records, RecoverStep(x, r)
  PROVE  ApprovalInv'
<1>1. \A y \in Requests :
        Replaying(y)' => y # x /\ Replaying(y) /\ rq'[y].approval = rq[y].approval
  BY RequestCalmReplaying DEF RecoverStep, Replaying
<1>2. record' = record /\ approvals' = approvals /\ Replaying(x)
  BY DEF RecoverStep, Replaying
<1>3. CASE made' = made
  BY <1>1, <1>2, <1>3
  DEF ApprovalInv, ApprovalsGiven, HeldByRecord, HeldByRequest, OneRunPerApproval
<1>4. ASSUME NEW e \in Run, made' = Append(made, e), e.approval = rq[x].approval
      PROVE  ApprovalInv'
  <2>1. \A i \in 1..Len(made') : \/ i \in 1..Len(made) /\ made'[i] = made[i]
                                 \/ i = Len(made) + 1 /\ made'[i].approval = rq[x].approval
    BY <1>4 DEF TypeInv, MadeOK
  <2>2. ApprovalsGiven'
    BY <1>1, <1>2, <2>1 DEF ApprovalInv, ApprovalsGiven
  <2>3. HeldByRecord'
    BY <1>1, <1>2, <2>1 DEF ApprovalInv, HeldByRecord
  <2>4. HeldByRequest'
    BY <1>1, <1>2, <2>1 DEF ApprovalInv, HeldByRequest
  <2>5. OneRunPerApproval'
    BY <1>2, <2>1 DEF ApprovalInv, HeldByRequest, OneRunPerApproval
  <2> QED
    BY <2>2, <2>3, <2>4, <2>5 DEF ApprovalInv
<1> QED
  BY <1>3, <1>4 DEF RecoverStep

LEMMA FinalizeApproval ==
  ASSUME TypeInv, ApprovalInv, NEW x \in Requests, NEW r \in Records, FinalizeStep(x, r)
  PROVE  ApprovalInv'
<1>1. \A s \in Records : record'[s].approval = record[s].approval
                         /\ (record'[s].eligible => record[s].eligible)
  BY DEF FinalizeStep, GrantCalm
<1>2. \A y \in Requests : Replaying(y)' => Replaying(y) /\ rq'[y].approval = rq[y].approval
  BY RequestCalmReplaying DEF FinalizeStep
<1>3. made' = made /\ approvals' = approvals
  BY DEF FinalizeStep
<1> QED
  BY <1>1, <1>2, <1>3
  DEF ApprovalInv, ApprovalsGiven, HeldByRecord, HeldByRequest, OneRunPerApproval

\* An approval leads to at most one recovery run, whatever number of requests
\* replay, fail, are taken for dead or are slow.
THEOREM ApprovalSpentOnce == Spec => []OneRunPerApproval
<1>1. TypeInv /\ ApprovalInv /\ [Next]_vars => ApprovalInv'
  BY NextKind, CalmApproval, GrantApproval, ClaimApproval, RecoverApproval, FinalizeApproval
  DEF Kind
<1>2. ApprovalInv => OneRunPerApproval
  BY DEF ApprovalInv
<1> QED
  BY <1>1, <1>2, InitApprovalInv, TypeInvInvariant, PTL DEF Spec

-----------------------------------------------------------------------------
(* The run a replayed record names.  A replay has one record from its      *)
(* claim to its end, and the run it got is a run of that record.           *)

RunFound(x) ==
  /\ rq[x].pc \in {"claim", "replay", "finalize"} =>
       \A r, s \in rq[x].items : r = s
  /\ rq[x].pc = "finalize" =>
       /\ rq[x].run \in 1..Len(made)
       /\ failure.queue = "agent-runs" =>
            \A r \in rq[x].items : made[rq[x].run].record = r

RunInv == ReplayedNamesRun /\ \A x \in Requests : RunFound(x)

LEMMA InitRunInv == Init => RunInv
BY DEF Init, Idle, RunInv, RunFound, ReplayedNamesRun

\* The runs that were created stay what they are.
MadeGrows ==
  \A i \in 1..Len(made) : i \in 1..Len(made') /\ made'[i] = made[i]

LEMMA KindGrows == ASSUME TypeInv, Kind PROVE MadeGrows /\ SameQueue
BY DEF TypeInv, MadeOK, MadeGrows, Kind, CalmStep, GrantStep, ClaimStep, RecoverStep, FinalizeStep

LEMMA CalmRunFound ==
  ASSUME NEW y \in Requests, RunFound(y), RequestCalm(y), MadeGrows, SameQueue
  PROVE  RunFound(y)'
BY DEF RunFound, RequestCalm, MadeGrows, SameQueue

LEMMA CalmNamesRun ==
  ASSUME ReplayedNamesRun, MadeGrows, SameQueue, NEW r \in Records, StatusCalm(r)
  PROVE  record'[r].status = "REPLAYED" =>
           /\ record'[r].run \in 1..Len(made')
           /\ failure'.queue = "agent-runs" => made'[record'[r].run].record = r
BY DEF ReplayedNamesRun, MadeGrows, SameQueue, StatusCalm

LEMMA KindRunInv == ASSUME TypeInv, RunInv, Kind PROVE RunInv'
<1> USE DEF RunInv
<1>1. MadeGrows /\ SameQueue
  BY KindGrows
<1>2. ASSUME \A r \in Records : StatusCalm(r), \A y \in Requests : RequestCalm(y)
      PROVE  RunInv'
  BY <1>1, <1>2, CalmRunFound, CalmNamesRun DEF ReplayedNamesRun
<1>3. CASE CalmStep \/ \E r \in Records : GrantStep(r)
  BY <1>2, <1>3 DEF CalmStep, GrantStep
<1>4. ASSUME NEW x \in Requests, NEW r \in Records, ClaimStep(x, r) PROVE RunInv'
  <2>1. RunFound(x)'
    BY <1>4 DEF ClaimStep, RunFound
  <2> QED
    BY <1>1, <1>4, <2>1, CalmRunFound, CalmNamesRun DEF ClaimStep, ReplayedNamesRun
<1>5. ASSUME NEW x \in Requests, NEW r \in Records, RecoverStep(x, r) PROVE RunInv'
  <2>1. \A s \in Records : StatusCalm(s)
    BY <1>5, SameRecordCalm DEF RecoverStep
  <2>2. \A s \in rq'[x].items : s = r
    BY <1>5 DEF RecoverStep, RunFound
  <2>3. rq'[x].run \in 1..Len(made')
        /\ (failure.queue = "agent-runs" => made'[rq'[x].run].record = r)
    BY <1>5 DEF RecoverStep, TypeInv, MadeOK
  <2>4. RunFound(x)'
    BY <1>1, <1>5, <2>2, <2>3 DEF RecoverStep, RunFound, SameQueue
  <2> QED
    BY <1>1, <1>5, <2>1, <2>4, CalmRunFound, CalmNamesRun DEF RecoverStep, ReplayedNamesRun
<1>6. ASSUME NEW x \in Requests, NEW r \in Records, FinalizeStep(x, r) PROVE RunInv'
  <2>1. \A y \in Requests : RunFound(y)'
    BY <1>1, <1>6, CalmRunFound DEF FinalizeStep
  <2>2. record'[r].run \in 1..Len(made')
        /\ (failure'.queue = "agent-runs" => made'[record'[r].run].record = r)
    BY <1>1, <1>6 DEF FinalizeStep, RunFound, MadeGrows, SameQueue
  <2> QED
    BY <1>1, <1>6, <2>1, <2>2, CalmNamesRun DEF FinalizeStep, ReplayedNamesRun
<1> QED
  BY <1>3, <1>4, <1>5, <1>6 DEF Kind

\* A replayed record names a run that exists, and for an agent run one that was
\* created for this record, whichever of its replays wrote it.
THEOREM ReplayedRecordNamesItsRun == Spec => []ReplayedNamesRun
<1>1. TypeInv /\ RunInv /\ [Next]_vars => RunInv'
  BY NextKind, KindRunInv
<1>2. RunInv => ReplayedNamesRun
  BY DEF RunInv
<1> QED
  BY <1>1, <1>2, InitRunInv, TypeInvInvariant, PTL DEF Spec
=============================================================================
