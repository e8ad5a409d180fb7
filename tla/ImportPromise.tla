---------------------------- MODULE ImportPromise ----------------------------
(***************************************************************************)
(* What the product-launch subsystem promises its user, without workers,   *)
(* queue, claims and scans: a snapshot is imported only after it was put   *)
(* on record that its request may leave, once, under an approval that was  *)
(* given before and that lets nothing else go; and what the marketplace    *)
(* made of it is never taken back.                                         *)
(***************************************************************************)
EXTENDS Naturals

CONSTANTS Snapshots, MaxGrants

VARIABLES answer,    \* what is on record of the import of each snapshot
          imports,   \* the imports that left
          granted    \* the approvals given so far, numbered

promiseVars == <<answer, imports, granted>>

Final == {"acknowledged", "succeeded", "rejected"}

Init == answer = [s \in Snapshots |-> "none"] /\ imports = {} /\ granted = 0

Approve ==
  /\ granted < MaxGrants /\ granted' = granted + 1
  /\ UNCHANGED <<answer, imports>>

\* From here on the request may have left.
Record(s) ==
  /\ answer[s] = "none" /\ answer' = [answer EXCEPT ![s] = "open"]
  /\ UNCHANGED <<imports, granted>>

Import(s, g) ==
  /\ answer[s] # "none" /\ g \in 1..granted
  /\ \A i \in imports : i.snap # s /\ i.grant # g
  /\ imports' = imports \cup {[snap |-> s, grant |-> g]}
  /\ UNCHANGED <<answer, granted>>

\* An answer, or a readback: an offer that was there before is answered as well.
Answer(s, a) ==
  /\ answer[s] \in {"none", "open"} \/ (answer[s] = "acknowledged" /\ a = "succeeded")
  /\ answer' = [answer EXCEPT ![s] = a]
  /\ UNCHANGED <<imports, granted>>

Next == \/ Approve
        \/ \E s \in Snapshots : \/ Record(s)
                                \/ \E g \in 1..MaxGrants : Import(s, g)
                                \/ \E a \in Final : Answer(s, a)

Spec == Init /\ [][Next]_promiseVars
=============================================================================
