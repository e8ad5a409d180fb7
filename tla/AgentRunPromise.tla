--------------------------- MODULE AgentRunPromise ---------------------------
(***************************************************************************)
(* What a user of the agent-run API is promised, without queue, outbox,    *)
(* leases, workers or scans: a run is submitted once, is tried one attempt *)
(* after the other, and ends once.  It completes only with a result or on  *)
(* the word of the remote agent that it finished; it gets no result any    *)
(* more once it ended, and a run that ended or was deleted never comes     *)
(* back.                                                                   *)
(***************************************************************************)
EXTENDS Naturals

CONSTANTS Runs, MaxAttempt

VARIABLES phase,    \* where each run is
          attempt,  \* the attempt it is at
          result,   \* the attempt whose output it shows, 0 if none
          vouched   \* the runs whose agent said that it finished

promiseVars == <<phase, attempt, result, vouched>>

Ended == {"completed", "failed", "cancelled"}
Phase == {"unborn", "open", "deleted"} \cup Ended

Init == /\ phase = [r \in Runs |-> "unborn"]
        /\ attempt = [r \in Runs |-> 0]
        /\ result = [r \in Runs |-> 0] /\ vouched = {}

Submit(r) ==
  /\ phase[r] = "unborn"
  /\ phase' = [phase EXCEPT ![r] = "open"]
  /\ attempt' = [attempt EXCEPT ![r] = 1]
  /\ UNCHANGED <<result, vouched>>

\* Only the attempt a run is at can deliver, and only while the run is open.
Produce(r) ==
  /\ phase[r] = "open"
  /\ result' = [result EXCEPT ![r] = attempt[r]]
  /\ UNCHANGED <<phase, attempt, vouched>>

Vouch(r) ==
  /\ phase[r] = "open" /\ vouched' = vouched \cup {r}
  /\ UNCHANGED <<phase, attempt, result>>

End(r, e) ==
  /\ phase[r] = "open" /\ (e = "completed" => result[r] > 0 \/ r \in vouched)
  /\ phase' = [phase EXCEPT ![r] = e]
  /\ UNCHANGED <<attempt, result, vouched>>

TryAgain(r) ==
  /\ phase[r] = "open" /\ attempt[r] < MaxAttempt
  /\ attempt' = [attempt EXCEPT ![r] = @ + 1]
  /\ UNCHANGED <<phase, result, vouched>>

Delete(r) ==
  /\ phase[r] \in {"open"} \cup Ended
  /\ phase' = [phase EXCEPT ![r] = "deleted"]
  /\ attempt' = [attempt EXCEPT ![r] = 0]
  /\ result' = [result EXCEPT ![r] = 0] /\ vouched' = vouched \ {r}

Next == \E r \in Runs :
          \/ Submit(r) \/ Produce(r) \/ Vouch(r) \/ TryAgain(r) \/ Delete(r)
          \/ \E e \in Ended : End(r, e)

Spec == Init /\ [][Next]_promiseVars
=============================================================================
