--------------------------- MODULE MCAutomations ---------------------------
(***************************************************************************)
(* Slots, processes, replicas and requests are interchangeable.                *)
(***************************************************************************)
EXTENDS Automations, TLC

CONSTANTS w1, w2, p1, p2, s1, s2, u1, u2, k1,
  MaxBusy,  \* bound: workers, schedulers and requests at work at a time
  MaxTaken  \* bound: runs that workers take up

Bounds ==
  /\ Cardinality({w \in Workers : wk[w].pc # "idle"})
       + Cardinality({c \in Clients : client[c].pc # "idle"}) <= MaxBusy
  /\ Cardinality({r \in Runs : \/ job[r].made > 0 \/ run[r].status = "RUNNING"
                               \/ job[r].state \in {"active", "completed", "failed"}})
       <= MaxTaken
  /\ \/ edits + Cardinality(faults) <= 1
     \/ edits = 0 /\ faults = {"stall", "overrun"}
  /\ faults \cap {"crash", "stall"} # {} => run[2].status = "none"

Symmetry == Permutations(Workers) \cup Permutations(Processes)
              \cup Permutations(Schedulers) \cup Permutations(Users)
=============================================================================
