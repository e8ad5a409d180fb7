----------------------------- MODULE MCAgentRuns -----------------------------
(***************************************************************************)
(* Instances of AgentRuns for TLC.                                         *)
(***************************************************************************)
EXTENDS AgentRuns

CONSTANTS r1, w1

OneHost  == [w \in Workers |-> "host"]
TwoHosts == [w \in Workers |-> IF w = w1 THEN "host1" ELSE "host2"]
=============================================================================
