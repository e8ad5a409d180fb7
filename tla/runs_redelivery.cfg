SPECIFICATION Spec
CONSTANTS
  r1 = r1
  w1 = w1
  NoOne = NoOne
  Runs = {r1}
  MaxAttempt = 1
  Workers = {w1, w2}
  Host <- TwoHosts
  Publishers = {p1}
  Recoverers = {}
  JobAttempts = 2
  PublishAttempts = 2
  FaultKinds = {"crash", "stall"}
  MaxFaults = 2
  ApiCalls = {}
  AgentEvents = {"EXECUTION_FINISHED", "ACTION_PROPOSED", "APPROVAL_GRANTED", "APPROVAL_REJECTED"}
INVARIANTS OneCallPerAttempt CompletedHasOutput TerminalStatusAgrees
CHECK_DEADLOCK FALSE
