SPECIFICATION Spec
CONSTANTS
  r1 = r1
  w1 = w1
  NoOne = NoOne
  Runs = {r1}
  MaxAttempt = 2
  Workers = {w1}
  Host <- OneHost
  Publishers = {p1}
  Recoverers = {s1}
  JobAttempts = 1
  PublishAttempts = 2
  FaultKinds = {"redis", "database", "conflict", "crash", "restart", "stall", "slow", "evict"}
  MaxFaults = 1
  ApiCalls = {"cancel", "retry", "remove"}
  AgentEvents = {}
INVARIANTS TypeOK TerminalStatusAgrees EnqueuePerAttempt
PROPERTIES TerminalIsFinal AttemptsGrow PromiseKept
CHECK_DEADLOCK FALSE
