SPECIFICATION FairSpec
CONSTANTS
  r1 = r1
  w1 = w1
  NoOne = NoOne
  Runs = {r1}
  MaxAttempt = 1
  Workers = {}
  Host <- OneHost
  Publishers = {p1, p2}
  Recoverers = {}
  JobAttempts = 2
  PublishAttempts = 2
  FaultKinds = {"redis", "database", "restart", "slow"}
  MaxFaults = 3
  ApiCalls = {"cancel", "remove"}
  AgentEvents = {}
 
PROPERTIES NoPendingOrphan
CHECK_DEADLOCK FALSE
