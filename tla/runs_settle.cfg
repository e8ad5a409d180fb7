SPECIFICATION FairSpec
CONSTANTS
  r1 = r1
  r2 = r2
  w1 = w1
  NoOne = NoOne
  Runs = {r1, r2}
  MaxAttempt = 1
  Workers = {w1}
  Host <- OneHost
  Publishers = {p1}
  Recoverers = {}
  JobAttempts = 2
  PublishAttempts = 1
  FaultKinds = {}
  MaxFaults = 0
  ApiCalls = {"retry"}
  AgentEvents = {}
PROPERTIES RunsSettle
CHECK_DEADLOCK FALSE
