SPECIFICATION FairSpec
CONSTANTS
  r1 = r1
  w1 = w1
  NoOne = NoOne
  Runs = {r1}
  MaxAttempt = 2
  Workers = {w1}
  Host <- OneHost
  Publishers = {p1}
  Recoverers = {s1}
  JobAttempts = 2
  PublishAttempts = 2
  FaultKinds = {"crash"}
  MaxFaults = 1
  ApiCalls = {}
  AgentEvents = {}
PROPERTIES AbandonedIsRecovered
CHECK_DEADLOCK FALSE
