SPECIFICATION Spec
CONSTANTS
  w1 = w1
  w2 = w2
  p1 = p1
  p2 = p2
  s1 = s1
  s2 = s2
  u1 = u1
  u2 = u2
  k1 = k1
  NoOne = NoOne
  MaxRuns = 2
  MaxSlots = 3
  MaxEdits = 1
  NumSteps = 2
  Workers = {w1, w2}
  Processes = {p1, p2}
  Schedulers = {s1, s2}
  Users = {u1, u2}
  Keys = {k1}
  JobAttempts = 2
  FaultKinds = {"redis", "database", "crash", "restart", "stall", "overrun"}
  MaxFaults = 2
  MaxBusy = 2
  MaxTaken = 1
INVARIANTS TypeOK OneScheduledRun OneExecutor LedgerDecides RecoversFailed ActiveRunHasJob DeadHasFailed
PROPERTIES EvidenceStays ErrorMeansFailed
CHECK_DEADLOCK FALSE
CONSTRAINT Bounds
SYMMETRY Symmetry
