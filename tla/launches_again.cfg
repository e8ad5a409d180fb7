SPECIFICATION Spec
CONSTANTS
  w1 = w1
  w2 = w2
  u1 = u1
  u2 = u2
  NoOne = NoOne
  Workers = {w1}
  Users = {u1}
  MaxListings = 2
  MaxSnapshots = 1
  MaxGrants = 2
  JobAttempts = 2
  MaxProposals = 1
  MaxClaims = 1
  FaultKinds = {"network"}
  MaxFaults = 1
INVARIANTS OneImport
PROPERTIES ImportsKeepPromise
CHECK_DEADLOCK FALSE
