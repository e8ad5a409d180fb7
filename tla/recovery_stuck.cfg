SPECIFICATION FairSpec
CONSTANTS
  w1 = w1
  w2 = w2
  u1 = u1
  u2 = u2
  NoOne = NoOne
  Workers = {w1}
  Users = {u1}
  MaxListings = 1
  MaxSnapshots = 1
  MaxGrants = 1
  JobAttempts = 1
  MaxProposals = 1
  MaxClaims = 1
  FaultKinds = {}
  MaxFaults = 0
CHECK_DEADLOCK FALSE
PROPERTIES RecoverySettles
