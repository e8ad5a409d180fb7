SPECIFICATION Spec
CONSTANTS
  w1 = w1
  w2 = w2
  u1 = u1
  u2 = u2
  NoOne = NoOne
  Workers = {w1, w2}
  Users = {u1}
  MaxListings = 1
  MaxSnapshots = 1
  MaxGrants = 2
  JobAttempts = 1
  MaxProposals = 1
  MaxClaims = 1
  FaultKinds = {"redis", "database", "crash", "stall", "network", "refused", "channel", "denied", "late"}
  MaxFaults = 1
INVARIANTS TypeOK SentIsRecorded ActiveIsConfirmed
PROPERTIES LedgerForward DecidedIsFinal ImportsKeepPromise
CHECK_DEADLOCK FALSE
SYMMETRY Symmetry
