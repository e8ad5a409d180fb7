SPECIFICATION Spec
CONSTANTS
  q1 = q1
  q2 = q2
  u1 = u1
  k1 = k1
  k2 = k2
  Records = {1, 2}
  Requests = {q1, q2}
  Users = {u1}
  Keys = {k1, k2}
  NoUser = NoUser
  NoKey = NoKey
  Deliveries = 2
  MaxApprovals = 2
  MaxFaults = 1
INVARIANTS TypeOK OneRunPerApproval 
PROPERTIES ClosedStaysClosed
SYMMETRY Symmetry
CHECK_DEADLOCK FALSE
