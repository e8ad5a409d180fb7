SPECIFICATION Spec
CONSTANTS
  Runs = {r1, r2, r3, r4}
  Workers = {w1, w2, w3}
  Cap = 2
  NoRun = NoRun
INVARIANTS TypeOK CountedOnce
CHECK_DEADLOCK FALSE
