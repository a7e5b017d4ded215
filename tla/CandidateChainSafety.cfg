\* Four commands on one case with both task types, one retry each.
SPECIFICATION Spec
CONSTANTS
  Requests = {r1, r2, r3, r4}
  Cases = {case1}
  Tasks = {INITIAL, REPLY}
  Nobody = Nobody
  MaxAttempts = 2
SYMMETRY RequestSymmetry
INVARIANTS ChainsDoNotFork
PROPERTY RefusalsNameTheHead
