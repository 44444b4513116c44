\* A client that gave up on a long poll and called resume again.
SPECIFICATION Spec
CONSTANTS
  Executions = {x1}
  Resumes = {r1, r2}
  Browsers = {b1}
  MaxDeferreds = 2
SYMMETRY Interchangeable
INVARIANTS
  EveryWaiterIsReachable
CHECK_DEADLOCK FALSE
