\* Per-request host, answers one after the other.
SPECIFICATION Spec
CONSTANTS
  Approvals = {a1}
  Requests = {r1}
  NoApproval = noApproval
  Hosts <- OnlyPerRequest
  OverlapOn <- Nowhere
SYMMETRY Interchangeable
INVARIANTS
  ExpiredMeansNothingRan
CHECK_DEADLOCK FALSE
