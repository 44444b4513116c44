\* Per-request host, two answers to the same approval in flight at once.
SPECIFICATION Spec
CONSTANTS
  Approvals = {a1}
  Requests = {r1, r2}
  NoApproval = noApproval
  Hosts <- OnlyPerRequest
  OverlapOn <- OnlyPerRequest
SYMMETRY Interchangeable
INVARIANTS
  OneRunPerApproval
CHECK_DEADLOCK FALSE
