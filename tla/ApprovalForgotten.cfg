\* One engine that stays up and one that a restart may replace; answers one after the other.
SPECIFICATION Spec
CONSTANTS
  Approvals = {a1}
  Requests = {r1}
  NoApproval = noApproval
  Hosts <- LongLived
  OverlapOn <- Nowhere
SYMMETRY Interchangeable
INVARIANTS
  OneRunPerApproval
CHECK_DEADLOCK FALSE
