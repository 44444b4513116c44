\* One approval, three requests; answers overlap on the shared host only.
SPECIFICATION Spec
CONSTANTS
  Approvals = {a1}
  Requests = {r1, r2, r3}
  NoApproval = noApproval
  Hosts <- EveryHost
  OverlapOn <- OnlyShared
SYMMETRY Interchangeable
INVARIANTS
  TypeOK
  OneRunUnlessForgotten
  DeclinedNeverRuns
CHECK_DEADLOCK FALSE
