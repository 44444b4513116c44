SPECIFICATION FairSpec
CONSTANTS
  Executions = {x1}
  Calls = {c1, c2}
  Starts = {t1, t2}
  ApprovalTimeout = 1
  SessionTimeout = 1
  MaxPausedIdle = 2
  MaxRunningIdle = 2
  Horizon = 2
  Addressable = TRUE
INVARIANTS TypeOK TimeoutYieldsToHuman PauseHasAWayOut LeaseHasReleaser
PROPERTIES DisposalSparesApprovals ImplementsDecision LeaseEnds LeasedPauseIsDecided
