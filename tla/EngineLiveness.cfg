\* Two executions under fairness: callers stay, calls end with their sandbox (Deno),
\* the engine lives on.
SPECIFICATION FairSpec
CONSTANTS
  Executions = {e1, e2}
  NoExecution = noExecution
  Calls = {k1, k2}
  NoCall = noCall
  Clients = {c1, c2}
  MaxPauses = 3
  OutcomeLimit = 2
  IdLimit = 3
  DetachedCalls = FALSE
  Interruptible = FALSE
  MaxRestarts = 0
INVARIANTS
  SweptLeavesNothing
  SettledMeansSettled
  OneFrontier
  WaitingCallsAreReachable
  NoWaitIsStuck
PROPERTIES
  EveryWaitEnds
CHECK_DEADLOCK FALSE
