SPECIFICATION Spec
CONSTANTS
  Executions = {e1}
  NoExecution = noExecution
  Calls = {k1, k2}
  NoCall = noCall
  Clients = {c1}
  MaxPauses = 2
  OutcomeLimit = 1
  IdLimit = 2
  DetachedCalls = TRUE
  Interruptible = FALSE
  MaxRestarts = 0
INVARIANTS
  SweptLeavesNothing
CHECK_DEADLOCK FALSE
