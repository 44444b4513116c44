\* Two executions, two tool calls, three pauses, one engine rebuild, callers
\* that hang up, tool calls that outlive their sandbox; caches of 1 and 2 entries.
SPECIFICATION Spec
CONSTANTS
  Executions = {e1, e2}
  NoExecution = noExecution
  Calls = {k1, k2}
  NoCall = noCall
  Clients = {c1, c2}
  MaxPauses = 3
  OutcomeLimit = 1
  IdLimit = 2
  DetachedCalls = TRUE
  Interruptible = TRUE
  MaxRestarts = 1
SYMMETRY Interchangeable
INVARIANTS
  TypeOK
  OnePlace
  OneResumer
  ResumeIsIdempotent
  NullOnlyWhenForgotten
  CacheIsNewestOfRemembered
  RepliesLeadForward
PROPERTIES
  ImplementsLifecycle
CHECK_DEADLOCK FALSE
