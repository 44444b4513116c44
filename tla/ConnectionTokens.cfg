SPECIFICATION FairSpec
CONSTANTS
  e1 = e1
  e2 = e2
  c1 = c1
  c2 = c2
  Executors = {e1, e2}
  Calls = {c1, c2}
  Homes <- SameOrAnother
  Completions = {k1}
  MaxTokens = 3
  MaxFlows = 1
  MaxRevoked = 1
INVARIANTS TypeOK GateHoldsTheGrant StoredTokenIsGood DeadMeansRefused
PROPERTIES CallsOnlyAdvance CallsEnd
CHECK_DEADLOCK FALSE
