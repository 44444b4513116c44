\* One execution, three resumes in the server at once, two browser tabs.
SPECIFICATION FairSpec
CONSTANTS
  Executions = {x1}
  Resumes = {r1, r2, r3}
  Browsers = {b1, b2}
  MaxDeferreds = 3
INVARIANTS
  TypeOK
  SharedWaitersWake
  WaitersAreInUse
PROPERTIES
  ImplementsHumanAnswer
  AnswerEndsTheWait
CHECK_DEADLOCK FALSE
