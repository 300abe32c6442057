SPECIFICATION Spec
CONSTANTS
  Requests = {"by key", "by password", "otherwise by password"}
  ByPassword = {"by password", "otherwise by password"}
  NoRequest = "none"
  JobIDs = {1, 2}
  NoJob = 0
  Retained <- OneLeft
  MaxDeeds = 5
  MaxStarts = 3
INVARIANTS
  ReviewedIsQueued
\* A page whose jobs are settled waits for its user.
CHECK_DEADLOCK FALSE
