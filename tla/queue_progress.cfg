SPECIFICATION FairSpec
CONSTANTS
  j1 = j1
  j2 = j2
  r1 = r1
  r2 = r2
  c1 = c1
  c2 = c2
  NoJob = NoJob
  NoRun = NoRun
  Jobs <- TwoJobs
  PasswordJobs <- TwoJobs
  Runs <- TwoRuns
  Callers <- OneCaller
  MaxConcurrent = 1
  MaxJobs = 2
  MaxDispatchers = 1
  Outcomes = {"failed"}
  Environment = {"quit"}
PROPERTIES
  QueueIsServed
  CloseTerminates
