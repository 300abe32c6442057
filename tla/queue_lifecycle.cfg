SPECIFICATION FairSpec
CONSTANTS
  j1 = j1
  j2 = j2
  r1 = r1
  r2 = r2
  c1 = c1
  c2 = c2
  NoJob = NoJob
  NoRun = NoRun
  Jobs <- OneJob
  PasswordJobs <- NoJobs
  Runs <- TwoRuns
  Callers <- TwoCallers
  MaxConcurrent = 1
  MaxJobs = 2
  MaxDispatchers = 1
  Outcomes = {"ok", "interrupted", "failed"}
  Environment = {"quit", "crash", "cleanup", "pause"}
INVARIANTS
  StopReachesRun
  WakeLockTracksRuns
  RunOwnsJob
PROPERTIES
  RestartIsQuiet
  VerifiedIsFinal
  StopIsHonoured
  StopSettles
