SPECIFICATION Spec
CONSTANTS
  j1 = j1
  j2 = j2
  r1 = r1
  r2 = r2
  c1 = c1
  c2 = c2
  NoJob = NoJob
  NoRun = NoRun
  Jobs <- OneJob
  PasswordJobs <- OneJob
  Runs <- TwoRuns
  Callers <- TwoCallers
  MaxConcurrent = 1
  MaxJobs = 2
  MaxDispatchers = 1
  Outcomes = {"ok", "interrupted", "failed"}
  Environment = {"legacy", "pause", "crash", "store_failure"}
SYMMETRY CallerSymmetry
INVARIANTS
  SlotAccounting
  LegacyExcludesQueue
  PasswordDiscipline
  VerifiedIsEarned
\* A service whose jobs are settled waits for its user.
CHECK_DEADLOCK FALSE
