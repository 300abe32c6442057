SPECIFICATION Spec
CONSTANTS
  c1 = c1
  c2 = c2
  name = name
  id = id
  e1 = e1
  e2 = e2
  NoCaller = NoCaller
  Absent = Absent
  NoTemporary = NoTemporary
  Torn = Torn
  Callers <- TwoCallers
  Names <- OneName
  JobIDs <- OneJob
  Entries <- TwoEntries
  MaxHistory = 1
  Environment = {"failures", "crash", "power"}
SYMMETRY Symmetry
INVARIANTS
  StateSurvives
  PasswordsAreWanted
PROPERTIES
  ImplementsAtomicStore
