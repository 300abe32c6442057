SPECIFICATION Spec
CONSTANTS
  t1 = t1
  t2 = t2
  f1 = f1
  f2 = f2
  f3 = f3
  f4 = f4
  NoFile = NoFile
  NoTransfer = NoTransfer
  NoMetadata = NoMetadata
  Transfers <- OneTransfer
  Files <- ThreeFiles
  Contents <- FourVersions
  Foreign <- ForeignFile
  Junk = "junk"
  OptionSets <- AllOptions
  MaxTime = 2
  Environment = {"edit", "others", "decay"}
SYMMETRY FileSymmetry
VIEW Distinct
INVARIANTS
  TypeOK
  PartialHasSidecar
  ResumeIsSound
PROPERTIES
  ReplacementReady
  DestinationMatches
  ImplementsPublication
