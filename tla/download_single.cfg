SPECIFICATION Spec
CONSTANTS
  t1 = t1
  f1 = f1
  f2 = f2
  f3 = f3
  NoFile = NoFile
  NoTransfer = NoTransfer
  NoMetadata = NoMetadata
  Transfers <- OneTransfer
  Files <- ThreeFiles
  Contents <- FourVersions
  Foreign <- ForeignFile
  Junk = "junk"
  OptionSets <- AllOptions
  MaxTime = 3
  Environment = {"edit", "others"}
SYMMETRY FileSymmetry
VIEW Distinct
INVARIANTS
  TypeOK
PROPERTIES
  ReplacementReady
  DestinationMatches
  ImplementsPublication
