SPECIFICATION Spec
CONSTANTS
  t1 = t1
  t2 = t2
  f1 = f1
  f2 = f2
  f3 = f3
  f4 = f4
  NoFile = NoFile
  NoTransfer = NoTransfer
  NoMetadata = NoMetadata
  Transfers <- TwoTransfers
  Files <- FourFiles
  Contents <- OneVersion
  Foreign <- ForeignFile
  Junk = "junk"
  OptionSets <- PlainOptions
  MaxTime = 1
  Environment = {}
SYMMETRY PairSymmetry
VIEW Distinct
PROPERTIES
  DestinationMatches
