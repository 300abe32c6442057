SPECIFICATION Spec
CONSTANTS
  absent = absent
  directory = directory
  foreign = foreign
  thumbnail = thumbnail
  empty = empty
  noName = noName
  Walk <- SmallTree
  Folders <- SmallFolders
  Places <- SmallPlaces
  FixedName <- Fixed
  ThumbName <- Thumb
  NoName <- noName
  Absent <- absent
  Directory <- directory
  Foreign <- foreign
  Thumbnail <- thumbnail
  Empty <- empty
  Before <- SmallBefore
  Requests <- SmallRequests
  MaxMeddling = 1
INVARIANTS
  TypeOK
  TreeIsComplete
  FoldersCarryPolicy
  FolderTimesPreserved
PROPERTIES
  OnlyAskedChanges
