SPECIFICATION Spec
CONSTANTS
  Rsa = "rsa"
  Grants <- ModeGrants
  RootUid = 0
  Lines <- AllLines
  Scripts <- SmallScripts
  Sources <- TwoSources
  Before <- SmallBefore
  OtherEntries <- Meddlers
  Modes <- AllModes
  Ordinary <- WithoutSpecial
  Umasked = "public"
  Restrictive = "private"
  Preserve = "preserve"
  Groups = {"users", "media", "mine"}
  DefaultGroup = "mine"
  NoGroup = "no group"
  Accounts <- ServerAccounts
  Me = 1
  NoAccount = "no account"
  Now = "now"
  Part = "part"
  NoContent = "none"
  MaxMeddling = 2
INVARIANTS
  SuccessIsEarned
  StrangersRefused
  FamiliarServersAccepted
  AgentKeySuffices
PROPERTIES
  OnlyAskedChanges
  PolicyFollowsVerification
\* A user with no more commands does nothing.
CHECK_DEADLOCK FALSE
