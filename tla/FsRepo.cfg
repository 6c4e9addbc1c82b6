SPECIFICATION FairSpec
CONSTANTS
  Proc = {p1, p2}
  Ident = {"idA", "idB"}
  NoIdent = NoIdent
  Mount = {"level", "invalid"}
  Invalid = {"invalid"}
  Exclusive = {"level"}
  Configs <- MCConfigs
  Handle = {h1, h2, h3}
  NoHandle = NoHandle
  MaxFaults = 1
  Free = Free
INVARIANTS
  OwnerDatastoreOpen
  NoLeakedMounts
  ConfigMatchesDisk
PROPERTIES
  IdentityStable
  RefinesSharedRepo
  CallsReturn
