SPECIFICATION ServiceSpec
CONSTANTS
  None = None
  Absent = Absent
  PrivKey = {k1}
  Resource = {r1, r2}
  AskedRole = {"unknown", "public_read"}
  Max <- MCMax
  MaxOptions = 3
  MaxStarts = 3
  Rsc = {r1, r2}
  Listed = {"unknown", "public_read"}
  Managed = {"none", "admin"}
  Users = {"public_read", "admin"}
CHECK_DEADLOCK FALSE
INVARIANTS
  SavedWins
  OptionsArrive
  IdentityOrigin
  AnswerExplained
  ServersAgree
PROPERTIES
  StartApplies
