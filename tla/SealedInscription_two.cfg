\* Two writers on one seal file, against its single-writer assumption, and power losses, which stop both.
SPECIFICATION SystemSpec
CONSTANTS
  c1 = c1  c2 = c2  k0 = k0  k1 = k1  k2 = k2
  Callers = {p1, p2}
  Cells <- TwoCells
  MaxCalls = 2
  Faults = {"powerloss"}
  SealKey <- FreshKeys
  Accounts = {adm}
  Unsignable = {}
  ZeroAddress = ZeroAddress
  NoAdmin = NoAdmin
  NoBox = NoBox
  AssetParams <- Nfts
  RoleChoices <- ClearedRoles
  Keys = {k0, k1, k2}
  WellFormedKeys = {k0, k1, k2}
  Artifacts = {h1, h2}
  UriLengths = {0}
  URI_MAXLEN = 0
  TOTAL_CELLS = 2
  Apps = {app}
  ThisApp = app
  Networks = {net}
  ThisNetwork = net
  MaxSigned = 1
SYMMETRY Alike
INVARIANTS SealedKeySignsOnce RegistrationDecides
CHECK_DEADLOCK FALSE
