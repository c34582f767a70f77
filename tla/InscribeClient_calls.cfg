\* Two calls against a network that delays, drops and misreports, with failing reads.
SPECIFICATION FairClientSpec
CONSTANTS
  adm = adm  ann = ann  c1 = c1
  Accounts = {adm, ann}
  Unsignable = {burn}
  ZeroAddress = ZeroAddress
  NoAdmin = NoAdmin
  NoBox = NoBox
  Assets <- OneCell
  AssetParams <- OneCellParams
  RoleChoices <- ClearedRoles
  Keys = {k1, k2}
  WellFormedKeys = {k1, k2}
  Artifacts = {h1, h2}
  UriLengths = {0}
  URI_MAXLEN = 1
  TOTAL_CELLS = 1
  Apps = {app}
  ThisApp = app
  Networks = {net}
  ThisNetwork = net
  MaxSigned = 2
  Deployer = adm
  TheCell = c1
  TheKey = k1
  MaxCalls = 2
  ReadsCanFail = TRUE
INVARIANTS ClientTypeOK SuccessMeansInscribed AtMostOneLands FailureOnlyWhenLate
PROPERTIES EveryCallEnds
