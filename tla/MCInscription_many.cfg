\* Several assets under a cap of two cells; two keys, which may be committed for several cells.
SPECIFICATION Spec
CONSTANTS
  adm = adm  ann = ann  bob = bob
  c1 = c1  c2 = c2  c3 = c3  c4 = c4
  app = app  otherApp = otherApp  net = net  otherNet = otherNet
  Accounts = {adm, ann}
  Unsignable = {}
  ZeroAddress = ZeroAddress
  NoAdmin = NoAdmin
  NoBox = NoBox
  Assets <- FourAssets
  AssetParams <- FourAssetsParams
  RoleChoices <- ClearedRoles
  Keys = {k1, k2}
  WellFormedKeys = {k1, k2}
  Artifacts = {h1}
  UriLengths = {0, 1}
  URI_MAXLEN = 1
  TOTAL_CELLS = 2
  Apps = {app}
  ThisApp = app
  Networks = {net}
  ThisNetwork = net
  MaxSigned = 2
INVARIANTS RegistryConsistent
PROPERTIES WriteOnce ImplementsRegistry
