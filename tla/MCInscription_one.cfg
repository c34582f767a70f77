\* One cell, every field of the signed message, two keys and a malformed one.
SPECIFICATION Spec
CONSTANTS
  adm = adm  ann = ann  bob = bob
  c1 = c1  c2 = c2  c3 = c3  c4 = c4
  app = app  otherApp = otherApp  net = net  otherNet = otherNet
  Accounts = {adm, ann, bob}
  Unsignable = {burn}
  ZeroAddress = ZeroAddress
  NoAdmin = NoAdmin
  NoBox = NoBox
  Assets <- OneCell
  AssetParams <- OneCellParams
  RoleChoices <- AllRoles
  Keys = {k1, k2, malformed}
  WellFormedKeys = {k1, k2}
  Artifacts = {h1, h2}
  UriLengths = {1, 2}
  URI_MAXLEN = 1
  TOTAL_CELLS = 1
  Apps = {app, otherApp}
  ThisApp = app
  Networks = {net, otherNet}
  ThisNetwork = net
  MaxSigned = 2
INVARIANTS TypeOK InscriptionsAreAuthorised OwnerFrozenAtInscription CellsStayWellFormed
PROPERTIES ControlMovesFromTheHand
