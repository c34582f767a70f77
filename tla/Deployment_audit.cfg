\* Expected to fail: a check that did not run reported as one that failed.
SPECIFICATION Spec
CONSTANTS
  Sources = {s1, s2}
  Targets = {12, 13}
  AVM_TARGET = 12
  Missing = Missing
  Garbled = Garbled
  BASE = 2
  HASH_LENGTH = 1
  DOMAIN_TAG <- OneBitTag
  FirstSource = s1
  EarlierApps <- LeftBefore
  MaxRuns = 1
  MaxCommits = 1
  Environments <- OneThingWrong
  AccountFunds = {12000, 25000}
  Grants = {10000, 20000}
  MaxGrants = 20000
  POLL_LIMIT = 2
  ArtifactHash <- ZeroHash
  GenesisOf <- TwoNetworks
INVARIANTS ExitOneMeansACheckFailed
CHECK_DEADLOCK FALSE
