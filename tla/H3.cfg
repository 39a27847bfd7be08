SPECIFICATION FairSpec
CONSTANTS
  None = None
  Default = "default_site"
  Clients = {"ann", "bob"}
  Cids = {"i", "j"}
  Scid <- MCScid
  SniTenant <- MCSniTenant
  MaxStreams = 2
INVARIANTS TenantsOfConns RequestsAccounted

PROPERTIES LoopReturns ClosedRemoved
