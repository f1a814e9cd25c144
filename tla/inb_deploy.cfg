SPECIFICATION FairSpec
CONSTANTS
  Deployers = {w1}
  Accounts = {"a1"}
  CfAccounts = {"k1"}
  Zones = {"z1", "z2"}
  Names = {"n1", "n2"}
  Home <- OneRow
  ZoneHome <- TwoZonesHome
  NameOf <- TwoNames
  Secrets = {s1, s2, s3, s4}
  Global = Global
  None = None
  Faults = {"refused", "lost", "crash"}
  WireBound = 2
INVARIANTS TypeOK EntriesVerify SignedMailVerifies
PROPERTIES CatchAllComesLast DeployDelivers
CHECK_DEADLOCK FALSE
