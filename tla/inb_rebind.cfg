SPECIFICATION Spec
CONSTANTS
  Deployers = {w1}
  Accounts = {"a1", "a2"}
  CfAccounts = {"k1"}
  Zones = {"z1"}
  Names = {"n1"}
  Home <- BoundTwice
  ZoneHome <- OneZoneHome
  NameOf <- OneName
  Secrets = {s1, s2}
  Global = Global
  None = None
  Faults = {}
  WireBound = 0
INVARIANTS EntriesVerify
CHECK_DEADLOCK FALSE
