SPECIFICATION SpecRelays
CONSTANTS
  c1 = c1
  c2 = c2
  u1 = u1
  u2 = u2
  a1 = a1
  a2 = a2
  a3 = a3
  None = None
  NoCmsg = NoCmsg
  Entries = {e1, e2}
  Csids = {c1, c2}
  Users = {u1}
  UserOf <- OneUser
  Addrs = {a1, a2, a3, NoCmsg}
  Unparsable = {a3, NoCmsg}
  Capacity = 2
  MaxIov = 2
  BatchSize = 2
  Settings <- AllSettings
SYMMETRY Symmetry
INVARIANTS
  RelaysTypeOK
  EveryPacketAccountedFor
  TableIsExact
  NothingUsedAfterRelease
  StopWaitsForRelays
  RepliesGoToTheClient
