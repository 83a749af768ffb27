SPECIFICATION SpecRelays
CONSTANTS
  c1 = c1
  c2 = c2
  u1 = u1
  u2 = u2
  a1 = a1
  a2 = a2
  a3 = a3
  None = None
  NoCmsg = NoCmsg
  Entries = {e1, e2}
  Csids = {c1, c2}
  Users = {u1, u2}
  UserOf <- TwoUsers
  Addrs = {a1, a2, a3, NoCmsg}
  Unparsable = {a3, NoCmsg}
  Capacity = 1
  MaxIov = 2
  BatchSize = 2
  Settings <- SessionSettings
INVARIANT
  PackerHasSessionsUser
