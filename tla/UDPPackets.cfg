SPECIFICATION SpecPackets
CONSTANTS
  Servers <- MCServers
  Clients <- MCClients
  MTUs = {1280, 1500, 70000}
  AddrLens = {7, 19, 259}
  MaxAddrLen = 259
  IPv6AddrLen = 19
  Paddings = {0, 1, 900, 1150, 65535, 65536}
  Payloads = {0, 1, 1200, 1225, 1226, 1472}
  BlockBits = 1
  RingBlocks = 2
  s1 = s1
  s2 = s2
  s3 = s3
  f1 = f1
  Sessions = {s1, s2, s3, f1}
  ForeignSessions = {f1}
  NoSession = NoSession
  MaxSpid = 1
  MaxPackets = 4
  CallTicks = 1
  Minute = 2
  ClientSessions = {1}
  MaxCpid = 2
  MaxTime = 5
  Skews <- Ahead
  Second = 1
  MaxEpochDiff = 1
  NatTimeout = 2
  SendChannelCapacity = 2
SYMMETRY Symmetry
INVARIANTS
  InBounds
  KeepsLimit
  RefusedOnlyForSize
  PeerUnpacks
  
  SessionsRemembered
  ForgottenPacketsExpired
  NeverDeliveredTwice
CHECK_DEADLOCK FALSE
