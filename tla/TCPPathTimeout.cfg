SPECIFICATION SpecPath
CONSTANTS
  NumBytes <- ThreeAndNone
  MinReads = {0, 3}
  MaxWrites = {0, 2}
  DefaultBufferSize = 2
  Conns = {k1}
  ClientBytes = 3
  PayloadBufSize = 2
  Configs <- AllConfigs
  NumIn = 4
  NumOut = 4
  ReadBufSize = 3
  WriteBufSize = 2
  MaxCall = 3
  N = 2
  NumRequests = 2
  UDP = {2}
  Sessions = {s1, s2}
  PSKs = {"u1", "u2"}
  Users = {"u1"}
  MaxPayloadSize = 6
  AddrLens = {2}
  MaxPaddingLength = 2
  InitialPayloads = {0, 1, 9}
  MaxSent = 2
  MaxFaults = 1
INVARIANT
  OnlyClientBytes
