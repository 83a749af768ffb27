SPECIFICATION FairSpec
CONSTANTS
  Clients = {c1}
  Entries = {e1, e2}
  Sources = {s1}
  Capacity = 1
  MaxIov = 2
  BatchSize = 2
  Bad = Bad
  None = None
INVARIANTS
  NoPacketForgotten
  OnlyLiveSessionsHold
  StopWaitsForRelays
PROPERTY
  StopReturns
