SPECIFICATION ReplaySpec
CONSTANTS
  BlockBits = 2
  RingBlocks = 4
  MaxCounter = 11
  Handlers = {h1, h2}
  Salts = {x, y}
  Skews <- ClockSkews
  Second = 2
  MaxEpochDiff = 1
  Retention = 4
  HandlerTicks = 1
  MaxTime = 10
INVARIANT
  RequestsAcceptedOnce
CHECK_DEADLOCK FALSE
