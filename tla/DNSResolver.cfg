SPECIFICATION FairSpec
CONSTANTS
  l1 = l1
  l2 = l2
  example = example
  Lookups = {l1, l2}
  Names = {example}
  NameOf <- SameName
  Settings <- MCSettings
  Iterations = 3
  MaxTTL = 5
  MaxTime = 1
  None = None
INVARIANTS
  OneReplyPerQuery
  SendersToldOnce
PROPERTIES
  CacheHitsAreFresh
  LookupReturns
