SPECIFICATION FairSpec
CONSTANTS
  h1 = h1
  h2 = h2
  ann = ann
  Handlers <- MCHandlers
  Users <- MCUsers
  TTL = 2
  MaxDelay = 1
  CacheEnabled = TRUE
  RedisFails = TRUE
  QueriesFail = TRUE
  NoEntry = NoEntry
INVARIANTS TypeOK EntriesExpire
PROPERTIES ServedRecently CacheConverges
