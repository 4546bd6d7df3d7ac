SPECIFICATION Spec
CONSTANTS
  h1 = h1
  h2 = h2
  ann = ann
  Handlers <- MCHandlers
  Users <- MCUsers
  TTL = 2
  MaxDelay = 1
  CacheEnabled = TRUE
  RedisFails = TRUE
  QueriesFail = FALSE
  NoEntry = NoEntry
PROPERTY CacheErrorTriesDatabase
