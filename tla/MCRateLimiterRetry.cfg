SPECIFICATION FairSpec
CONSTANTS
  Clients = {c1}
  Handlers = {h1, h2}
  limit = 2
  MaxSleepers = 2
PROPERTIES RetryAfterHonoured
