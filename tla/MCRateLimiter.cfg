SPECIFICATION FairSpec
CONSTANTS
  Clients = {c1, c2}
  Handlers = {h1, h2, h3}
  limit = 2
  MaxSleepers = 3
INVARIANTS TypeOK OvershootBound OvershootReserve
PROPERTIES OrphanOnlyByStaleRead ScheduledClientReadmitted
