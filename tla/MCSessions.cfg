SPECIFICATION Spec
CONSTANTS
  h1 = h1
  h2 = h2
  renewable = renewable
  spent = spent
  new = new
  Ids <- MCIds
  Handlers <- MCHandlers
  Second = 2
  AccessTTL = 1
  RefreshTTL = 2
  RememberTTL = 3
  WriteTimeout = 1
  MaxTime = 5
  LookupScans = TRUE
  QueriesFail = TRUE
  NoRow = NoRow
  stored <- OldSessions
  held <- OldTokens
INVARIANTS TypeOK AccessEndsWithSession AccessEndsWithUser TokensStayUsable
PROPERTY OverrunsLessThanSecond
SYMMETRY Symmetry
