SPECIFICATION Spec
CONSTANTS
  ann = ann
  bob = bob
  Absent = Absent
  Malformed = Malformed
  MaxInt = 15
  MaxPageSize = 4
  DefaultPageSize = 2
  Users <- MCUsers
  reader = ann
  MaxStored = 3
  MaxPosts = 3
  MaxTime = 3
  MaxChanges = 2
  Forms <- MCForms
  FollowRows <- MCFollowRows
  Queries <- MCQueries
INVARIANTS TypeOK NothingMissed NothingTwice
PROPERTIES PagesTile ReadingEndsWithFeed
