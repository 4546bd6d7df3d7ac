SPECIFICATION Spec
CONSTANTS
  author = author
  moderator = moderator
  admin = admin
  r1 = r1
  r2 = r2
  r3 = r3
  v1 = v1
  v2 = v2
  Requests <- MCRequests
  Users <- MCUsers
  Values <- MCValues
  MaxPosts = 2
  caller <- MCCaller
  level <- MCLevel
  form <- MCForm
  NoRow = NoRow
  Absent = Absent
  stored <- MCStored
  firstFree = 2
INVARIANT StoredPostIsReadable
