SPECIFICATION FairSpec
CONSTANTS
  a1 = a1
  a2 = a2
  old = old
  c1 = c1
  c2 = c2
  ann = ann
  bob = bob
  cid = cid
  Accounts <- MCAccountSet
  Clients <- MCClients
  email <- MCEmail
  username <- MCUsername
  seeded = {old}
  maxRetries = 3
  MaxCrashes = 1
  CreateParses = TRUE
  QueriesFail = TRUE
INVARIANTS TypeOK InvitationsAreUseful StrandedOnlyByFault ToldIsKept
PROPERTIES ActiveIsKept RegistrationSettles
