SPECIFICATION FairSpec
CONSTANTS
  c1 = c1
  c2 = c2
  r1 = r1
  r2 = r2
  r3 = r3
  q1 = q1
  Nobody = Nobody
  Conns <- MCConns
  Registrations <- MCRegistrations
  Others <- MCOthers
INVARIANTS TypeOK NoLeak StallNeedsFullPool
PROPERTY EverybodyEnds
