SPECIFICATION Spec
CONSTANTS
  r1 = r1
  r2 = r2
  r3 = r3
  ann = ann
  bob = bob
  Requests <- MCRequests
  Users <- MCUsers
  caller <- MCCaller
  path <- MCPath
  Pending = {bob}
INVARIANTS TypeOK RowsHaveUsers AnswersBalance
PROPERTY RefinesGraph
