SPECIFICATION Spec
CONSTANTS
  None = None
  u1 = u1
  u2 = u2
  r1 = r1
  r2 = r2
  r3 = r3
  r4 = r4
  Users <- MCUsers
  Requests <- MCRequests
  Values <- MCValues
  Value <- MCValue
  Flows <- MCFlows
SYMMETRY Alike
INVARIANTS
  DeadStaysDead
  DeletedByUse
  ProcessedOnce
CHECK_DEADLOCK FALSE
