SPECIFICATION AccountsSpec
CONSTANTS
  u1 = u1
  u2 = u2
  r1 = r1
  Users <- MCUsers
  FirstAdmin = u1
  Roles = {"viewer", "admin"}
  Requests <- MCRequests
PROPERTY DisableTakesEffect
CHECK_DEADLOCK FALSE
