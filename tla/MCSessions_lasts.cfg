\* services/auth/app/routes.py:81 read as an action property; Redis is healthy.
SPECIFICATION SessionsSpec
CONSTANTS
  r1 = r1
  r2 = r2
  r3 = r3
  k1 = k1
  k2 = k2
  u1 = u1
  None = None
  Request <- MCFewRequests
  Token <- MCOneToken
  User <- MCUser
  Tick = 2
  Lifetime = 2
  MaxNow = 6
  FaultKind = {}
  MaxFaults = 0
CHECK_DEADLOCK FALSE
PROPERTIES
  EntryLastsAsLongAsTheToken
