\* Two sessions of one user, three requests, one failure of Redis; time ends
\* with the last second the first tokens are valid in.  The system rests when
\* time has ended and every request is answered.
SPECIFICATION SessionsSpec
CONSTANTS
  r1 = r1
  r2 = r2
  r3 = r3
  k1 = k1
  k2 = k2
  u1 = u1
  None = None
  Request <- MCRequest
  Token <- MCToken
  User <- MCUser
  Tick = 2
  Lifetime = 2
  MaxNow = 5
  FaultKind = {"outage", "restart"}
  MaxFaults = 1
CHECK_DEADLOCK FALSE
SYMMETRY MCSymmetry
INVARIANTS
  SessionsTypeOK
PROPERTIES
  RevokedUntilTheLastSecond
