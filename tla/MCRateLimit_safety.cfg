\* Three requests over two windows of two seconds, one fault.  The system
\* rests when time has ended and every request is decided.
SPECIFICATION RateLimitSpec
CONSTANTS
  r1 = r1
  r2 = r2
  r3 = r3
  c1 = c1
  c2 = c2
  t1 = t1
  Request <- MCRequest
  Client <- MCClient
  Tenant <- MCTenant
  Calls <- MCCalls
  Limit = 1
  Window = 2
  MaxNow = 3
  MaxFaults = 1
SYMMETRY MCSymmetry
CHECK_DEADLOCK FALSE
INVARIANTS
  RateLimitTypeOK
  AtMostLimitPass
  RefusedOnlyOverLimit
