\* Three requests of every kind by two users, one failure; no symmetry because
\* of the liveness property.  The system rests once every request has ended.
SPECIFICATION FairTenancySpec
CONSTANTS
  r1 = r1
  r2 = r2
  r3 = r3
  t1 = t1
  t2 = t2
  u1 = u1
  u2 = u2
  u3 = u3
  None = None
  Request <- MCRequest
  TenantId <- MCTenantId
  User <- MCUser
  Slug <- MCSlug
  Lower <- MCLower
  Calls <- MCCalls
  MaxFaults = 1
CHECK_DEADLOCK FALSE
INVARIANTS
  TenancyTypeOK
  EveryTenantIsOwned
  ConflictIsReal
  CreatorFindsTenant
  OutsidersSeeNothing
PROPERTIES
  MembershipIsGranted
  EveryRequestEnds
