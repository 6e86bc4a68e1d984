\* Two logins or signups, one creation of a tenant and three requests for projects,
\* by two users; one failure in one of the services.  The system rests once every
\* request has ended.  No liveness is checked, so the symmetry is sound.
SPECIFICATION WorkspaceSpec
CONSTANTS
  a1 = a1
  a2 = a2
  r1 = r1
  p1 = p1
  p2 = p2
  p3 = p3
  t1 = t1
  i1 = i1
  i2 = i2
  u1 = u1
  u2 = u2
  pw = pw
  pv = pv
  None = None
  AuthRequest <- MCAuthRequest
  Request <- MCRequest
  ProjectRequest <- MCProjectRequest
  TenantId <- MCTenantId
  ProjectId <- MCProjectId
  User <- MCUser
  Slug <- MCSlug
  Lower <- MCLower
  Address <- MCAddress
  LowerAddress <- MCLowerAddress
  Password <- MCPassword
  Key <- MCKey
  Upper <- MCUpper
  FirstUsers <- MCFirstUsers
  Forms <- MCForms
  Calls <- MCCalls
  Wants <- MCWants
  MaxFaults = 1
CONSTRAINT MCProjectsLast
SYMMETRY MCSymmetry
CHECK_DEADLOCK FALSE
INVARIANTS
  WorkspaceTypeOK
  TokenTellsTheTruth
  NobodyIsLockedOut
  KeyConflictIsReal
  ProjectLastsUntilDeleted
  OnlyMembersAct
