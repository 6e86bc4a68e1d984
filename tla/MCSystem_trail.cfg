\* Two writing requests of two tenants, audit-service as docker-compose starts
\* it, one failure of each service; no symmetry because of the liveness property.  The
\* system rests once the requests are answered or lost and the queue is drained.
SPECIFICATION FairSystemSpec
CONSTANTS
  r1 = r1
  r2 = r2
  i1 = i1
  i2 = i2
  t1 = t1
  t2 = t2
  v0 = v0
  v1 = v1
  c1 = c1
  None = None
  Request <- MCRequest
  IssueId <- MCIssueId
  Tenant <- MCTenant
  Field <- MCField
  Required <- MCField
  Told <- MCField
  Value <- MCValue
  Tables <- MCTables
  Calls <- MCCalls
  MaxFaults = 1
  Replica <- MCReplica
  Prefetch = 2
  MaxAuditFaults = 1
CHECK_DEADLOCK FALSE
INVARIANTS
  TrailFollowsClientOrder
PROPERTIES
  ImplementsJournal
  AcknowledgedIsRecorded
