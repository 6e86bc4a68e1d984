\* services/notifications/README.md:144 read as an invariant.
SPECIFICATION AuditSpec
CONSTANTS
  c1 = c1
  c2 = c2
  e1 = e1
  e2 = e2
  Replica <- MCReplica
  EventId <- MCEventId
  Message <- MCMessage
  Prefetch = 2
  MaxPublished = 2
  MaxFaults = 1
CHECK_DEADLOCK FALSE
INVARIANTS
  RetriedUntilAcked
