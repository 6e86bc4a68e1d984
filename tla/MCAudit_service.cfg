\* Two replicas, two messages of four kinds, which may carry one event_id, two
\* crashes or link losses; no symmetry because of the liveness property.  The
\* system rests once everything published is settled.
SPECIFICATION FairAuditSpec
CONSTANTS
  c1 = c1
  c2 = c2
  e1 = e1
  e2 = e2
  Replica <- MCReplica
  EventId <- MCEventId
  Message <- MCMessage
  Prefetch = 2
  MaxPublished = 2
  MaxFaults = 2
CHECK_DEADLOCK FALSE
INVARIANTS
  AuditTypeOK
  AckedIsRecorded
PROPERTIES
  ImplementsAuditLog
  EveryMessageSettled
