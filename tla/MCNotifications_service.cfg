\* Two replicas, two messages of four kinds, two faults; no symmetry because of
\* the liveness property.  The system rests once everything published is settled.
SPECIFICATION FairNotificationsSpec
CONSTANTS
  c1 = c1
  c2 = c2
  Replica <- MCReplica
  Message <- MCMessage
  Prefetch = 2
  MaxPublished = 2
  MaxFaults = 2
CHECK_DEADLOCK FALSE
INVARIANTS
  NotificationsTypeOK
  CopiesCostFaults
  SettledWasTried
PROPERTIES
  EveryMessageSettled
