\* Three requests race on one issue, of every kind and of two tenants and a
\* token without tenant; one failure.  The system rests once every request is
\* answered or lost.
SPECIFICATION IssuesSpec
CONSTANTS
  r1 = r1
  r2 = r2
  r3 = r3
  i1 = i1
  i2 = i2
  t1 = t1
  t2 = t2
  v0 = v0
  v1 = v1
  v2 = v2
  None = None
  Request <- MCRequest
  IssueId <- MCIssueId
  Tenant <- MCTenant
  Field <- MCField
  Required <- MCRequired
  Told <- MCTold
  Value <- MCValue
  Tables <- MCTables
  Calls <- MCCalls
  MaxFaults = 1
SYMMETRY MCSymmetry
CHECK_DEADLOCK FALSE
INVARIANTS
  IssuesTypeOK
  NothingCrossesTenants
  NoStaleAnswer
  GoneIsGone
  EventsFollowClientOrder
  EventTellsWhatHappened
  NoChangeGoesUntold
PROPERTIES
  EveryChangeWasAskedFor
