\* Two containers of each service in turn, an upgrade by hand as often as somebody
\* likes, two failures; no symmetry because of the liveness property.
SPECIFICATION FairStartupSpec
CONSTANTS
  c1 = c1
  c2 = c2
  h1 = h1
  Container <- MCContainer
  Hand <- MCHand
  MaxFaults = 2
CHECK_DEADLOCK FALSE
INVARIANTS
  MigrationIsAtomic
  ServesWholeSchema
PROPERTIES
  StartingAgainIsEnough
