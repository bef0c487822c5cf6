\* One client, three starts of the server, every failure and every kill.
SPECIFICATION Spec
CONSTANTS
  Clients = {c1}
  MaxRuns = 3
CHECK_DEADLOCK FALSE
INVARIANTS TypeOK SegmentsTogether JoinedReady NamesGone OnlyPoolLeft
