\* All may register at one time, and none is quick; every message is refused.
SPECIFICATION Spec
CONSTANTS
  c1 = c1
  c2 = c2
  ann = ann
  bob = bob
  Clients = {c1, c2}
  Server = server
  Nicks <- OneOrTwoNames
  ServerName = Server
  Participants = 3
  Entries = 0
  Timeout = 1
  Word = 8
  NULL = NULL
  MaxTime = 1
  MaxJoining = 3
  Quick = FALSE
  Slow = {}
INVARIANTS Seated NamesApart 
CHECK_DEADLOCK FALSE
