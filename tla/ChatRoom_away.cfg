\* A client is interrupted and its user away for more than a minute.
SPECIFICATION Spec
CONSTANTS
  c1 = c1
  c2 = c2
  ann = ann
  bob = bob
  Clients = {c1, c2}
  Server = server
  Nicks <- OneOrTwoNames
  ServerName = Server
  Participants = 3
  Entries = 1
  Timeout = 1
  Word = 8
  NULL = NULL
  MaxTime = 2
  MaxJoining = 1
  Quick = TRUE
  Slow = {c1}
INVARIANT CountIsActive
CHECK_DEADLOCK FALSE
