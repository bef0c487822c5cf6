\* Two clients, one place for them, two messages; a client may die and be found out.
SPECIFICATION FairSpec
CONSTANTS
  c1 = c1
  c2 = c2
  ann = ann
  bob = bob
  Clients = {c1, c2}
  Server = server
  Nicks <- OneOrTwoNames
  ServerName = Server
  Participants = 2
  Entries = 2
  Timeout = 1
  Word = 8
  NULL = NULL
  MaxTime = 2
  MaxJoining = 1
  Quick = TRUE
  Slow = {}
INVARIANT TypeOK
PROPERTIES Delivered DeadRemoved
CHECK_DEADLOCK FALSE
