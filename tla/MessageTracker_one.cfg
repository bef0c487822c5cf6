\* One reader, two senders, and a pool that takes blocks back.
SPECIFICATION FairSpec
CONSTANTS
  Readers = {r1}
  Senders = {s1, s2}
  Blocks = {b1, b2, b3}
  Masks <- AllActive
  TextAt <- Apart
  MaxMessages = 3
  Slots = 2
  PoolAccepts = TRUE
  MaxTime = 1
  NULL = NULL
  Word = 8
INVARIANTS TypeOK CountExact ReadOnce BlocksUnshared TextIntact
PROPERTIES ReadEventually FreedEventually
