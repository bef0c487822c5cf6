\* Two readers and the pool the chat room is built with, which takes no block back.
SPECIFICATION FairSpec
CONSTANTS
  Readers = {r1, r2}
  Senders = {s1}
  Blocks = {b1, b2}
  Masks <- AllActive
  TextAt <- Overlapping
  MaxMessages = 2
  Slots = 2
  PoolAccepts = FALSE
  MaxTime = 0
  NULL = NULL
  Word = 8
INVARIANTS UnreadStaysVisible ReadBeforeFree
PROPERTY ReadEventually
