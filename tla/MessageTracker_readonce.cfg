\* As built: two readers, one message.
SPECIFICATION Spec
CONSTANTS
  Readers = {r1, r2}
  Senders = {s1}
  Blocks = {b1}
  Masks <- AllActive
  TextAt <- Overlapping
  MaxMessages = 1
  Slots = 1
  PoolAccepts = FALSE
  MaxTime = 0
  NULL = NULL
  Word = 8
INVARIANT ReadOnce
