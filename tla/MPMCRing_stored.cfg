\* Gets answer the stored pointer.  Three threads on a ring of two slots: every
\* pair of operations meets with a third one in flight, and the indices wrap.
SPECIFICATION Spec
CONSTANTS
  Threads = {t1, t2, t3}
  Items = {a, b}
  Capacity = 2
  NULL = NULL
  OK = OK
  FULL = FULL
  SlotAddress = FALSE
SYMMETRY Symmetry
INVARIANTS TypeOK MutualExclusion NoSlotRace RingHoldsQueue GetTakesOldest
PROPERTY ImplementsQueue
