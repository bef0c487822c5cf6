\* Gets answer the address of the slot.  One item is enough, and no symmetry:
\* which item is stored never decides a step, and liveness is checked.
SPECIFICATION FairSpec
CONSTANTS
  Threads = {t1, t2, t3}
  Items = {a}
  Capacity = 2
  NULL = NULL
  OK = OK
  FULL = FULL
  SlotAddress = TRUE
PROPERTY LocksReleased
