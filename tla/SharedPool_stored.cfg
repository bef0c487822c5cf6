\* Stored pointers, one address; three processes, each of which
\* may reset while the others go on and free what they had before.
SPECIFICATION Spec
CONSTANTS
  Procs = {p1, p2, p3}
  Creator = p1
  NumBlocks = 2
  Base <- OneAddress
  Resetters = {p1, p2, p3}
  SlotAddress = FALSE
INVARIANTS TypeOK Accounted FreesTaken ResetFits
PROPERTY ImplementsShared
