\* Pools of up to four blocks, of each kind.
SPECIFICATION Spec
CONSTANTS
  PointerSize = 8
  RingSize = 24
  Word = 65536
  Sizes = {4, 7, 16, 20, 31, 48, 65, 72, 80, 96, 127, 128, 160}
  BlockSizes = {1, 8, 12, 16, 20, 24, 31, 32}
  MaxBlocks = 4
  NULL = NULL
INVARIANTS LayoutSound Accounted
PROPERTIES ImplementsAllocator
