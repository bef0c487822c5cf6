\* One empty answer is enough for a consumer to stop waiting.
SPECIFICATION TestSpec
CONSTANTS
  p1 = p1
  p2 = p2
  a = a
  b = b
  Producers = {p1, p2}
  Consumers = {c1, c2}
  Threads = {p1, p2, c1, c2}
  Items = {a, b}
  Values <- OneValueEach
  Capacity = 2
  Ops = 1
  MaxEmpty = 1
  NULL = NULL
  OK = OK
  FULL = FULL
  SlotAddress = FALSE
INVARIANTS NoValueTwice EndsAllRead
PROPERTIES ProducersComplete SomeConsumerCompletes
