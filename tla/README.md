# A verification of advance_memory_mngmnt

TLA+ modules, model-checking runs and proofs for the shared-memory programs of
this repository: a ring buffer that many threads and processes share, the block
pool built on it, and the chat room built on both.

## 1. The system

The repository is a course in directories 00 to 06. Each builds on the one
before; several hold an exercise and its solution. The top `CMakeLists.txt` builds
`03_ring_buffers_mempool_imp`, `04_shared_mempool` and `05_chat_room`.

| component | code | state | operations |
|---|---|---|---|
| MPMC ring buffer | `04_shared_mempool/ring_buffer.c` | `head`, `tail`, `count` (atomic), `producer_lock`, `consumer_lock` (spinlock words), `buffer[]` (plain memory) | `put`, `get`, `reset`; `is_empty`, `is_full`, `count` only read |
| the same, earlier | `04_shared_mempool_old_imp/ring_buffer.c` | as above, with a pointer to the slots instead of an array in place | as above; `get` answers the stored pointer |
| shared memory pool | `04_shared_mempool/mempool_ring.c` | one segment: ring of pointers to free blocks, then the blocks; per process: where it is mapped, whether it owns the memory | `init`, `init_shared` (create or attach), `alloc`, `free`, `reset`, `destroy` |
| ring and pool tests | `04_shared_mempool/mempool_test.c` | producers, consumers, forked children | the loops around the calls |
| chat message tracker | `05_chat_room/message_tracker.c` | 100 entries (block, reference count, mask of those who have yet to read, time), `count`, `next_index`, `tracker_lock` | `add_message`, `get_next_unread`, `get_message`, `mark_read`, `try_free_message`, `reset` |
| participants directory | `05_chat_room/shm_manager.c` | 32 entries (pid, name, status, last active time), `count`; no lock | join, leave, time out, active mask, list |
| shared memory lifecycle | `05_chat_room/shm_manager.c` | four named segments, the static pointers of each process | `init_chat_server`, `cleanup_chat_server`, `join_chat_client`, `leave_chat` |
| chat programs | `05_chat_room/chat_client.c`, `chat_server.c` | `running`, the reading thread | send on input, poll every 100 ms, time out others (server) |
| chat room, earlier | `05_chat_room_old_imp/` | one ring of messages | superseded, not built |
| sequential ring and pool | `02_*`, `03_*_imp`, `03_*_imp_old` | ring and blocks of one thread | put, get, alloc, free, reset |
| exercise skeleton | `03_ring_buffers_mempool` | none: bodies left for the student | |
| status-byte pool | `00_memory_pool`, `01_memory_pool_imp` | one byte per block | first-fit alloc, free |
| pointer validation | `06_pointer_validation` | none | forks a child that touches the memory |

**How they interact.** The pool calls the ring with the addresses of its blocks;
ring and blocks are in one shared segment and any process that maps it may call.
A sender in the chat room allocates a block, fills it and adds it to the tracker
with a mask of the participants then active; each participant's polling loop scans
the tracker for its bit, hands the block to a callback, clears the bit, decrements
the reference count and, when that is 0, frees the block and clears the entry.
Nothing sends a signal to anybody: all interaction is through shared memory.

**What is hard about it.** Producers and consumers of the ring use different
locks, so what keeps them apart is the order of plain and atomic accesses.
`ring_buffer_reset` takes both locks. `memory_pool_reset` is many ring operations
with no lock around them. The tracker's readers take no lock at all until they free.
The spinlocks know no owner. The tests run each interleaving they happen to get.
`PROJECT.json` lists every hazard at its line.

**What makes each component correct.** The ring: a bounded FIFO queue, each call
taking effect at one instant. The pool: each block free, held once, or lost with
a process that left, and `free` takes what `alloc` gave. The tracker: every
participant of a message's mask is given it exactly once, it is freed after that
and not before, its text is the one that was sent, and its entry is used again. The
directory: one participant per slot, a count that agrees with the statuses, no live
participant timed out. The lifecycle: a client never sees a segment that is not set
up, and a failure undoes what was done. Not all of this is so; sections 3 and 4 say
what is, and where it ends.

## 2. Modules

| module | models | state and actions |
|---|---|---|
| `BoundedQueue` | what `ring_buffer.h` promises | a sequence; begin, take effect, end of `put`, `get`, `reset` |
| `MPMCRing` | `04_shared_mempool/ring_buffer.c` | one variable per field, one program counter and set of locals per thread; **one action per access** to the shared structure (`PutFast`: the unlocked check; `PutLock`; `PutCheck`: the check again; `PutLoad`, `PutWrite`, `PutTail`, `PutCount`, `PutUnlock`; likewise for get and reset) |
| `MPMCTest` | `test_mpmc_ring_buffer` | extends `MPMCRing`: the producers' and consumers' loops decide which calls are made |
| `SharedPool` | `04_shared_mempool/mempool_ring.c` over a ring whose calls are atomic | the ring's contents and read index, what each process holds, also over a reset, whether its structure knows the segment's name; `Attach`, `Alloc`, `Free`, `ResetRing` and `ResetPut` (one pass of the loop), `Destroy` |
| `SharedAllocator` | what `04_shared_mempool/mempool_ring.h` promises of a pool to several processes | which blocks are free, which each caller has, which went with a caller that left, and of which nothing is promised (`void`); alloc, free, a reset that takes all blocks that are not in use and returns them one by one, destroy |
| `PoolLayout` | the arithmetic of every `memory_pool_init` | operators: how many blocks, where the first begins, which sizes are accepted; 32-bit differences are taken modulo `Word` |
| `Allocator` | what `mempool_ring.h` and `mem_pool.h` promise of a pool | the blocks, those in use, the last answer; alloc, free, reset |
| `LocalPool` | the pools of one process: `01_memory_pool_imp`, `03_ring_buffers_mempool_imp`, `..._imp_old` | extends `PoolLayout`: the sequential ring or the status bytes, what the caller holds; one action per outcome of each call |
| `MessageTracker` | `message_tracker.c` with `send_message` and `process_new_messages` | one variable per field of the entries, locals and program counter per thread, the pool as a sequence of free blocks, whose text is in each word (`text`); one action per access outside the lock |
| `ChatRoom` | the participants directory, `chat_client.c`, `chat_server.c` | `status`, `who`, `last`, `count` as in the directory, a main thread and a reading thread per process, a clock; **one action per access** to a field of the directory, one for a search of the table |
| `ChatLifecycle` | `init_chat_server`, `cleanup_chat_server`, `join_chat_client` on the four segments | what each name stands for, how far each segment is set up, what each process has mapped; one action per system call, its failure, and kills |
| `MPMCRing_proofs`, `MPMCTest_proofs`, `SharedPool_proofs`, `LocalPool_proofs`, `MessageTracker_proofs`, `ChatRoom_proofs`, `ChatLifecycle_proofs` | | theorems, section 4 |
| `MC...` | | constants for TLC |

**Composition.** `MPMCTest` composes the test with the ring action by action.
`SharedPool` composes with the ring through its abstraction: `MPMCRing` implements
`BoundedQueue`, so the pool may take a ring call as one step; the pool in turn implements
`SharedAllocator`, with the indices of the blocks in the ring as the free ones. `LocalPool` puts the
layout, the ring or the bytes, and the caller together, and implements `Allocator`
(with `blocks <- Blocks`): whatever answer a pool gives, the allocator could have
given. `MessageTracker` takes from `SharedPool` one fact, as the constant
`PoolAccepts`: whether `memory_pool_free` takes back a block that
`memory_pool_alloc` gave (theorems `TakenBack` and `NoneTakenBack` say when it does). Its
constant `TextAt` says which words a text takes from its block on: words of its own, or, for
the addresses of ring slots, words that the next text takes too. `ChatRoom` composes the directory with both programs and
with the tracker as a sequence of messages, each with the set of places that have
yet to read it: a mask is computed from the directory in one step (`Mask`) and added in
a later one (`Add`), with anything in between.
It starts where `ChatLifecycle` has a server at `Register`: segments mapped and
cleared, slot 0 about to be taken.

**Two versions, one parameter.** `ring_buffer_get` of `04_shared_mempool` answers
`&rb->buffer[head]`, the address of the slot (`ring_buffer.c:121`), although
`ring_buffer.h:52` speaks of a pointer from the buffer and `mempool_test.c:94` compares
it with what was put; that of `04_shared_mempool_old_imp` answers what the slot holds. The
control flow is otherwise the same, so `MPMCRing` and `SharedPool` have a constant
`SlotAddress`. It runs through everything above the ring: with `SlotAddress = TRUE` the
pool hands out addresses of ring slots, eight bytes apart and below the blocks, and
refuses them when they come back. In the same way the variable `kind` of `LocalPool`
selects one of three layouts: "flexible" is also that of `04_shared_mempool`, "array"
that of `04_shared_mempool_old_imp`.

**History variables.** `fifo` in `MPMCRing` (the items put and not taken) changes
where the count changes; `holds`, `sent`, `due`, `got` in `MessageTracker` number the
messages and record who was due and given each; `due` in a message of `ChatRoom` is
who was a member when the mask was computed. In `MessageTracker`, `carries` is the message
last sent through a block, and `text` the one whose text was last written to a word. `met` and `robbed` in `ChatRoom`
record who registered while another did, and who shares its place with another or had it
cleared by the server's check; `stale` in `SharedPool` has the blocks that the last reset
found in use or in another reset's hands. `used` and `answer` in `LocalPool` are the
caller's. No guard reads them, but for `sent`, which carries the bound on messages,
`used`, from which the caller takes the pointers it frees, and `stale`, without which a
caller cannot have been given the same pointer twice (`Free`).

**What the models abstract.** Items, blocks, names and messages are model values or
numbers. A spinlock is taken when its word is 0: the failed exchanges of the loop
change nothing, and its `nanosleep` is time the model does not count. The atomics of
the code are sequentially consistent, as its `atomic_*` calls without an order
argument are. In `MessageTracker` the scan's look at one entry (pointer, mask, time)
is one action; its outcome is looked at again field by field by the calls that
follow, so a stale look shows there. In `ChatRoom` a search of the table is one
action, and a poll reads at once all there is to read: in the tracker as built
entries are never used again (theorem `EntriesUsedOnce`), so what one participant reads
does not change what another will. A text is the number of its message in each word it takes. Addresses of `LocalPool` are
byte offsets, and its bytes and slots are those of the code.

## 3. Runs

Violation runs check one sentence of the repository that the code does not keep.

| run | question | answer |
|---|---|---|
| `ring_stored` | Do three threads that put, get and reset in any interleaving keep the ring a queue? | Yes: `MutualExclusion`, `NoSlotRace`, `RingHoldsQueue` hold, a get hands out the older of two different items (`GetTakesOldest`), and the ring implements `BoundedQueue` (`ImplementsQueue`, with `phase` and `res` as the refinement mapping). |
| `ring_locks` | With calls that never stop coming, is a lock that is taken always given back? | Yes. A reset that holds the producer lock while it waits for consumers is not overtaken for ever: with producers kept out the ring runs empty, and an empty ring turns consumers away before the lock. |
| `mpmc_test` | Does the MPMC test deliver each value once, and do its threads complete? | Values are never delivered twice; if everything joins, all was read and shared out evenly; producers and at least one consumer complete. Not every consumer does: the loop condition at `mempool_test.c:314` is a disjunction, and a consumer that got fewer than its share polls an empty ring for ever. |
| `pool_stored` | Three processes allocate, free, come and go and reset, all of them at any time: what does the pool still promise? | With stored pointers and one mapping address, what `SharedAllocator` says (`ImplementsShared`): of the blocks that somebody had, or that another reset was putting back, when the last reset began, nothing; and what becomes of those takes no other block from anybody. While there are none (`stale = {}`), each block is in one place (`Accounted`), every free is taken (`FreesTaken`) and a reset finds room (`ResetFits`). |
| `tracker_one` | Two senders, one reader, a pool that takes blocks back: is the tracker right? | Yes: `count` exact, each message read once and with its own text (`TextIntact`), blocks never shared, all read and freed, entries reused. |
| `tracker_built` | Two readers with the pool that is linked: is every message's block handed to both? | Yes: whatever their unlocked read-modify-writes of the mask do to each other, a bit is cleared only for who has been handed the block (`UnreadStaysVisible`), and no free is tried before both have (`ReadBeforeFree`). The text in it is another matter, see below. |
| `tracker_readonce` | Is a message marked as read not given again? | No: the other reader's store puts the bit back. |
| `chat_room` | Clients come, speak, are interrupted or killed and leave, and one takes the other's place: does a message reach those it was meant for? | Yes, unless they go (`Delivered`), although the mask is older than the entry it is stored in; and the dead lose their places (`DeadRemoved`). One process registers at a time. |
| `chat_races` | The server and two clients register at any time, seconds begin anywhere, and the server disconnects the silent: what do places, names and count still say? | Whoever takes part has an active place of its own unless another one that registered found it free as well or the check took it away (`Seated`); two with one name registered at the same time, or one of them has lost its place (`NamesApart`); and until one of those things happens `count` is exact (`CountKept`). |
| `chat_away` | Is `count` the "number of active participants" if a user is slow after Ctrl+C? | No: the reading thread is gone, the server disconnects the client and decrements the count, and `leave_chat` decrements it again. |
| `chat_lifecycle` | Servers start, fail at any call, are killed and start again while a client joins: does it end up with segments that belong together and are set up? | Yes, if its directory is the latest server's (`SegmentsTogether`) and all its segments are one server's (`JoinedReady`, the tracker excepted). A closed server leaves no name, and a failed one no pool that is not set up (`NamesGone`); a client's failed call leaves nothing mapped, a server at most its pool (`OnlyPoolLeft`). A failed start does leave the pool, see below. |
| `local_pools` | Do all three local pools, over sizes around every boundary of their arithmetic, behave as an allocator? | Yes: `LayoutSound`, `Accounted`, `ImplementsAllocator`. |

**What limits the good news.** Where TLC is named or a property said to fail, it was
seen with the same module and other constants, or without the property's condition.

- In `04_shared_mempool` as it is linked, `free` takes back nothing that `alloc` gave
  (theorem `NoneTakenBack`): a slot's address lies below `pool_start` and is refused at
  `mempool_ring.c:211`, although `mempool_test.c:176` and `:383` assert the opposite. Every
  other run of the pool is about stored pointers.
- A reset tells nobody. Callers keep their pointers, and one that frees its block while
  the reset refills the ring, or any time later, puts it there a second time
  (`mempool_ring.c:211-223`). The reset's last put may then find the ring full, which the comment
  at `:272` says shouldn't happen, a later free may be refused, and the block is handed out
  twice. So `FreesTaken` and `ResetFits` have the condition `stale = {}`: without it TLC finds both
  with one process that resets. Two resets at once interleave their loops with the same effect.
  `Free` is made by whoever was given the pointer and not given it back, through the structure
  it was given by: not a second time, and not after `memory_pool_destroy`.
- `tracker_built` says that the block is handed over, not what is in it. Its blocks are
  addresses of ring slots, eight bytes apart (`ring_buffer.c:121`), and `send_message` writes
  the text through them (`shm_manager.c:423-425`): a text of eight characters or more takes bytes of
  the next one's, so that a second message written before the first is read replaces the first
  one's text from its ninth character on. With `TextAt <- Overlapping`, `TextIntact`
  fails after two sends. `tracker_one` has blocks that are apart.
- `tracker_built` rests on entries never being used again, which is true only because
  nothing is ever freed: the pool refuses the block at `message_tracker.c:213`, the entry is
  never cleared, and after 100 messages every send fails. With three messages, two
  entries and a pool that takes blocks back, `UnreadStaysVisible` fails for two readers:
  a delayed store of an old mask wipes the mask of a new message. `CountExact` fails
  there too (two readers free the same message), and `ReadBeforeFree` fails with three
  readers.
- Nothing in `join_chat_client` keeps two joins apart. In `chat_races` two that look for a
  place before either has taken one find the same (`shm_manager.c:253-258`), and both are in
  `robbed`; and two of one name that look at different moments find different places but the
  name unused (`:268-277`), and are in `met`. Without these conditions `Seated` and `NamesApart` fail.
- The server's check disconnects members that are not silent. A participant that polls
  after the mark was taken (`:485`) has a later time than the mark, and the unsigned difference
  (`:490`) is huge; and a process whose status is stored before its time (`:348-349`) is seen
  with the time of whoever had the place before, or 0. Both are in `robbed` from then on. They
  go on, in a place that is free for others.
- `chat_room` keeps these two things out (`MaxJoining = 1`, `Quick = TRUE`), for a message to
  a place that two members share is read by one of them.
- The creator's `memory_pool_destroy` does nothing: `memory_pool_init` clears the
  structure's name (`mempool_ring.c:62`) after `memory_pool_init_shared` has stored it (`:101`), and
  `:294` goes by the name. A server that fails at the ring or the tracker
  (`shm_manager.c:103-162`) leaves the pool linked and mapped, a client may still join it, and one
  that closes keeps it mapped (`:208`) and removes its name by another call (`:218`). The failed
  server leaves the directory and ring linked as well.
- `chat_room` and `chat_races` start after the directory was cleared. A client that comes earlier
  (`chat_lifecycle` lets it) can be cleared with the rest; and it can use the tracker before
  `tracker_init`, which is why `JoinedReady` leaves the tracker out. A client that looks at the
  directory before it has a size is ended by SIGBUS, which is a `Kill` in `ChatLifecycle`.

**Bounds.** `ring_*`: three threads, so that every pair of operations meets with a
third in flight, and capacity 2, the least at which full, empty and in between
differ and indices wrap. Two items where order matters (`ring_stored`); one where
only control matters (`ring_locks`). Calls are not bounded: the state space is finite by itself.
`MPMCTest`: two producers, two consumers, one value each (`Ops`), the test's shape
with its numbers reduced; `MaxEmpty = 1` for the test's 1000 (a larger value
only delays a consumer's end). `SharedPool`: three processes, so that two resets meet with a
caller that knows of neither, and two blocks, of which one can be held while the other is put
back; not bounded otherwise. `MessageTracker`: `MaxMessages` and `MaxTime` bound the run; two entries
for two or three messages, so that entries are reused where the pool allows it and
the tracker can be full; `Word = 8` stands for 2^32, above every count in range,
so that a decrement below 0 shows. `ChatRoom`: in
`chat_races` two clients and the server in three places, all registering at once
(`MaxJoining = 3`), one second that may begin at any step (`Quick = FALSE`), and no tracked message
(`Entries = 0`), for no property of that run is about messages. In `chat_room` and
`chat_away` one registers at a time and no second begins while the server compares times or
a process is between its status and its time; `MaxTime = 2` seconds and `Timeout = 1` are
the least at which somebody is silent for longer than the timeout and somebody else is not. In
`chat_room` there are two places, so that one client can only follow the other, and two tracked
messages, those after them being refused. Members poll before a second passes that would make
them look silent (`Timely`), as they do ten times a second; `Slow` names the clients
whose users may let time pass after a Ctrl+C. Each client runs once.
`ChatLifecycle`: one client (clients change nothing that others see) and `MaxRuns = 3` servers, so that a client can hold segments of a server that is
neither the latest nor the one before its directory's. `LocalPool`: every pair of
13 sizes and 8 block sizes around the points where a division, a comparison or a
32-bit wrap changes its outcome, up to `MaxBlocks = 4` blocks; `RingSize = 24`,
`PointerSize = 8`, and `Word = 65536` for 2^32, large enough for the assumption the
proofs need.

**Fairness.** `MPMCRing`: a thread inside a call keeps taking steps (weak fairness
of its steps, the scheduler's promise); nothing makes it call again and nothing
decides who wins a spinlock. `MPMCTest`: every thread of the test is scheduled.
`MessageTracker`: participants keep polling (`chat_client.c:25`, `chat_server.c:41`) and a
send that has begun goes on; nobody has to send and time need not pass. `ChatRoom`: time
passes (strong fairness of `Tick`: it waits for members to poll, and comes when they
have), the server's loop and each client's two threads go on (weak fairness); nobody has
to join, speak, leave or die, but whoever pressed Ctrl+C presses Enter, for that is
what ends the restarted read of the terminal.

## 4. Theorems

All are `Spec => []...` but for the refinements and one action property, and hold for every value of the constants
within the assumptions of the module, which TLC evaluates on each run.

| module | theorems |
|---|---|
| `MPMCRing_proofs`: any threads, items and capacity, both versions of the source | `Invariant` (`IInv`), `TypeCorrect` (`TypeOK`), `LocksExclude` (`MutualExclusion`), `SlotsHoldQueue` (`RingHoldsQueue`), `SlotsNotRaced` (`NoSlotRace`), `GetsTakeOldest` (`GetTakesOldest`), `Implements` (with stored pointers, `BQ!QSpec`) |
| `MPMCTest_proofs`: any producers, as many consumers, any share of values; stored pointers | `TestInvariant` (`TestInv`), `NoneTwice` (`NoValueTwice`), `TestEnds` (`EndsAllRead`) |
| `SharedPool_proofs`: any processes, number and size of blocks | without further assumption: `TypeCorrect` (`TypeOK`). If gets answer slots: `NoneTakenBack`. If gets answer stored pointers (`Stored`), whoever resets: `Invariant`, `NothingLost` (`IInv /\ Filled`), `Accounting` (`Accounted`), `TakenBack` (`FreesTaken`), `Fits` (`ResetFits`), `Implements` (`ImplementsShared`) |
| `LocalPool_proofs`: any sizes of memory, block, pointer and structure, all three kinds | `Invariant`, `Layout` (`LayoutSound`), `Accounting` (`Accounted`), `Implements` (`ImplementsAllocator`) |
| `MessageTracker_proofs`: any senders, readers, entries, blocks and messages | without further assumption: `TypeCorrect` (`TypeOK`). If the pool refuses what is given back, as it is built, or there is at most one reader (`Steady`): `Invariant`, `Counts` (`CountExact`), `Unshared` (`BlocksUnshared`), `BitsKept` (`UnreadStaysVisible`). If texts share no words besides (`TextsApart`): `WholeTexts` (`TextIntact`). With at most two readers besides (`Pair`): `FreedAfterRead` (`ReadBeforeFree`). With at most one (`Alone`): `Once` (`ReadOnce`). If the pool refuses: `EntriesUsedOnce` (`[][EntriesStay]_vars`) |
| `ChatRoom_proofs`: any clients, places, names, messages and seconds | whoever registers, polls and is slow when: `TypeCorrect` (`TypeOK`), `Seats` (`Seated`), `Names` (`NamesApart`), `Counts` (`CountKept`) |
| `ChatLifecycle_proofs`: any clients and any number of starts | `Invariant`, `TypeCorrect` (`TypeOK`), `Together` (`SegmentsTogether`), `Ready` (`JoinedReady`), `Gone` (`NamesGone`), `OnlyPool` (`OnlyPoolLeft`) |

**The ring.** `TypeOK` is not inductive: that `count - 1` is not negative depends on a
check made earlier, under a lock the other side does not take. `IInv` adds what each
thread relies on between its check and its last store. A put has seen room
(`count < Capacity`), and only its own side increments the count; a get has seen an item
(`count > 0`), and only its own side decrements it; a reset has both locks. It also
says where the queue is while operations are in flight: an index moves ahead of
the count for a moment, and `Claimed` takes it back to the slot its thread still
claims. The core is `SidesApart`: a producer about to write and a consumer that has
loaded the head stand `count` slots apart, with `0 < count < Capacity`, so the slots
differ. Refinement follows because each call changes its `phase` at one step, the
one that moves the count or finds it at its bound.

**The shared pool.** Nothing locks the pool, a reset refills the ring one block at a
time, and callers keep what they had. `stale` has the blocks for which that does harm: those that
somebody had, or that another reset had yet to put back, when the last reset began. Of every
other block the invariant says that it is at most once in the ring, held or lost
(`Once`), and that one which a reset has yet to put back is nowhere (`Unput`). Of stale
blocks it says only that they are blocks: they may be anywhere, any number of times. While nothing is stale, a block that is not in the ring
leaves room there, because a sequence of different blocks that is as long as there are blocks has them all (`Counting`): so the check for room in
`memory_pool_free` and `memory_pool_reset` succeeds, and there is but one reset at work. That
every block which is not still to be put back is in one of these places is the other half
(`Filled`, inductive relative to the first); together they make the places part the blocks in
play (`AllInPlay`), and `Accounted` follows by adding up (`LengthCounts`, `GivenCounts`).
That it implements `SharedAllocator` needs the first half only: each call moves one block
that is not stale, or only stale ones, which is a stutter; a reset's next block is one that is
withheld, or a stale one.

**The test.** Every step of the test is a step of the ring or of none, so the ring's
invariant carries over. `TestInv` adds what each loop knows of its own count
(`Producing`, `Consuming`) and that a value which was put is in the queue or was handed to
one consumer, once (`Apart`, `Fresh`). A consumer counts as handed an item from the
instant its get takes effect. That the values differ is a count, as the test has as many
values as places to put them from (`ValuesDiffer`); that all were read when everybody
has ended is one as well, for the consumers then have as many different values as there
are.

**The tracker.** `TypeOK` alone needs an argument: a decremented reference count or a
count below 0 wraps, and stays a word. The invariant says who has the lock (`Locked`),
what a thread relies on about the entry it works at (`Complete`, `Filled`, `Kept`,
`Cleared`), where each block is (`Shared`), that each message has one number and one entry
(`Numbered`, `Fresh`), and how far the count lags behind the entries (`Counted`).
`Visible` holds the reason why the readers' unlocked read-modify-write of the mask
does no harm as long as entries keep their messages: a stale mask that is stored back
(`mark_store`) lacks only bits of readers that were given the message, so it can put
back a bit but not lose one. This is where `Steady` comes in: once an entry is cleared
and used again, a stale mask is that of another message. `ReadBeforeFree` needs a bound on the
reference count while somebody is owed the message (`Referred`): one part for the
owed, one for the other reader's mark. With a third reader a bit that a stale store
put back is counted twice and the bound breaks, as the run with three readers
shows; hence `Pair`. A text is whole where no two blocks share words: a word was last
written through the block it belongs to, and nobody writes to a block that is in an entry
(`WholeTexts`).

As built, an entry is emptied by nobody, for the pool refuses its block first, and written by
nobody, for a sender takes only an empty entry and writes only a block that is in none:
`EntriesUsedOnce`.

**The directory.** None of the theorems assumes anything of the schedule, of the times or of
how many register at once; what goes wrong there is in the history. `SeatInv` says how two
processes can come to one place: they registered at one time, so they are in `met`
(`Meets`), and from then on in `robbed` (`Shares`); who is not holds its entry
(`Holding`), step by step of its join, and nobody takes an active place. `NamesInv` says what a
search for the own name still means when the name is entered: any other active entry of that
name is of one that registered in the meantime, or that has lost its place. `CountInv`
says that while nobody is robbed each process between a status and its count has the entry it
is about to count (`HalfwayActive`), that nobody has come before the server sets the count to 1
(`Opening`, `Undisturbed`), and so that the count lags by exactly those processes; it does not
wrap, as `Word` exceeds the places and the processes together.

**The local pools.** The first half is the arithmetic (`Laid`): if `memory_pool_init`
accepts, the pool's own bytes and all blocks fit in the memory. For "flexible" the slots
are counted before it is known what they take, so there are at least as many slots as
blocks. For "array" the differences are of 32 bits and nothing asks whether the memory
holds the structure: `ArrayWraps` shows that where `size - sizeof(ring_buffer_t)`
wraps, the later checks refuse the size after all. This needs
`2 * RingSize * RingSize <= Word` (the structure, some tens of bytes, is small against 2^32) and
is why the assumption is there: with a word that is small against the structure there are
sizes that are accepted and do not fit. The second half is the invariant: used and listed blocks part the pool
(`Parted`), the ring lists each free address once, from `head` on (`RingLists`,
`OneEach`), or a byte says of each block whether it is listed (`BytesList`), and the
count is that of the listed. Each call then maps to one of `Allocator`.

**The segments.** The invariant has one server at a time (`OneAtATime`), how far each
process is (`Placed`, `Mapped`), and how far each segment is set up (`Staged`). The names of a server that is
closing go one after the other (`NamesGoing`), and the pool's name that a failed one leaves
is of a pool that is set up; the names are unlinked before any is
created, so from its first segment on every name is the latest server's or free
(`NamesFresh`). So a client that has this server's directory finds its other
segments or none (`OneServer`). Segments are set up in the order in which they are created, and
a client opens the tracker last: what comes before it is ready by then.

**Assumptions on constants.** Sets of threads, processes, items and blocks are finite
where something is counted; answers differ from each other and from `NULL`; a
word is larger than the entries, the participants and the processes that can be between
two stores (2^32 against 100 and 32), and than the times with the timeout.
Each module has them under a name with `Assumption`.

**Only model-checked.** Liveness (`LocksReleased`, `ReadEventually`, `FreedEventually`,
`Delivered`, `DeadRemoved`, `ProducersComplete`, `SomeConsumerCompletes`), which the prover
does not reach. Every invariant and every refinement that a passing run checks has
a theorem. The theorems' assumptions (`Stored`, `Steady`, `Alone`, `Pair`, `TextsApart`)
are those of the runs, and section 3 says what fails without each.

## 5. Not modelled

- `02_ring_buffers`: its get calls `ring_buffer_is_empty(false)` (`ring_buffer.c:76`), which
  dereferences NULL at the first call. `00_memory_pool`, an earlier attempt at the status-byte
  pool: alloc steps by the block size without the byte (`mem_pool.c:79`), free compares the
  pointer and not the byte with `BLOCK_FREE` (`:105`) and decrements the free count (`:109`).
- `03_ring_buffers_mempool`, the exercise skeleton: the bodies are left to the student.
  `05_chat_room_old_imp`: superseded, not built; its directory and segments are those of
  `ChatRoom` and `ChatLifecycle`. `06_pointer_validation` shows what the kernel's page
  protection does. Terminal input and output.
- Holders of `producer_lock`, `consumer_lock` or `tracker_lock` that die, and a reading
  thread cancelled inside a scan: nothing detects a dead holder, so nothing is promised of
  those who want the lock afterwards.
- The header that `send_message` writes to the start of the pool's ring
  (`shm_manager.c:416`) and not into the block, and with it the sender a reader prints. It
  lands on slots whose contents no get of that version reads, so it does not change
  what the pool does. `block_ptr` is an address of the sender's mapping; the
  models of the chat take all mappings to be at one address.
- The order in which messages are delivered: times have a resolution of a second and ties go
  by the index, so that there is no order to rely on.
- Failures of `munmap` and `shm_unlink`, which change nothing but an answer;
  `memory_pool_free` of the byte just past a status pool (`mem_pool.c:92`), which reads
  outside the pool; a status pool of blocks of 2^32 - 1 bytes, which divides by zero.

What could come next: fault runs for the holders of locks
with what the other side of the ring can still do; the tracker with its entries inside
`ChatRoom`, for a pool that takes blocks back.
