----------------------------- MODULE SharedPool -----------------------------
(***************************************************************************)
(* The memory pool of 04_shared_mempool/mempool_ring.c: a shared segment   *)
(* that starts with a ring buffer of pointers to its free blocks.          *)
(* Processes map the segment, each at an address of its own choosing, and  *)
(* allocate, free and reset concurrently.  One ring operation is one step  *)
(* here; MPMCRing shows why that is sound.  memory_pool_reset makes one    *)
(* ring reset and one put per block, and others run in between; it tells   *)
(* nobody, so that callers go on to free what they were given before.      *)
(* The history variable stale has the blocks whose callers it betrays.     *)
(*                                                                         *)
(* As in MPMCRing, SlotAddress selects the ring: the one of                *)
(* 04_shared_mempool, whose gets answer the address of a slot, or the one  *)
(* of 04_shared_mempool_old_imp, whose gets answer the stored pointer.     *)
(***************************************************************************)
EXTENDS Naturals, Sequences, FiniteSets

CONSTANTS Procs,       \* the processes that map the segment
          Creator,     \* the one that created it and put the blocks in
          Base,        \* where each process has it mapped
          Resetters,   \* the processes that may call memory_pool_reset
          NumBlocks,   \* pool->num_blocks
          SlotAddress

ASSUME PoolAssumption == /\ Creator \in Procs /\ Resetters \subseteq Procs
                         /\ Base \in [Procs -> Nat]
                         /\ NumBlocks \in Nat \ {0}
                         /\ SlotAddress \in BOOLEAN

\* The ring of old_imp also keeps the address of its array in the segment, so
\* it only works for processes that map the segment where its creator did.
ASSUME SameBase == ~SlotAddress => \A p \in Procs : Base[p] = Base[Creator]

VARIABLES queue,   \* the pointers in the ring, oldest first
          head,    \* the slot of the oldest one
          mapped,  \* the processes whose pool structure is set up
          knows,   \* those of them whose structure has the segment's name
          named,   \* whether the segment can still be opened by its name
          held,    \* what each process has been given and not given back
          lost,    \* blocks held by a process when it destroyed its pool
          reset,   \* next block of the reset a process is in, or NumBlocks
          stale    \* history: the blocks that were not all the last reset's

structs == <<mapped, knows, named>>
vars == <<queue, head, structs, held, lost, reset, stale>>

Indices == 0 .. NumBlocks - 1

\* An address in the segment, as seen where the segment is mapped at b.
Block(b, i) == <<"block", b, i>>
SlotAt(b, i) == <<"slot", b, i>>

Resetting(p) == reset[p] < NumBlocks
Idle(p) == p \in mapped /\ ~Resetting(p)

-----------------------------------------------------------------------------
(* memory_pool_init, run by the creator before it returns; it leaves the
   creator's structure without a name. *)
Init == /\ queue = [i \in 1 .. NumBlocks |-> Block(Base[Creator], i - 1)]
        /\ head = 0
        /\ mapped = {Creator} /\ knows = {}
        /\ named = TRUE
        /\ held = [p \in Procs |-> {}]
        /\ lost = {}
        /\ reset = [p \in Procs |-> NumBlocks]
        /\ stale = {}

(* memory_pool_init_shared without create: only pointers are set up. *)
Attach(p) == /\ named /\ p \notin mapped
             /\ mapped' = mapped \cup {p}
             /\ knows' = knows \cup {p}
             /\ UNCHANGED <<queue, head, named, held, lost, reset, stale>>

\* What a get of the ring answers to p.
Oldest(p) == IF SlotAddress THEN SlotAt(Base[p], head) ELSE Head(queue)

\* Mutant of Alloc: the read index is not wrapped at the capacity.
AllocUnwrapped(p) ==
  /\ Idle(p)
  /\ queue # << >>
  /\ held' = [held EXCEPT ![p] = @ \cup {Oldest(p)}]
  /\ queue' = Tail(queue)
  /\ head' = head + 1
  /\ UNCHANGED <<structs, lost, reset, stale>>

(* memory_pool_alloc; an empty ring answers NULL and changes nothing. *)
Alloc(p) == /\ Idle(p)
            /\ queue # << >>
            /\ held' = [held EXCEPT ![p] = @ \cup {Oldest(p)}]
            /\ queue' = Tail(queue)
            /\ head' = (head + 1) % NumBlocks
            /\ UNCHANGED <<structs, lost, reset, stale>>

\* Mutant of Valid: the last block is taken to be outside the pool.
ValidShort(p, x) == \E i \in Indices \ {NumBlocks - 1} : x = Block(Base[p], i)

\* The range and alignment checks of memory_pool_free, made with addresses
\* of the caller.  The slots lie below pool_start, and the segment as another
\* process maps it lies outside.
Valid(p, x) == \E i \in Indices : x = Block(Base[p], i)

Room == Len(queue) < NumBlocks

\* Mutant of Free: the caller can give the block back a second time.
FreeKeeps(p, x) ==
  /\ Idle(p) /\ x \in held[p]
  /\ Valid(p, x) /\ Room
  /\ queue' = Append(queue, x)
  /\ UNCHANGED <<held, head, structs, lost, reset, stale>>

(* memory_pool_free of a pointer that the pool handed out; one it refuses
   changes nothing.  The checks read nothing that another process writes, so
   the step is that of the ring: a reset may come between the two.  Of a stale
   block the caller may have been given the same pointer once more. *)
Free(p, x) == /\ Idle(p) /\ x \in held[p]
              /\ Valid(p, x) /\ Room
              /\ queue' = Append(queue, x)
              /\ \/ held' = [held EXCEPT ![p] = @ \ {x}]
                 \/ x[3] \in stale /\ UNCHANGED held
              /\ UNCHANGED <<head, structs, lost, reset, stale>>

IndicesOf(S) == {x[3] : x \in S}

\* The blocks that somebody has, or that a reset of another is putting back.
StaleAt(p) == {i \in Indices : \/ \E q \in Procs : i \in IndicesOf(held[q])
                               \/ \E q \in Procs \ {p} : i >= reset[q]}

\* Mutant of ResetRing: the ring is filled again without being emptied.
ResetRingSkipped(p) == /\ Idle(p) /\ p \in Resetters
                       /\ lost' = {} /\ stale' = StaleAt(p)
                       /\ reset' = [reset EXCEPT ![p] = 0]
                       /\ UNCHANGED <<queue, head, structs, held>>

(* memory_pool_reset empties the ring.  What processes have been given they
   keep, and can free or use as before. *)
ResetRing(p) == /\ Idle(p) /\ p \in Resetters
                /\ queue' = << >> /\ head' = 0
                /\ lost' = {} /\ stale' = StaleAt(p)
                /\ reset' = [reset EXCEPT ![p] = 0]
                /\ UNCHANGED <<structs, held>>

\* One pass of its loop; a full ring ends it with the answer false.
ResetPut(p) == /\ p \in mapped /\ Resetting(p)
               /\ \/ /\ Room
                     /\ queue' = Append(queue, Block(Base[p], reset[p]))
                     /\ reset' = [reset EXCEPT ![p] = @ + 1]
                  \/ /\ ~Room
                     /\ reset' = [reset EXCEPT ![p] = NumBlocks]
                     /\ UNCHANGED queue
               /\ UNCHANGED <<head, structs, held, lost, stale>>

(* memory_pool_destroy: the blocks the process still has stay out of the pool,
   and it cannot free them any more.  The name is removed when unlink is asked
   for and the structure has it, which the creator's does not. *)
Destroy(p, unlink) == /\ Idle(p)
                      /\ mapped' = mapped \ {p}
                      /\ knows' = knows \ {p}
                      /\ named' = (named /\ ~(unlink /\ p \in knows))
                      /\ held' = [held EXCEPT ![p] = {}]
                      /\ lost' = lost \cup held[p]
                      /\ UNCHANGED <<queue, head, reset, stale>>

Next == \E p \in Procs : \/ Attach(p)
                         \/ Alloc(p)
                         \/ \E x \in held[p] : Free(p, x)
                         \/ ResetRing(p)
                         \/ ResetPut(p)
                         \/ \E unlink \in BOOLEAN : Destroy(p, unlink)
                         \/ mapped = {} /\ ~named /\ UNCHANGED vars

Spec == Init /\ [][Next]_vars

-----------------------------------------------------------------------------
Pointers == {Block(Base[p], i) : p \in Procs, i \in Indices}
              \cup {SlotAt(Base[p], i) : p \in Procs, i \in Indices}

TypeOK == /\ queue \in Seq(Pointers) /\ Len(queue) <= NumBlocks
          /\ head \in Indices
          /\ mapped \subseteq Procs /\ knows \subseteq mapped /\ named \in BOOLEAN
          /\ held \in [Procs -> SUBSET Pointers] /\ lost \subseteq Pointers
          /\ reset \in [Procs -> 0 .. NumBlocks] /\ stale \subseteq Indices

\* The places of the ring or the pool that an alloc can still hand out.
FreeIndices == IF SlotAddress
               THEN {(head + i) % NumBlocks : i \in 0 .. Len(queue) - 1}
               ELSE {queue[i][3] : i \in 1 .. Len(queue)}

\* How many blocks a reset in progress has put back so far.
InPlay == IF \E p \in Procs : Resetting(p)
          THEN reset[CHOOSE p \in Procs : Resetting(p)] ELSE NumBlocks

(* Unless the last reset found blocks in use, or another reset at work: each
   block is in exactly one place, while the reset refills the ring and the
   others allocate and free: free, held by one process, or lost with one that
   destroyed its pool.  None is handed out twice, and memory_pool_used_count
   (mempool_ring.c:246-252) counts exactly those that are out. *)
Accounted ==
  LET out == (UNION {IndicesOf(held[p]) : p \in Procs}) \cup IndicesOf(lost)
      given == UNION {{p} \X held[p] : p \in Procs}
  IN  stale = {} => /\ Cardinality(FreeIndices \cup out) = InPlay
                    /\ Len(queue) + Cardinality(given) + Cardinality(lost) = InPlay

(* memory_pool_free takes back every pointer that memory_pool_alloc gave
   (mempool_ring.h:55-60; mempool_test.c:176 and 383 assert it). *)
FreeNeverRefused == \A p \in mapped : \A x \in held[p] : Valid(p, x) /\ Room

(* That is so for stored pointers until a reset finds blocks in use, also
   while the reset has put back only some of the blocks (mempool_ring.c:223). *)
FreesTaken == stale = {} => FreeNeverRefused

(* A reset always finds room for the block it puts back: "Ring buffer is full
   (shouldn't happen)" (mempool_ring.c:272). *)
ResetNeverFull == \A p \in Procs : Resetting(p) => Room

(* It does not happen to a reset that finds no block in use and no other reset
   at work, whatever the others allocate and free while it fills the ring. *)
ResetFits == stale = {} => ResetNeverFull

Shared == INSTANCE SharedAllocator
            WITH Callers <- Procs, Blocks <- Indices, free <- FreeIndices \ stale,
                 has <- [p \in Procs |-> IndicesOf(held[p]) \ stale],
                 gone <- IndicesOf(lost) \ stale, void <- stale

(* The pool of many processes is an allocator, with any resets at any time: a
   block goes from the ring to one caller, back from it or away with it, and
   by a reset back to the ring.  Only of a block that somebody had, or that
   another reset was putting back, when the last reset began, nothing is
   promised, and what happens to it does no harm to the others
   (mempool_ring.c:189-277). *)
ImplementsShared == Shared!SSpec
=============================================================================
