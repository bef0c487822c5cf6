------------------------------ MODULE LocalPool ------------------------------
(***************************************************************************)
(* The memory pools of one process, and their caller.  Two of the kinds of *)
(* PoolLayout keep the addresses of the free blocks in a ring buffer       *)
(* (mempool_ring.c), the third a byte for each block (mem_pool.c).  The    *)
(* caller frees what it was given, and makes the mistakes of               *)
(* test_invalid_free in memory_pool_tester.c.                              *)
(***************************************************************************)
EXTENDS PoolLayout, FiniteSets, FiniteSetsExt

CONSTANTS Sizes, BlockSizes,  \* the arguments of memory_pool_init
          MaxBlocks,          \* bound: pools of more blocks are not looked at
          NULL

ASSUME PoolAssumption == /\ Sizes \subseteq 0 .. Word - 1
                         /\ BlockSizes \subseteq 0 .. Word - 1
                         /\ MaxBlocks \in Nat

VARIABLES kind, size, block,        \* of the pool: its kind and its arguments
          slots, head, tail,        \* of the ring buffer
          status,                   \* the bytes before the blocks
          count,                    \* rb->count, or pool->free_count
          used,                     \* what the caller has been given
          answer                    \* of the last call

config == <<kind, size, block>>
ring   == <<slots, head, tail>>
vars   == <<config, ring, status, count, used, answer>>

BLOCK_FREE == 0
BLOCK_USED == 1

-----------------------------------------------------------------------------
(* memory_pool_init answers true. *)
Fits(k, s, b) == \/ k = "flexible" /\ FlexFits(s, b)
                 \/ k = "array" /\ ArrayFits(s, b) /\ ArrayBlocks(s, b) # 0
                 \/ k = "status" /\ StatusFits(s, b)

NumBlocks(k, s, b) == CASE k = "flexible" -> FlexBlocks(s, b)
                        [] k = "array" -> ArrayBlocks(s, b)
                        [] k = "status" -> StatusBlocks(s, b)

num    == NumBlocks(kind, size, block)
stride == IF kind = "status" THEN StatusStride(block) ELSE block
pool_start == CASE kind = "flexible" -> FlexStart(size, block)
                [] kind = "array" -> ArrayStart(size, block)
                [] kind = "status" -> 0

Indices == 0 .. num - 1
Header  == IF kind = "status" THEN 1 ELSE 0
Address(i) == pool_start + i * stride + Header
Blocks == {Address(i) : i \in Indices}

\* All blocks put into a ring buffer just emptied, in order.
Filled == [i \in Indices |-> Address(i)]

RingInit == /\ kind # "status" /\ slots = Filled /\ status = << >>
StatusInit == /\ kind = "status" /\ slots = << >>
              /\ status = [i \in Indices |-> BLOCK_FREE]

Init == /\ kind \in {"flexible", "array", "status"}
        /\ size \in Sizes /\ block \in BlockSizes
        /\ Fits(kind, size, block) /\ num <= MaxBlocks
        /\ RingInit \/ StatusInit
        /\ head = 0 /\ tail = 0 /\ count = num
        /\ used = {} /\ answer = <<"init", NULL, TRUE>>

-----------------------------------------------------------------------------
\* ring_buffer_put and ring_buffer_get, where they succeed.
Put(x) == /\ count < num
          /\ slots' = [slots EXCEPT ![tail] = x]
          /\ tail' = (tail + 1) % num
          /\ count' = count + 1
          /\ UNCHANGED head

Get == /\ count # 0
       /\ head' = (head + 1) % num
       /\ count' = count - 1
       /\ UNCHANGED <<slots, tail>>

Alloced(p) == /\ answer' = <<"alloc", p, TRUE>>
              /\ used' = used \cup {p}

RingAlloc == /\ kind # "status"
             /\ Get
             /\ Alloced(slots[head])
             /\ UNCHANGED <<config, status>>

\* The first block whose byte says so is taken.
StatusAlloc == LET free == {i \in Indices : status[i] = BLOCK_FREE} IN
               /\ kind = "status" /\ count # 0 /\ free # {}
               /\ status' = [status EXCEPT ![Min(free)] = BLOCK_USED]
               /\ count' = count - 1
               /\ Alloced(Address(Min(free)))
               /\ UNCHANGED <<config, ring>>

\* Mutant of AllocNone: the last free block is held back.
AllocNoneEarly == /\ count <= 1
                  /\ answer' = <<"alloc", NULL, FALSE>>
                  /\ UNCHANGED <<config, ring, status, count, used>>

(* memory_pool_alloc answers NULL: also if no byte of the pool were free
   against its count. *)
AllocNone == /\ \/ count = 0
                \/ kind = "status" /\ \A i \in Indices : status[i] # BLOCK_FREE
             /\ answer' = <<"alloc", NULL, FALSE>>
             /\ UNCHANGED <<config, ring, status, count, used>>

-----------------------------------------------------------------------------
\* Mutant of Valid: a pointer into a block is accepted.
ValidUnaligned(p) == /\ p - Header >= pool_start
                     /\ p - Header < pool_start + num * stride

(* The range and alignment checks.  That of mem_pool.c:92 lets the byte after
   the last block pass: see Stray. *)
Valid(p) == /\ p - Header >= pool_start
            /\ IF kind = "status" THEN p - Header <= pool_start + num * stride
                                  ELSE p < pool_start + num * stride
            /\ (p - Header - pool_start) % stride = 0

IndexOf(p) == (p - Header - pool_start) \div stride

Freed(p) == /\ answer' = <<"free", p, TRUE>>
            /\ used' = used \ {p}

RingFree(p) == /\ kind # "status"
               /\ Valid(p) /\ Put(p)
               /\ Freed(p)
               /\ UNCHANGED <<config, status>>

\* Mutant of StatusFree: a block that is free is freed again.
StatusFreeTwice(p) == /\ kind = "status"
                      /\ Valid(p)
                      /\ status' = [status EXCEPT ![IndexOf(p)] = BLOCK_FREE]
                      /\ count' = count + 1
                      /\ Freed(p)
                      /\ UNCHANGED <<config, ring>>

StatusFree(p) == /\ kind = "status"
                 /\ Valid(p) /\ status[IndexOf(p)] # BLOCK_FREE
                 /\ status' = [status EXCEPT ![IndexOf(p)] = BLOCK_FREE]
                 /\ count' = count + 1
                 /\ Freed(p)
                 /\ UNCHANGED <<config, ring>>

FreeRefused(p) == /\ \/ ~Valid(p)
                     \/ kind # "status" /\ count >= num
                     \/ kind = "status" /\ Valid(p) /\ status[IndexOf(p)] = BLOCK_FREE
                  /\ answer' = <<"free", p, FALSE>>
                  /\ UNCHANGED <<config, ring, status, count, used>>

(* The mistakes of test_invalid_free: a pointer into a block, one from outside
   the pool, and, where the pool can tell, a block that is free. *)
Stray == {p + 1 : p \in used}
         \cup IF kind = "status" THEN {Address(num + 1)} \cup (Blocks \ used)
                                 ELSE {Address(num)}

\* Mutant of Reset: the indices are left where they are.
ResetIndices == /\ kind # "status"
                /\ slots' = Filled
                /\ count' = num
                /\ used' = {} /\ answer' = <<"reset", NULL, TRUE>>
                /\ UNCHANGED <<config, status, head, tail>>

\* ring_buffer_reset
Emptied == head' = 0 /\ tail' = 0

(* memory_pool_reset, of a caller that gives up what it has. *)
Reset == /\ kind # "status"
         /\ slots' = Filled
         /\ Emptied /\ count' = num
         /\ used' = {} /\ answer' = <<"reset", NULL, TRUE>>
         /\ UNCHANGED <<config, status>>

Next == \/ RingAlloc \/ StatusAlloc \/ AllocNone \/ Reset
        \/ \E p \in used \cup Stray : RingFree(p) \/ StatusFree(p) \/ FreeRefused(p)

Spec == Init /\ [][Next]_vars

-----------------------------------------------------------------------------
\* The bytes of a block, and those the pool keeps for itself.
Bytes(i) == Address(i) .. Address(i) + block - 1
OwnBytes == IF kind = "status" THEN {Address(i) - 1 : i \in Indices}
                               ELSE 0 .. RingSize + num * PointerSize - 1

(* Of an accepted size: there is a block, all of them and the pool's own bytes
   lie within the memory, and none of these overlap
   (03_ring_buffers_mempool_imp/mempool_ring.c:23-45). *)
LayoutSound == /\ num # 0
               /\ \A i \in Indices : /\ Bytes(i) \subseteq 0 .. size - 1
                                     /\ Bytes(i) \cap OwnBytes = {}
               /\ OwnBytes \subseteq 0 .. size - 1
               /\ \A i, j \in Indices : i # j => Bytes(i) \cap Bytes(j) = {}

\* What the pool takes to be free.
Listed == IF kind = "status"
          THEN {Address(i) : i \in {j \in Indices : status[j] = BLOCK_FREE}}
          ELSE {slots[(head + k) % num] : k \in 0 .. count - 1}

\* memory_pool_used_count
used_count == num - count

(* After any sequence of calls every block is either used or listed as free,
   not both, and no block is listed twice: memory_pool_free_count and
   memory_pool_used_count are exact (mem_pool.h:14, mempool_ring.h:55-61). *)
Accounted == /\ used \cup Listed = Blocks
             /\ used \cap Listed = {}
             /\ Cardinality(Listed) = count /\ Cardinality(used) = used_count
             /\ kind # "status" => /\ {head, tail} \subseteq Indices
                                   /\ tail = (head + count) % num

A == INSTANCE Allocator WITH blocks <- Blocks

(* The pools are allocators: of every call, the answer is that of Allocator. *)
ImplementsAllocator == A!ASpec
=============================================================================
