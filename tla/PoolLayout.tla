----------------------------- MODULE PoolLayout -----------------------------
(***************************************************************************)
(* How the local pools divide the memory they are given, in bytes from its *)
(* start.  "flexible" is 03_ring_buffers_mempool_imp (and 04_shared_mempool)*)
(* where the ring's slots end its structure; "array" is the earlier one,   *)
(* 03_ring_buffers_mempool_imp_old (and 04_shared_mempool_old_imp), where  *)
(* the slots are an array of their own; "status" is 01_memory_pool_imp,    *)
(* where a byte before each block says whether it is free.                 *)
(***************************************************************************)
EXTENDS Naturals

CONSTANTS PointerSize,  \* sizeof(void*)
          RingSize,     \* sizeof(ring_buffer_t)
          Word          \* the number of values of a uint32_t

\* A pointer has several bytes, and the structure is small against 32 bits.
ASSUME LayoutAssumption == /\ PointerSize \in Nat \ {0, 1}
                           /\ RingSize \in Nat \ {0} /\ Word \in Nat
                           /\ 2 * RingSize * RingSize <= Word

\* Unsigned 32-bit sums and differences.
Add32(a, b) == (a + b) % Word
Sub32(a, b) == (a + Word - b) % Word

\* Enough memory for the smallest block that can be told apart.
Reasonable(size, block, least) == block >= least /\ size >= block

-----------------------------------------------------------------------------
(* "flexible": in 64 bits, for ring_buffer_size is a size_t.  The slots are
   counted before it is known what they take from the blocks. *)
RingBytes(capacity) == RingSize + capacity * PointerSize

FlexStart(size, block) == RingBytes(size \div block)
FlexFits(size, block) == /\ Reasonable(size, block, PointerSize)
                         /\ size > FlexStart(size, block) + block

\* Mutant of FlexBlocks: the blocks are those counted before the slots were.
FlexBlocksPotential(size, block) == size \div block

FlexBlocks(size, block) == (size - FlexStart(size, block)) \div block

(* "array": the sums and differences are of 32 bits; nothing asks first
   whether the memory holds the structure. *)
Potential(size, block) == Sub32(size, RingSize) \div block
Overhead(size, block) == Add32(RingSize, Potential(size, block) * PointerSize)
ArrayFits(size, block) == /\ Reasonable(size, block, PointerSize)
                          /\ size > Add32(Overhead(size, block), block)
ArrayBlocks(size, block) == Sub32(size, Overhead(size, block)) \div block
ArrayStart(size, block) == RingSize + ArrayBlocks(size, block) * PointerSize

(* "status": a byte more for each block.  For a block of Word - 1 bytes the sum
   is 0 and the division ends the program, so that there is no pool. *)
StatusStride(block) == Add32(block, 1)
StatusBlocks(size, block) == size \div StatusStride(block)
StatusFits(size, block) == /\ Reasonable(size, block, 1)
                           /\ StatusStride(block) # 0
                           /\ StatusBlocks(size, block) # 0
=============================================================================
