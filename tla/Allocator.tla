------------------------------ MODULE Allocator ------------------------------
(***************************************************************************)
(* What mempool_ring.h and mem_pool.h promise of a pool: an allocation     *)
(* answers a block that is not in use, or NULL when there is none; a free  *)
(* is accepted for a block in use and refused for any other pointer; a     *)
(* reset makes all blocks free.                                            *)
(***************************************************************************)
CONSTANT NULL

VARIABLES blocks,  \* the addresses the pool may hand out
          used,    \* those it has handed out
          answer   \* of the last call: its name, the pointer, the success

avars == <<blocks, used, answer>>

AInit == used = {} /\ answer = <<"init", NULL, TRUE>>

AAlloc == /\ \/ \E b \in blocks \ used : /\ used' = used \cup {b}
                                         /\ answer' = <<"alloc", b, TRUE>>
             \/ /\ used = blocks
                /\ answer' = <<"alloc", NULL, FALSE>> /\ UNCHANGED used
          /\ UNCHANGED blocks

AFree == LET p == answer'[2] IN
         /\ answer' = <<"free", p, p \in used>>
         /\ used' = used \ {p}
         /\ UNCHANGED blocks

AReset == used' = {} /\ answer' = <<"reset", NULL, TRUE>> /\ UNCHANGED blocks

ANext == AAlloc \/ AFree \/ AReset

ASpec == AInit /\ [][ANext]_avars
=============================================================================
