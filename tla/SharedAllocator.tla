--------------------------- MODULE SharedAllocator ---------------------------
(***************************************************************************)
(* What 04_shared_mempool/mempool_ring.h promises of a pool that several   *)
(* processes share, whatever it is built on: an allocation answers a block *)
(* that is free and gives it to the caller; only its owner gives it back;  *)
(* what a process holds when it destroys its pool is out of the pool; and  *)
(* a reset takes all blocks and returns them one after the other, while    *)
(* the others go on.  A reset takes back no pointers, so the blocks that   *)
(* somebody has at that moment are void, and with them those that an       *)
(* unfinished reset holds: until the next reset anything may happen to     *)
(* them.                                                                   *)
(***************************************************************************)
CONSTANTS Callers, Blocks

VARIABLES free,  \* the blocks an allocation may answer
          has,   \* those that each caller has
          gone,  \* those of callers that left
          void   \* those of which nothing is promised

svars == <<free, has, gone, void>>

Owned == UNION {has[c] : c \in Callers}
\* The blocks that a reset has taken and not yet returned.
Withheld == Blocks \ (free \cup gone \cup void \cup Owned)

SInit == free = Blocks /\ has = [c \in Callers |-> {}] /\ gone = {} /\ void = {}

SAlloc(c) == \E b \in free : /\ free' = free \ {b}
                             /\ has' = [has EXCEPT ![c] = @ \cup {b}]
                             /\ UNCHANGED <<gone, void>>

SFree(c) == \E b \in has[c] : /\ free' = free \cup {b}
                              /\ has' = [has EXCEPT ![c] = @ \ {b}]
                              /\ UNCHANGED <<gone, void>>

\* A block that was free or gone is the reset's own again.
SReset == \E late \in SUBSET (Withheld \cup void) :
             /\ void' = Owned \cup late
             /\ free' = {} /\ has' = [c \in Callers |-> {}] /\ gone' = {}

SReturn == \E b \in Withheld : free' = free \cup {b} /\ UNCHANGED <<has, gone, void>>

SDestroy(c) == /\ has' = [has EXCEPT ![c] = {}]
               /\ gone' = gone \cup has[c]
               /\ UNCHANGED <<free, void>>

SNext == \/ \E c \in Callers : SAlloc(c) \/ SFree(c) \/ SDestroy(c)
         \/ SReset
         \/ SReturn

SSpec == SInit /\ [][SNext]_svars
=============================================================================
