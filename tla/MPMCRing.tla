------------------------------ MODULE MPMCRing ------------------------------
(***************************************************************************)
(* The multi-producer multi-consumer ring buffer of                        *)
(* 04_shared_mempool/ring_buffer.c, one action per access to the shared    *)
(* structure.  Producers serialise on producer_lock, consumers on          *)
(* consumer_lock; the two sides share only the atomic count.  A thread     *)
(* that waits for a spinlock takes no step until the lock word is 0: the   *)
(* failed exchanges of the loop change nothing.                            *)
(*                                                                         *)
(* There are two versions of the source.  They keep the slots in different *)
(* places, and ring_buffer_get of 04_shared_mempool answers the address of *)
(* the slot it empties, that of 04_shared_mempool_old_imp the item stored  *)
(* there; SlotAddress says which one is meant.                             *)
(***************************************************************************)
EXTENDS Naturals, Sequences

CONSTANTS Threads,     \* the threads and processes that share the ring
          Items,       \* the pointers callers store
          Capacity,    \* rb->capacity
          NULL,        \* the null pointer, and a register not yet written
          OK, FULL,    \* the answers true and false of a put
          SlotAddress  \* TRUE: 04_shared_mempool; FALSE: its old_imp version

ASSUME RingAssumption == /\ Capacity \in Nat \ {0}
                         /\ NULL \notin Items
                         /\ SlotAddress \in BOOLEAN

VARIABLES head, tail, count,             \* atomic fields of ring_buffer_t
          producer_lock, consumer_lock,  \* its two spinlocks
          buffer,                        \* its slots, plain memory
          pc,    \* where each thread stands in its call
          arg,   \* the item each thread gave to the put it is in
          idx,   \* the local copy of tail or head
          ret,   \* what the call answers (success, item)
          fifo   \* history: the items put and not yet taken, oldest first

ring   == <<head, tail, count, buffer>>
locks  == <<producer_lock, consumer_lock>>
locals == <<arg, idx, ret>>
vars   == <<ring, locks, pc, locals, fifo>>

Slots == 0 .. Capacity - 1

\* The address &rb->buffer[i], as opposed to what is stored there.
SlotPtr(i) == <<"slot", i>>

Goto(t, from, to) == pc[t] = from /\ pc' = [pc EXCEPT ![t] = to]
Set(f, t, v) == [f EXCEPT ![t] = v]

-----------------------------------------------------------------------------
(* ring_buffer_init leaves the slots as it finds them. *)
Init == /\ head = 0 /\ tail = 0 /\ count = 0
        /\ producer_lock = 0 /\ consumer_lock = 0
        /\ buffer \in [Slots -> Items \cup {NULL}]
        /\ pc = [t \in Threads |-> "idle"]
        /\ arg = [t \in Threads |-> NULL]
        /\ idx = [t \in Threads |-> 0]
        /\ ret = [t \in Threads |-> NULL]
        /\ fifo = << >>

(* A thread calls one of the operations, or returns from it. *)
CallPut(t, x) == /\ Goto(t, "idle", "put_fast")
                 /\ arg' = Set(arg, t, x)
                 /\ UNCHANGED <<ring, locks, idx, ret, fifo>>

CallGet(t) == /\ Goto(t, "idle", "get_fast")
              /\ UNCHANGED <<ring, locks, locals, fifo>>

CallReset(t) == /\ Goto(t, "idle", "reset_plock")
                /\ UNCHANGED <<ring, locks, locals, fifo>>

\* The answer and the locals of the call end with it.
Return(t) == /\ Goto(t, "return", "idle")
             /\ arg' = Set(arg, t, NULL)
             /\ idx' = Set(idx, t, 0)
             /\ ret' = Set(ret, t, NULL)
             /\ UNCHANGED <<ring, locks, fifo>>

-----------------------------------------------------------------------------
(* ring_buffer_put *)

\* The check without the lock: a full ring refuses at once.
PutFast(t) == /\ \/ /\ count >= Capacity
                    /\ Goto(t, "put_fast", "return")
                    /\ ret' = Set(ret, t, FULL)
                 \/ /\ count < Capacity
                    /\ Goto(t, "put_fast", "put_lock")
                    /\ UNCHANGED ret
              /\ UNCHANGED <<ring, locks, arg, idx, fifo>>

\* Mutant of PutLock: the exchange of the spinlock ignores the old value.
PutLockIgnoresHolder(t) == /\ Goto(t, "put_lock", "put_check")
                           /\ producer_lock' = 1
                           /\ UNCHANGED <<ring, consumer_lock, locals, fifo>>

PutLock(t) == /\ Goto(t, "put_lock", "put_check")
              /\ producer_lock = 0
              /\ producer_lock' = 1
              /\ UNCHANGED <<ring, consumer_lock, locals, fifo>>

\* Mutant of PutCheck: the count is not read again under the lock.
PutCheckTrusted(t) == /\ Goto(t, "put_check", "put_load")
                      /\ UNCHANGED <<ring, locks, locals, fifo>>

\* The check is repeated under the lock.
PutCheck(t) == /\ \/ /\ count < Capacity
                     /\ Goto(t, "put_check", "put_load")
                     /\ UNCHANGED ret
                  \/ /\ count >= Capacity
                     /\ Goto(t, "put_check", "put_unlock")
                     /\ ret' = Set(ret, t, FULL)
               /\ UNCHANGED <<ring, locks, arg, idx, fifo>>

PutLoad(t) == /\ Goto(t, "put_load", "put_write")
              /\ idx' = Set(idx, t, tail)
              /\ UNCHANGED <<ring, locks, arg, ret, fifo>>

PutWrite(t) == /\ Goto(t, "put_write", "put_tail")
               /\ buffer' = Set(buffer, idx[t], arg[t])
               /\ UNCHANGED <<head, tail, count, locks, locals, fifo>>

\* Mutant of PutTail: the new tail is not wrapped at the capacity.
PutTailUnwrapped(t) == /\ Goto(t, "put_tail", "put_count")
                       /\ tail' = idx[t] + 1
                       /\ UNCHANGED <<head, count, buffer, locks, locals, fifo>>

PutTail(t) == /\ Goto(t, "put_tail", "put_count")
              /\ tail' = (idx[t] + 1) % Capacity
              /\ UNCHANGED <<head, count, buffer, locks, locals, fifo>>

\* The increment publishes the item: the put takes effect here.
PutCount(t) == /\ Goto(t, "put_count", "put_unlock")
               /\ count' = count + 1
               /\ ret' = Set(ret, t, OK)
               /\ fifo' = Append(fifo, arg[t])
               /\ UNCHANGED <<head, tail, buffer, locks, arg, idx>>

\* Mutants of PutUnlock: the lock is kept on one of the two outcomes.
PutUnlockOnFailure(t) == /\ Goto(t, "put_unlock", "return")
                         /\ producer_lock' = IF ret[t] = FULL THEN 0
                                             ELSE producer_lock
                         /\ UNCHANGED <<ring, consumer_lock, locals, fifo>>

PutUnlockOnSuccess(t) == /\ Goto(t, "put_unlock", "return")
                         /\ producer_lock' = IF ret[t] = OK THEN 0
                                             ELSE producer_lock
                         /\ UNCHANGED <<ring, consumer_lock, locals, fifo>>

PutUnlock(t) == /\ Goto(t, "put_unlock", "return")
                /\ producer_lock' = 0
                /\ UNCHANGED <<ring, consumer_lock, locals, fifo>>

-----------------------------------------------------------------------------
(* ring_buffer_get *)

GetFast(t) == /\ \/ count = 0 /\ Goto(t, "get_fast", "return")
                 \/ count # 0 /\ Goto(t, "get_fast", "get_lock")
              /\ UNCHANGED <<ring, locks, locals, fifo>>

\* Mutant of GetLock: the exchange of the spinlock ignores the old value.
GetLockIgnoresHolder(t) == /\ Goto(t, "get_lock", "get_check")
                           /\ consumer_lock' = 1
                           /\ UNCHANGED <<ring, producer_lock, locals, fifo>>

GetLock(t) == /\ Goto(t, "get_lock", "get_check")
              /\ consumer_lock = 0
              /\ consumer_lock' = 1
              /\ UNCHANGED <<ring, producer_lock, locals, fifo>>

GetCheck(t) == /\ \/ count > 0 /\ Goto(t, "get_check", "get_load")
                  \/ count = 0 /\ Goto(t, "get_check", "get_unlock")
               /\ UNCHANGED <<ring, locks, locals, fifo>>

GetLoad(t) == /\ Goto(t, "get_load", "get_read")
              /\ idx' = Set(idx, t, head)
              /\ UNCHANGED <<ring, locks, arg, ret, fifo>>

\* What the read of slot i yields in the two versions of the source.
ItemAt(i) == IF SlotAddress THEN SlotPtr(i) ELSE buffer[i]

GetRead(t) == /\ Goto(t, "get_read", "get_head")
              /\ ret' = Set(ret, t, ItemAt(idx[t]))
              /\ UNCHANGED <<ring, locks, arg, idx, fifo>>

\* Mutant of GetHead: the read index stays where it is.
GetHeadForgotten(t) == /\ Goto(t, "get_head", "get_count")
                       /\ UNCHANGED <<ring, locks, locals, fifo>>

GetHead(t) == /\ Goto(t, "get_head", "get_count")
              /\ head' = (idx[t] + 1) % Capacity
              /\ UNCHANGED <<tail, count, buffer, locks, locals, fifo>>

\* The decrement frees the slot: the get takes effect here.
GetCount(t) == /\ Goto(t, "get_count", "get_unlock")
               /\ count' = count - 1
               /\ fifo' = Tail(fifo)
               /\ UNCHANGED <<head, tail, buffer, locks, locals>>

\* Mutant of GetUnlock: a get that found the ring empty keeps the lock.
GetUnlockOnSuccess(t) == /\ Goto(t, "get_unlock", "return")
                         /\ consumer_lock' = IF ret[t] = NULL THEN consumer_lock
                                             ELSE 0
                         /\ UNCHANGED <<ring, producer_lock, locals, fifo>>

GetUnlock(t) == /\ Goto(t, "get_unlock", "return")
                /\ consumer_lock' = 0
                /\ UNCHANGED <<ring, producer_lock, locals, fifo>>

-----------------------------------------------------------------------------
(* ring_buffer_reset: producer lock first, then consumer lock. *)

ResetLockProducers(t) == /\ Goto(t, "reset_plock", "reset_clock")
                         /\ producer_lock = 0
                         /\ producer_lock' = 1
                         /\ UNCHANGED <<ring, consumer_lock, locals, fifo>>

ResetLockConsumers(t) == /\ Goto(t, "reset_clock", "reset_head")
                         /\ consumer_lock = 0
                         /\ consumer_lock' = 1
                         /\ UNCHANGED <<ring, producer_lock, locals, fifo>>

ResetHead(t) == /\ Goto(t, "reset_head", "reset_tail")
                /\ head' = 0
                /\ UNCHANGED <<tail, count, buffer, locks, locals, fifo>>

\* Mutant of ResetTail: the write index is forgotten.
ResetTailForgotten(t) == /\ Goto(t, "reset_tail", "reset_count")
                         /\ UNCHANGED <<ring, locks, locals, fifo>>

ResetTail(t) == /\ Goto(t, "reset_tail", "reset_count")
                /\ tail' = 0
                /\ UNCHANGED <<head, count, buffer, locks, locals, fifo>>

ResetCount(t) == /\ Goto(t, "reset_count", "reset_cunlock")
                 /\ count' = 0
                 /\ fifo' = << >>
                 /\ UNCHANGED <<head, tail, buffer, locks, locals>>

ResetUnlockConsumers(t) == /\ Goto(t, "reset_cunlock", "reset_punlock")
                           /\ consumer_lock' = 0
                           /\ UNCHANGED <<ring, producer_lock, locals, fifo>>

ResetUnlockProducers(t) == /\ Goto(t, "reset_punlock", "return")
                           /\ producer_lock' = 0
                           /\ UNCHANGED <<ring, consumer_lock, locals, fifo>>

-----------------------------------------------------------------------------
Call(t) == (\E x \in Items : CallPut(t, x)) \/ CallGet(t) \/ CallReset(t)

PutStep(t) == \/ PutFast(t) \/ PutLock(t) \/ PutCheck(t) \/ PutLoad(t)
              \/ PutWrite(t) \/ PutTail(t) \/ PutCount(t) \/ PutUnlock(t)

GetStep(t) == \/ GetFast(t) \/ GetLock(t) \/ GetCheck(t) \/ GetLoad(t)
              \/ GetRead(t) \/ GetHead(t) \/ GetCount(t) \/ GetUnlock(t)

ResetStep(t) == \/ ResetLockProducers(t) \/ ResetLockConsumers(t)
                \/ ResetHead(t) \/ ResetTail(t) \/ ResetCount(t)
                \/ ResetUnlockConsumers(t) \/ ResetUnlockProducers(t)

Step(t) == PutStep(t) \/ GetStep(t) \/ ResetStep(t) \/ Return(t)

Next == \E t \in Threads : Call(t) \/ Step(t)

Spec == Init /\ [][Next]_vars

\* A thread inside an operation keeps running; nothing makes it call again.
Fairness == \A t \in Threads : WF_vars(Step(t))
FairSpec == Spec /\ Fairness

-----------------------------------------------------------------------------
PutPCs   == {"put_fast", "put_lock", "put_check", "put_load", "put_write",
             "put_tail", "put_count", "put_unlock"}
GetPCs   == {"get_fast", "get_lock", "get_check", "get_load", "get_read",
             "get_head", "get_count", "get_unlock"}
ResetPCs == {"reset_plock", "reset_clock", "reset_head", "reset_tail",
             "reset_count", "reset_cunlock", "reset_punlock"}
PCs      == {"idle", "return"} \cup PutPCs \cup GetPCs \cup ResetPCs

Answers == Items \cup {NULL, OK, FULL} \cup {SlotPtr(i) : i \in Slots}

(* Types.  The atomic fields stay in the ranges that make buffer[head] and
   buffer[tail] slots of the ring. *)
TypeOK == /\ head \in Slots /\ tail \in Slots /\ count \in 0 .. Capacity
          /\ producer_lock \in {0, 1} /\ consumer_lock \in {0, 1}
          /\ buffer \in [Slots -> Items \cup {NULL}]
          /\ pc \in [Threads -> PCs]
          /\ arg \in [Threads -> Items \cup {NULL}]
          /\ idx \in [Threads -> Slots]
          /\ ret \in [Threads -> Answers]
          /\ fifo \in Seq(Items)

\* Where a thread stands when it holds one of the spinlocks.
HoldsProducerLock(t) ==
  pc[t] \in {"put_check", "put_load", "put_write", "put_tail", "put_count",
            "put_unlock"}
           \cup (ResetPCs \ {"reset_plock"})
HoldsConsumerLock(t) ==
  pc[t] \in {"get_check", "get_load", "get_read", "get_head", "get_count",
            "get_unlock", "reset_head", "reset_tail", "reset_count",
            "reset_cunlock"}

(* Each spinlock has at most one holder, and its word tells whether it has
   one: no path of put, get or reset leaves with a lock, releases a lock it
   does not hold, or enters without it. *)
MutualExclusion ==
  /\ \A t, u \in Threads :
        /\ HoldsProducerLock(t) /\ HoldsProducerLock(u) => t = u
        /\ HoldsConsumerLock(t) /\ HoldsConsumerLock(u) => t = u
  /\ producer_lock = 1 <=> \E t \in Threads : HoldsProducerLock(t)
  /\ consumer_lock = 1 <=> \E t \in Threads : HoldsConsumerLock(t)

(* The slots are plain memory and the two sides take different locks, so
   only the count keeps a producer's write of a slot (line 82) apart from a
   consumer's access to one (line 121): they never meet on the same slot. *)
NoSlotRace ==
  \A t, u \in Threads :
     pc[t] = "put_write" /\ pc[u] = "get_read" => idx[t] # idx[u]

\* Slot number i places after slot h, for h in Slots and i in 0 .. Capacity.
Slot(h, i) == IF h + i < Capacity THEN h + i ELSE h + i - Capacity

\* An index as the count sees it: one that has moved ahead of the count is
\* taken back to the slot that the thread in flight still claims.
Claimed(index, at) == IF \E t \in Threads : pc[t] = at
                      THEN {idx[t] : t \in {u \in Threads : pc[u] = at}}
                      ELSE {index}
Fronts == Claimed(head, "get_count")
Backs  == Claimed(tail, "put_count")
Resetting == \E t \in Threads : pc[t] \in {"reset_tail", "reset_count"}

(* The ring holds the queue its callers see.  Between the two stores and the
   count update of an operation, head, tail and count do not agree (lines
   82-88, 121-127); with the operation in flight taken into account, the
   slots from the front on hold the items put and not yet taken, in order. *)
RingHoldsQueue ==
  /\ count = Len(fifo)
  /\ ~Resetting => \A front \in Fronts, back \in Backs :
                     /\ back = Slot(front, count)
                     /\ \A i \in 1 .. count :
                          buffer[Slot(front, i - 1)] = fifo[i]

(* What a consumer is about to hand out is the oldest item of the queue (its
   address in the version that answers addresses), and the ring is not empty
   when the count is decremented: the unsigned count never wraps below 0. *)
GetTakesOldest ==
  \A t \in Threads : pc[t] = "get_count" =>
     /\ count > 0
     /\ buffer[idx[t]] = Head(fifo)
     /\ ret[t] = ItemAt(idx[t])

-----------------------------------------------------------------------------
\* Where a call has taken effect, and its answer stands.
Answered == {"put_unlock", "get_unlock", "reset_cunlock", "reset_punlock",
             "return"}

(* ring_buffer.h promises a bounded FIFO buffer: every call takes effect at
   one instant.  A put takes effect when it increments the count or finds
   the ring full, a get when it decrements the count or finds it empty, a
   reset when it clears the count. *)
PhaseOf(p) == CASE p = "idle" -> "idle"
                [] p \in Answered -> "answered"
                [] p \in PutPCs \ Answered -> "put"
                [] p \in GetPCs \ Answered -> "get"
                [] p \in ResetPCs \ Answered -> "reset"

phase == [t \in Threads |-> PhaseOf(pc[t])]

\* The item read is an answer only once the slot is given up.
res == [t \in Threads |-> IF pc[t] \in {"get_head", "get_count"}
                          THEN NULL ELSE ret[t]]

BQ == INSTANCE BoundedQueue WITH queue <- fifo

(* The ring implements the bounded queue (for SlotAddress = FALSE; with
   SlotAddress = TRUE a get answers where the item was, not the item). *)
ImplementsQueue == BQ!QSpec

(* A lock that is taken is given back, however many calls keep coming.  The
   hard case is a reset, which keeps the producers out while it waits for
   the consumers' lock: it is not overtaken for ever, because the ring runs
   empty and an empty ring turns consumers away before they lock it. *)
LocksReleased == /\ producer_lock = 1 ~> producer_lock = 0
                 /\ consumer_lock = 1 ~> consumer_lock = 0
=============================================================================
