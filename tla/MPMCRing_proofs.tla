-------------------------- MODULE MPMCRing_proofs --------------------------
(***************************************************************************)
(* Theorems about MPMCRing, for every set of threads, every set of items   *)
(* and every positive capacity, in both versions of the source.            *)
(*                                                                         *)
(* The argument is one inductive invariant, IInv.  The locks alone do not  *)
(* make the ring correct, since a put and a get hold different ones; what  *)
(* does is that each side moves its index before it moves the count, and   *)
(* that the other side can move the count only away from the bound this    *)
(* side has checked.  RingHoldsQueue states the agreement of the slots     *)
(* with the queue while operations are in flight; PutRelies, GetRelies and *)
(* ResetRelies state what each thread has checked and may still rely on.   *)
(***************************************************************************)
EXTENDS MPMCRing, TLAPS

-----------------------------------------------------------------------------
(* What a thread in the middle of an operation relies on.  The locks keep the
   threads of its own side away; the rest is about the other side, which may
   move count up to Capacity or down to 0, never past what was checked. *)
PutRelies(t) ==
  /\ pc[t] \in PutPCs => arg[t] \in Items
  /\ pc[t] \in {"put_load", "put_write", "put_tail", "put_count"} =>
        count < Capacity
  /\ pc[t] \in {"put_write", "put_tail"} => idx[t] = tail
  /\ pc[t] \in {"put_tail", "put_count"} => buffer[idx[t]] = arg[t]
  /\ pc[t] = "put_count" => tail = Slot(idx[t], 1)

GetRelies(t) ==
  /\ pc[t] \in {"get_load", "get_read", "get_head", "get_count"} => count > 0
  /\ pc[t] \in {"get_read", "get_head"} => idx[t] = head
  /\ pc[t] \in {"get_head", "get_count"} => ret[t] = ItemAt(idx[t])
  /\ pc[t] = "get_count" => head = Slot(idx[t], 1)

ResetRelies(t) ==
  /\ pc[t] \in {"reset_tail", "reset_count"} => head = 0
  /\ pc[t] = "reset_count" => tail = 0

\* Nothing is answered before the call has taken effect, but for the item a
\* get has read.
Unanswered(t) == pc[t] \notin Answered \cup {"get_head", "get_count"} =>
                   ret[t] = NULL

(* The inductive invariant: no step of any thread, from any state where the
   slots agree with the queue and every thread's checks still hold, leads out
   of those states. *)
IInv == /\ TypeOK
        /\ MutualExclusion
        /\ RingHoldsQueue
        /\ \A t \in Threads :
              PutRelies(t) /\ GetRelies(t) /\ ResetRelies(t) /\ Unanswered(t)

-----------------------------------------------------------------------------
(* The wrap-around of the source's (i + 1) % capacity, without the remainder. *)
LEMMA NextSlot ==
  ASSUME NEW i \in Slots
  PROVE  (i + 1) % Capacity = Slot(i, 1)
BY RingAssumption, SMT DEF Slots, Slot

LEMMA SlotType ==
  ASSUME NEW h \in Slots, NEW i \in 0 .. Capacity
  PROVE  Slot(h, i) \in Slots
BY RingAssumption DEF Slots, Slot

(* Fewer than Capacity places from the same slot never meet. *)
LEMMA SlotInjective ==
  ASSUME NEW h \in Slots, NEW i \in 0 .. Capacity - 1, NEW j \in 0 .. Capacity - 1,
         Slot(h, i) = Slot(h, j)
  PROVE  i = j
BY RingAssumption DEF Slots, Slot

(* Walking on by one slot, at either end. *)
LEMMA SlotStep ==
  ASSUME NEW h \in Slots, NEW i \in 0 .. Capacity - 1
  PROVE  /\ Slot(Slot(h, i), 1) = Slot(h, i + 1)
         /\ Slot(Slot(h, 1), i) = Slot(h, i + 1)
BY RingAssumption DEF Slots, Slot

-----------------------------------------------------------------------------
(* Whoever holds a side's lock is the only one that can claim a slot ahead of
   that side's index. *)
LEMMA FrontsAre ==
  ASSUME MutualExclusion, NEW t \in Threads, HoldsConsumerLock(t)
  PROVE  Fronts = IF pc[t] = "get_count" THEN {idx[t]} ELSE {head}
<1>1. \A u \in Threads : pc[u] = "get_count" => u = t
  BY DEF MutualExclusion, HoldsConsumerLock
<1> QED
  BY <1>1 DEF Fronts, Claimed

LEMMA BacksAre ==
  ASSUME MutualExclusion, NEW t \in Threads, HoldsProducerLock(t)
  PROVE  Backs = IF pc[t] = "put_count" THEN {idx[t]} ELSE {tail}
<1>1. \A u \in Threads : pc[u] = "put_count" => u = t
  BY DEF MutualExclusion, HoldsProducerLock
<1> QED
  BY <1>1 DEF Backs, Claimed

(* Claimed slots are slots, and each side claims one. *)
LEMMA ClaimsType ==
  ASSUME TypeOK
  PROVE  /\ Fronts \subseteq Slots /\ Fronts # {}
         /\ Backs \subseteq Slots /\ Backs # {}
<1>1. Fronts \subseteq Slots /\ Backs \subseteq Slots
  BY DEF TypeOK, Fronts, Backs, Claimed
<1>2. Fronts # {} /\ Backs # {}
  BY DEF Fronts, Backs, Claimed
<1> QED
  BY <1>1, <1>2

(* A reset holds both locks while it stores: nobody else inside a lock sees
   the indices half cleared. *)
LEMMA NoOneResets ==
  ASSUME MutualExclusion, NEW t \in Threads,
         HoldsProducerLock(t) \/ HoldsConsumerLock(t),
         pc[t] \notin {"reset_tail", "reset_count"}
  PROVE ~Resetting
BY DEF Resetting, MutualExclusion, HoldsProducerLock, HoldsConsumerLock, ResetPCs

(* What a step leaves alone when it neither enters nor leaves the claiming
   place of its side. *)
LEMMA FrontsKept ==
  ASSUME TypeOK, NEW t \in Threads, NEW to, pc' = [pc EXCEPT ![t] = to],
         pc[t] # "get_count", to # "get_count", head' = head,
         \A u \in Threads \ {t} : idx'[u] = idx[u]
  PROVE  Fronts' = Fronts
BY DEF TypeOK, Fronts, Claimed

LEMMA BacksKept ==
  ASSUME TypeOK, NEW t \in Threads, NEW to, pc' = [pc EXCEPT ![t] = to],
         pc[t] # "put_count", to # "put_count", tail' = tail,
         \A u \in Threads \ {t} : idx'[u] = idx[u]
  PROVE  Backs' = Backs
BY DEF TypeOK, Backs, Claimed

LEMMA ResettingKept ==
  ASSUME TypeOK, NEW t \in Threads, NEW to, pc' = [pc EXCEPT ![t] = to],
         to \in {"reset_tail", "reset_count"} <=>
            pc[t] \in {"reset_tail", "reset_count"}
  PROVE  Resetting' <=> Resetting
BY DEF TypeOK, Resetting

-----------------------------------------------------------------------------
(* Steps that touch no field of the ring and no claim. *)
LEMMA RingUntouched ==
  ASSUME TypeOK, RingHoldsQueue, UNCHANGED <<ring, fifo>>,
         NEW t \in Threads, NEW to, pc' = [pc EXCEPT ![t] = to],
         {pc[t], to} \cap {"get_count", "put_count", "reset_tail", "reset_count"} = {},
         \A u \in Threads \ {t} : idx'[u] = idx[u]
  PROVE  RingHoldsQueue'
<1>1. Fronts' = Fronts /\ Backs' = Backs /\ (Resetting' <=> Resetting)
  BY FrontsKept, BacksKept, ResettingKept DEF ring
<1> QED
  BY <1>1 DEF RingHoldsQueue, Slot, ring

(* A put keeps the slots in agreement with the queue. *)
LEMMA RingPut ==
  ASSUME IInv, NEW t \in Threads, PutStep(t)
  PROVE  RingHoldsQueue'
<1> USE DEF IInv, Goto, Set
<1> DEFINE Quiet == {"put_fast", "put_lock", "put_check", "put_load", "put_write",
                     "put_unlock", "return"}
<1>1. CASE PutFast(t) \/ PutLock(t) \/ PutCheck(t) \/ PutLoad(t) \/ PutUnlock(t)
  <2>1. PICK to \in Quiet : pc' = [pc EXCEPT ![t] = to] /\ pc[t] \in Quiet
    BY <1>1 DEF PutFast, PutLock, PutCheck, PutLoad, PutUnlock
  <2>2. UNCHANGED <<ring, fifo>> /\ \A u \in Threads \ {t} : idx'[u] = idx[u]
    BY <1>1 DEF PutFast, PutLock, PutCheck, PutLoad, PutUnlock, locals, TypeOK
  <2> QED
    BY <2>1, <2>2, RingUntouched
<1>2. CASE PutWrite(t)
  <2>1. HoldsProducerLock(t) /\ pc[t] = "put_write" /\ idx[t] = tail /\ count < Capacity
    BY <1>2 DEF PutWrite, HoldsProducerLock, PutRelies
  <2>2. Backs = {tail} /\ ~Resetting
    BY <2>1, BacksAre, NoOneResets
  <2>3. Fronts' = Fronts /\ Backs' = Backs /\ (Resetting' <=> Resetting)
    BY <1>2, FrontsKept, BacksKept, ResettingKept DEF PutWrite, locals
  <2>4. ASSUME NEW front \in Fronts, NEW i \in 1 .. count
        PROVE  buffer'[Slot(front, i - 1)] = buffer[Slot(front, i - 1)]
    <3>1. front \in Slots /\ i - 1 \in 0 .. Capacity - 1 /\ count \in 0 .. Capacity - 1
      BY <2>1, RingAssumption, ClaimsType DEF TypeOK
    <3>2. Slot(front, i - 1) # tail
      BY <2>2, <3>1, SlotInjective DEF RingHoldsQueue, TypeOK
    <3> QED
      BY <1>2, <2>1, <3>1, <3>2, SlotType DEF PutWrite, TypeOK
  <2> QED
    BY <1>2, <2>2, <2>3, <2>4 DEF RingHoldsQueue, PutWrite, Slot
<1>3. CASE PutTail(t)
  <2>1. HoldsProducerLock(t) /\ pc[t] = "put_tail" /\ idx[t] = tail
    BY <1>3 DEF PutTail, HoldsProducerLock, PutRelies
  <2>2. Backs = {tail} /\ Backs' = {tail}
    <3>1. \A u \in Threads : pc[u] = "put_count" => u = t
      BY <2>1 DEF MutualExclusion, HoldsProducerLock
    <3> QED
      BY <1>3, <2>1, <3>1, BacksAre DEF PutTail, Backs, Claimed, locals, TypeOK
  <2>3. Fronts' = Fronts /\ (Resetting' <=> Resetting)
    BY <1>3, FrontsKept, ResettingKept DEF PutTail, locals
  <2> QED
    BY <1>3, <2>2, <2>3 DEF RingHoldsQueue, PutTail, Slot
<1>4. CASE PutCount(t)
  <2>1. /\ HoldsProducerLock(t) /\ pc[t] = "put_count" /\ count < Capacity
        /\ tail = Slot(idx[t], 1) /\ buffer[idx[t]] = arg[t] /\ arg[t] \in Items
    BY <1>4 DEF PutCount, HoldsProducerLock, PutRelies, PutPCs
  <2>2. Backs = {idx[t]} /\ Backs' = {tail} /\ ~Resetting
    <3>1. \A u \in Threads : pc[u] = "put_count" => u = t
      BY <2>1 DEF MutualExclusion, HoldsProducerLock
    <3>2. ~ \E u \in Threads : pc'[u] = "put_count"
      BY <1>4, <3>1 DEF PutCount, TypeOK
    <3> QED
      BY <1>4, <2>1, <3>2, BacksAre, NoOneResets DEF PutCount, Backs, Claimed
  <2>3. Fronts' = Fronts /\ (Resetting' <=> Resetting)
    BY <1>4, FrontsKept, ResettingKept DEF PutCount
  <2>4. count = Len(fifo) /\ count' = count + 1 /\ count' = Len(fifo')
    BY <1>4, <2>1 DEF RingHoldsQueue, PutCount, TypeOK
  <2>5. ASSUME NEW front \in Fronts
        PROVE  /\ tail = Slot(front, count + 1)
               /\ \A i \in 1 .. count + 1 : buffer[Slot(front, i - 1)] = fifo'[i]
    <3>1. front \in Slots /\ count \in 0 .. Capacity - 1
      BY <2>1, RingAssumption, ClaimsType DEF TypeOK
    <3>2. idx[t] = Slot(front, count)
      BY <2>2 DEF RingHoldsQueue
    <3>3. ASSUME NEW i \in 1 .. count + 1
          PROVE  buffer[Slot(front, i - 1)] = fifo'[i]
      <4>1. CASE i = count + 1
        BY <1>4, <2>1, <2>4, <3>1, <3>2, <4>1 DEF PutCount, TypeOK
      <4>2. CASE i # count + 1
        BY <1>4, <2>2, <2>4, <3>1, <4>2, RingAssumption DEF PutCount, RingHoldsQueue, TypeOK
      <4> QED
        BY <4>1, <4>2
    <3> QED
      BY <2>1, <3>1, <3>2, <3>3, SlotStep
  <2> QED
    BY <1>4, <2>2, <2>3, <2>4, <2>5 DEF RingHoldsQueue, PutCount, Slot
<1> QED
  BY <1>1, <1>2, <1>3, <1>4 DEF PutStep

(* A get keeps the slots in agreement with the queue. *)
LEMMA RingGet ==
  ASSUME IInv, NEW t \in Threads, GetStep(t)
  PROVE  RingHoldsQueue'
<1> USE DEF IInv, Goto, Set
<1> DEFINE Quiet == {"get_fast", "get_lock", "get_check", "get_load", "get_read",
                     "get_head", "get_unlock", "return"}
<1>1. CASE GetFast(t) \/ GetLock(t) \/ GetCheck(t) \/ GetLoad(t) \/ GetRead(t) \/ GetUnlock(t)
  <2>1. PICK to \in Quiet : pc' = [pc EXCEPT ![t] = to] /\ pc[t] \in Quiet
    BY <1>1 DEF GetFast, GetLock, GetCheck, GetLoad, GetRead, GetUnlock
  <2>2. UNCHANGED <<ring, fifo>> /\ \A u \in Threads \ {t} : idx'[u] = idx[u]
    BY <1>1 DEF GetFast, GetLock, GetCheck, GetLoad, GetRead, GetUnlock, locals, TypeOK
  <2> QED
    BY <2>1, <2>2, RingUntouched
<1>2. CASE GetHead(t)
  <2>1. HoldsConsumerLock(t) /\ pc[t] = "get_head" /\ idx[t] = head
    BY <1>2 DEF GetHead, HoldsConsumerLock, GetRelies
  <2>2. Fronts = {head} /\ Fronts' = {head}
    <3>1. \A u \in Threads : pc[u] = "get_count" => u = t
      BY <2>1 DEF MutualExclusion, HoldsConsumerLock
    <3> QED
      BY <1>2, <2>1, <3>1, FrontsAre DEF GetHead, Fronts, Claimed, locals, TypeOK
  <2>3. Backs' = Backs /\ (Resetting' <=> Resetting)
    BY <1>2, BacksKept, ResettingKept DEF GetHead, locals
  <2> QED
    BY <1>2, <2>2, <2>3 DEF RingHoldsQueue, GetHead, Slot
<1>3. CASE GetCount(t)
  <2>1. /\ HoldsConsumerLock(t) /\ pc[t] = "get_count" /\ count > 0
        /\ head = Slot(idx[t], 1) /\ idx[t] \in Slots /\ count \in 1 .. Capacity
    BY <1>3, RingAssumption DEF GetCount, HoldsConsumerLock, GetRelies, TypeOK
  <2>2. Fronts = {idx[t]} /\ Fronts' = {head} /\ ~Resetting
    <3>1. \A u \in Threads : pc[u] = "get_count" => u = t
      BY <2>1 DEF MutualExclusion, HoldsConsumerLock
    <3>2. ~ \E u \in Threads : pc'[u] = "get_count"
      BY <1>3, <3>1 DEF GetCount, TypeOK
    <3> QED
      BY <1>3, <2>1, <3>2, FrontsAre, NoOneResets DEF GetCount, Fronts, Claimed
  <2>3. Backs' = Backs /\ (Resetting' <=> Resetting)
    BY <1>3, BacksKept, ResettingKept DEF GetCount, locals
  <2>4. /\ count = Len(fifo) /\ count' = count - 1 /\ count' = Len(fifo')
        /\ \A i \in 1 .. count - 1 : fifo'[i] = fifo[i + 1]
    BY <1>3, <2>1 DEF RingHoldsQueue, GetCount, TypeOK
  <2>5. ASSUME NEW i \in 0 .. count - 1
        PROVE  Slot(head, i) = Slot(idx[t], i + 1)
    BY <2>1, SlotStep, RingAssumption
  <2>6. ASSUME NEW back \in Backs
        PROVE  back = Slot(head, count - 1)
    BY <2>1, <2>2, <2>5 DEF RingHoldsQueue
  <2>7. ASSUME NEW i \in 1 .. count - 1
        PROVE  buffer[Slot(head, i - 1)] = fifo'[i]
    <3>1. \A j \in 1 .. count : buffer[Slot(idx[t], j - 1)] = fifo[j]
      BY <2>2, ClaimsType DEF RingHoldsQueue
    <3>2. i + 1 \in 1 .. count /\ (i + 1) - 1 = i /\ i - 1 \in 0 .. count - 1
      BY <2>1
    <3>3. Slot(head, i - 1) = Slot(idx[t], i)
      BY <2>5, <3>2
    <3> QED
      BY <2>4, <3>1, <3>2, <3>3
  <2> QED
    BY <1>3, <2>2, <2>3, <2>4, <2>6, <2>7 DEF RingHoldsQueue, GetCount, Slot
<1> QED
  BY <1>1, <1>2, <1>3 DEF GetStep

(* A reset keeps the slots in agreement with the queue. *)
LEMMA RingReset ==
  ASSUME IInv, NEW t \in Threads, ResetStep(t)
  PROVE  RingHoldsQueue'
<1> USE DEF IInv, Goto
<1> DEFINE Quiet == {"reset_plock", "reset_clock", "reset_head", "reset_cunlock",
                     "reset_punlock", "return"}
<1>1. CASE \/ ResetLockProducers(t) \/ ResetUnlockConsumers(t) \/ ResetUnlockProducers(t)
           \/ ResetLockConsumers(t)
  <2>1. PICK to \in Quiet : pc' = [pc EXCEPT ![t] = to] /\ pc[t] \in Quiet
    BY <1>1 DEF ResetLockProducers, ResetUnlockConsumers, ResetUnlockProducers,
                ResetLockConsumers
  <2>2. UNCHANGED <<ring, fifo>> /\ \A u \in Threads \ {t} : idx'[u] = idx[u]
    BY <1>1 DEF ResetLockProducers, ResetUnlockConsumers, ResetUnlockProducers,
                ResetLockConsumers, locals
  <2> QED
    BY <2>1, <2>2, RingUntouched
<1>2. CASE ResetHead(t) \/ ResetTail(t)
  <2>1. Resetting'
    BY <1>2 DEF ResetHead, ResetTail, Resetting, TypeOK
  <2> QED
    BY <1>2, <2>1 DEF ResetHead, ResetTail, RingHoldsQueue
<1>3. CASE ResetCount(t)
  <2>1. /\ pc[t] = "reset_count" /\ head = 0 /\ tail = 0
        /\ HoldsProducerLock(t) /\ HoldsConsumerLock(t)
    BY <1>3 DEF ResetCount, ResetRelies, HoldsProducerLock, HoldsConsumerLock, ResetPCs
  <2>2. Fronts = {0} /\ Backs = {0}
    BY <2>1, FrontsAre, BacksAre
  <2>3. Fronts' = {0} /\ Backs' = {0}
    BY <1>3, <2>1, <2>2, FrontsKept, BacksKept DEF ResetCount, locals
  <2> QED
    BY <1>3, <2>3, RingAssumption DEF ResetCount, RingHoldsQueue, Slot
<1> QED
  BY <1>1, <1>2, <1>3 DEF ResetStep

(* Calling and returning touch nothing of the ring. *)
LEMMA RingCall ==
  ASSUME IInv, NEW t \in Threads, Call(t) \/ Return(t)
  PROVE  RingHoldsQueue'
<1> USE DEF IInv, Goto, Set
<1> DEFINE Quiet == {"idle", "return", "put_fast", "get_fast", "reset_plock"}
<1>1. PICK to \in Quiet : pc' = [pc EXCEPT ![t] = to] /\ pc[t] \in Quiet
  BY DEF Call, CallPut, CallGet, CallReset, Return
<1>2. UNCHANGED <<ring, fifo>> /\ \A u \in Threads \ {t} : idx'[u] = idx[u]
  BY DEF Call, CallPut, CallGet, CallReset, Return, locals, TypeOK
<1> QED
  BY <1>1, <1>2, RingUntouched

-----------------------------------------------------------------------------
(* The heart of the ring: a producer about to write a slot and a consumer that
   has loaded the head are on different slots, because the producer saw room
   and the consumer saw an item, and neither has counted its own yet. *)
LEMMA SidesApart ==
  ASSUME IInv, NEW t \in Threads, NEW u \in Threads,
         pc[t] \in {"put_write", "put_tail"}, pc[u] \in {"get_read", "get_head", "get_count"}
  PROVE  idx[t] # idx[u]
<1> USE DEF IInv
<1>1. /\ HoldsProducerLock(t) /\ HoldsConsumerLock(u)
      /\ idx[t] = tail /\ count \in 1 .. Capacity - 1 /\ idx[u] \in Slots
  BY RingAssumption DEF HoldsProducerLock, HoldsConsumerLock, PutRelies, GetRelies, TypeOK
<1>2. Backs = {idx[t]} /\ Fronts = {idx[u]} /\ ~Resetting
  BY <1>1, BacksAre, FrontsAre, NoOneResets DEF GetRelies
<1>3. idx[t] = Slot(idx[u], count)
  BY <1>2 DEF RingHoldsQueue
<1>4. Slot(idx[u], 0) = idx[u] /\ 0 \in 0 .. Capacity - 1 /\ count # 0
  BY <1>1, RingAssumption DEF Slots, Slot
<1> QED
  BY <1>1, <1>3, <1>4, SlotInjective

(* What a put in progress relies on survives every step of every thread. *)
LEMMA PutReliesStep ==
  ASSUME IInv, NEW t \in Threads, Call(t) \/ Step(t), NEW u \in Threads
  PROVE  PutRelies(u)'
<1> USE RingAssumption
    DEF IInv, TypeOK, MutualExclusion, HoldsProducerLock, PutRelies,
        Goto, Set, ring, locks, locals, PutPCs, ResetPCs, Slots
<1>1. CASE \E x \in Items : CallPut(t, x)
  BY <1>1 DEF CallPut
<1>2. CASE CallGet(t)
  BY <1>2 DEF CallGet
<1>3. CASE CallReset(t)
  BY <1>3 DEF CallReset
<1>4. CASE Return(t)
  BY <1>4 DEF Return
<1>5. CASE PutFast(t)
  BY <1>5 DEF PutFast
<1>6. CASE PutLock(t)
  BY <1>6 DEF PutLock
<1>7. CASE PutCheck(t)
  BY <1>7 DEF PutCheck
<1>8. CASE PutLoad(t)
  BY <1>8 DEF PutLoad
<1>9. CASE PutWrite(t)
  BY <1>9 DEF PutWrite
<1>10. CASE PutTail(t)
  BY <1>10, NextSlot DEF PutTail
<1>11. CASE PutCount(t)
  BY <1>11 DEF PutCount
<1>12. CASE PutUnlock(t)
  BY <1>12 DEF PutUnlock
<1>13. CASE GetFast(t)
  BY <1>13 DEF GetFast
<1>14. CASE GetLock(t)
  BY <1>14 DEF GetLock
<1>15. CASE GetCheck(t)
  BY <1>15 DEF GetCheck
<1>16. CASE GetLoad(t)
  BY <1>16 DEF GetLoad
<1>17. CASE GetRead(t)
  BY <1>17 DEF GetRead
<1>18. CASE GetHead(t)
  BY <1>18 DEF GetHead
<1>19. CASE GetCount(t)
  BY <1>19 DEF GetCount
<1>20. CASE GetUnlock(t)
  BY <1>20 DEF GetUnlock
<1>21. CASE ResetLockProducers(t)
  BY <1>21 DEF ResetLockProducers
<1>22. CASE ResetLockConsumers(t)
  BY <1>22 DEF ResetLockConsumers
<1>23. CASE ResetHead(t)
  BY <1>23 DEF ResetHead
<1>24. CASE ResetTail(t)
  BY <1>24 DEF ResetTail
<1>25. CASE ResetCount(t)
  BY <1>25 DEF ResetCount
<1>26. CASE ResetUnlockConsumers(t)
  BY <1>26 DEF ResetUnlockConsumers
<1>27. CASE ResetUnlockProducers(t)
  BY <1>27 DEF ResetUnlockProducers
<1> QED
  BY <1>1, <1>2, <1>3, <1>4, <1>5, <1>6, <1>7, <1>8, <1>9, <1>10, <1>11, <1>12,
     <1>13, <1>14, <1>15, <1>16, <1>17, <1>18, <1>19, <1>20, <1>21, <1>22,
     <1>23, <1>24, <1>25, <1>26, <1>27
     DEF Call, Step, PutStep, GetStep, ResetStep

(* What a get in progress relies on survives every step of every thread; a
   producer's write is the step that could break it. *)
LEMMA GetReliesStep ==
  ASSUME IInv, NEW t \in Threads, Call(t) \/ Step(t), NEW u \in Threads
  PROVE  GetRelies(u)'
<1> USE RingAssumption
    DEF IInv, TypeOK, MutualExclusion, HoldsConsumerLock, GetRelies,
        Goto, Set, ring, locks, locals, ResetPCs, Slots, ItemAt
<1>1. CASE \E x \in Items : CallPut(t, x)
  BY <1>1 DEF CallPut
<1>2. CASE CallGet(t)
  BY <1>2 DEF CallGet
<1>3. CASE CallReset(t)
  BY <1>3 DEF CallReset
<1>4. CASE Return(t)
  BY <1>4 DEF Return
<1>5. CASE GetFast(t)
  BY <1>5 DEF GetFast
<1>6. CASE GetLock(t)
  BY <1>6 DEF GetLock
<1>7. CASE GetCheck(t)
  BY <1>7 DEF GetCheck
<1>8. CASE GetLoad(t)
  BY <1>8 DEF GetLoad
<1>9. CASE GetRead(t)
  BY <1>9 DEF GetRead
<1>10. CASE GetHead(t)
  BY <1>10, NextSlot DEF GetHead
<1>11. CASE GetCount(t)
  BY <1>11 DEF GetCount
<1>12. CASE GetUnlock(t)
  BY <1>12 DEF GetUnlock
<1>13. CASE PutFast(t)
  BY <1>13 DEF PutFast
<1>14. CASE PutLock(t)
  BY <1>14 DEF PutLock
<1>15. CASE PutCheck(t)
  BY <1>15 DEF PutCheck
<1>16. CASE PutLoad(t)
  BY <1>16 DEF PutLoad
<1>17. CASE PutWrite(t)
  BY <1>17, SidesApart DEF PutWrite
<1>18. CASE PutTail(t)
  BY <1>18 DEF PutTail
<1>19. CASE PutCount(t)
  BY <1>19 DEF PutCount
<1>20. CASE PutUnlock(t)
  BY <1>20 DEF PutUnlock
<1>21. CASE ResetLockProducers(t)
  BY <1>21 DEF ResetLockProducers
<1>22. CASE ResetLockConsumers(t)
  BY <1>22 DEF ResetLockConsumers
<1>23. CASE ResetHead(t)
  BY <1>23 DEF ResetHead
<1>24. CASE ResetTail(t)
  BY <1>24 DEF ResetTail
<1>25. CASE ResetCount(t)
  BY <1>25 DEF ResetCount
<1>26. CASE ResetUnlockConsumers(t)
  BY <1>26 DEF ResetUnlockConsumers
<1>27. CASE ResetUnlockProducers(t)
  BY <1>27 DEF ResetUnlockProducers
<1> QED
  BY <1>1, <1>2, <1>3, <1>4, <1>5, <1>6, <1>7, <1>8, <1>9, <1>10, <1>11, <1>12,
     <1>13, <1>14, <1>15, <1>16, <1>17, <1>18, <1>19, <1>20, <1>21, <1>22,
     <1>23, <1>24, <1>25, <1>26, <1>27
     DEF Call, Step, PutStep, GetStep, ResetStep

(* What a reset in progress relies on survives every step of every thread. *)
LEMMA ResetReliesStep ==
  ASSUME IInv, NEW t \in Threads, Call(t) \/ Step(t), NEW u \in Threads
  PROVE  ResetRelies(u)'
<1> USE DEF IInv, TypeOK, MutualExclusion, HoldsProducerLock, HoldsConsumerLock,
            ResetRelies, Goto, Set, ring, locks, locals, ResetPCs
<1>1. CASE Call(t) \/ Return(t)
  BY <1>1 DEF Call, CallPut, CallGet, CallReset, Return
<1>2. CASE PutStep(t)
  BY <1>2 DEF PutStep, PutFast, PutLock, PutCheck, PutLoad, PutWrite, PutTail, PutCount,
              PutUnlock
<1>3. CASE GetStep(t)
  BY <1>3 DEF GetStep, GetFast, GetLock, GetCheck, GetLoad, GetRead, GetHead, GetCount,
              GetUnlock
<1>4. CASE ResetStep(t)
  BY <1>4 DEF ResetStep, ResetLockProducers, ResetLockConsumers, ResetHead, ResetTail,
              ResetCount, ResetUnlockConsumers, ResetUnlockProducers
<1> QED
  BY <1>1, <1>2, <1>3, <1>4 DEF Step

-----------------------------------------------------------------------------
(* The types survive every step; the count's bounds come from what the puts
   and gets in progress rely on. *)
LEMMA TypeStep ==
  ASSUME IInv, NEW t \in Threads, Call(t) \/ Step(t)
  PROVE  TypeOK'
<1> USE RingAssumption
    DEF IInv, TypeOK, Goto, Set, ring, locks, locals, PCs, PutPCs, GetPCs, ResetPCs,
        Answers, ItemAt, SlotPtr, Slots, PutRelies, GetRelies, RingHoldsQueue
<1>1. CASE \E x \in Items : CallPut(t, x)
  BY <1>1 DEF CallPut
<1>2. CASE CallGet(t)
  BY <1>2 DEF CallGet
<1>3. CASE CallReset(t)
  BY <1>3 DEF CallReset
<1>4. CASE Return(t)
  BY <1>4 DEF Return
<1>5. CASE PutFast(t)
  BY <1>5 DEF PutFast
<1>6. CASE PutLock(t)
  BY <1>6 DEF PutLock
<1>7. CASE PutCheck(t)
  BY <1>7 DEF PutCheck
<1>8. CASE PutLoad(t)
  BY <1>8 DEF PutLoad
<1>9. CASE PutWrite(t)
  BY <1>9 DEF PutWrite
<1>10. CASE PutTail(t)
  BY <1>10 DEF PutTail
<1>11. CASE PutCount(t)
  BY <1>11 DEF PutCount
<1>12. CASE PutUnlock(t)
  BY <1>12 DEF PutUnlock
<1>13. CASE GetFast(t)
  BY <1>13 DEF GetFast
<1>14. CASE GetLock(t)
  BY <1>14 DEF GetLock
<1>15. CASE GetCheck(t)
  BY <1>15 DEF GetCheck
<1>16. CASE GetLoad(t)
  BY <1>16 DEF GetLoad
<1>17. CASE GetRead(t)
  BY <1>17 DEF GetRead
<1>18. CASE GetHead(t)
  BY <1>18 DEF GetHead
<1>19. CASE GetCount(t)
  BY <1>19 DEF GetCount
<1>20. CASE GetUnlock(t)
  BY <1>20 DEF GetUnlock
<1>21. CASE ResetLockProducers(t)
  BY <1>21 DEF ResetLockProducers
<1>22. CASE ResetLockConsumers(t)
  BY <1>22 DEF ResetLockConsumers
<1>23. CASE ResetHead(t)
  BY <1>23 DEF ResetHead
<1>24. CASE ResetTail(t)
  BY <1>24 DEF ResetTail
<1>25. CASE ResetCount(t)
  BY <1>25 DEF ResetCount
<1>26. CASE ResetUnlockConsumers(t)
  BY <1>26 DEF ResetUnlockConsumers
<1>27. CASE ResetUnlockProducers(t)
  BY <1>27 DEF ResetUnlockProducers
<1> QED
  BY <1>1, <1>2, <1>3, <1>4, <1>5, <1>6, <1>7, <1>8, <1>9, <1>10, <1>11, <1>12,
     <1>13, <1>14, <1>15, <1>16, <1>17, <1>18, <1>19, <1>20, <1>21, <1>22,
     <1>23, <1>24, <1>25, <1>26, <1>27
     DEF Call, Step, PutStep, GetStep, ResetStep

(* So does the agreement of the lock words with their holders. *)
LEMMA MutexStep ==
  ASSUME IInv, NEW t \in Threads, Call(t) \/ Step(t)
  PROVE  MutualExclusion'
<1> USE DEF IInv, MutualExclusion, HoldsProducerLock, HoldsConsumerLock, ResetPCs,
            TypeOK, Goto, locks
<1>1. CASE \E x \in Items : CallPut(t, x)
  BY <1>1 DEF CallPut
<1>2. CASE CallGet(t)
  BY <1>2 DEF CallGet
<1>3. CASE CallReset(t)
  BY <1>3 DEF CallReset
<1>4. CASE Return(t)
  BY <1>4 DEF Return
<1>5. CASE PutFast(t)
  BY <1>5 DEF PutFast
<1>6. CASE PutLock(t)
  BY <1>6 DEF PutLock
<1>7. CASE PutCheck(t)
  BY <1>7 DEF PutCheck
<1>8. CASE PutLoad(t)
  BY <1>8 DEF PutLoad
<1>9. CASE PutWrite(t)
  BY <1>9 DEF PutWrite
<1>10. CASE PutTail(t)
  BY <1>10 DEF PutTail
<1>11. CASE PutCount(t)
  BY <1>11 DEF PutCount
<1>12. CASE PutUnlock(t)
  BY <1>12 DEF PutUnlock
<1>13. CASE GetFast(t)
  BY <1>13 DEF GetFast
<1>14. CASE GetLock(t)
  BY <1>14 DEF GetLock
<1>15. CASE GetCheck(t)
  BY <1>15 DEF GetCheck
<1>16. CASE GetLoad(t)
  BY <1>16 DEF GetLoad
<1>17. CASE GetRead(t)
  BY <1>17 DEF GetRead
<1>18. CASE GetHead(t)
  BY <1>18 DEF GetHead
<1>19. CASE GetCount(t)
  BY <1>19 DEF GetCount
<1>20. CASE GetUnlock(t)
  BY <1>20 DEF GetUnlock
<1>21. CASE ResetLockProducers(t)
  BY <1>21 DEF ResetLockProducers
<1>22. CASE ResetLockConsumers(t)
  BY <1>22 DEF ResetLockConsumers
<1>23. CASE ResetHead(t)
  BY <1>23 DEF ResetHead
<1>24. CASE ResetTail(t)
  BY <1>24 DEF ResetTail
<1>25. CASE ResetCount(t)
  BY <1>25 DEF ResetCount
<1>26. CASE ResetUnlockConsumers(t)
  BY <1>26 DEF ResetUnlockConsumers
<1>27. CASE ResetUnlockProducers(t)
  BY <1>27 DEF ResetUnlockProducers
<1> QED
  BY <1>1, <1>2, <1>3, <1>4, <1>5, <1>6, <1>7, <1>8, <1>9, <1>10, <1>11, <1>12,
     <1>13, <1>14, <1>15, <1>16, <1>17, <1>18, <1>19, <1>20, <1>21, <1>22,
     <1>23, <1>24, <1>25, <1>26, <1>27
     DEF Call, Step, PutStep, GetStep, ResetStep

(* No call answers before it takes effect. *)
LEMMA UnansweredStep ==
  ASSUME IInv, NEW t \in Threads, Call(t) \/ Step(t), NEW u \in Threads
  PROVE  Unanswered(u)'
<1> USE DEF IInv, TypeOK, Unanswered, Answered, Goto, Set, locals
<1>1. CASE Call(t) \/ Return(t)
  BY <1>1 DEF Call, CallPut, CallGet, CallReset, Return
<1>2. CASE PutStep(t)
  BY <1>2 DEF PutStep, PutFast, PutLock, PutCheck, PutLoad, PutWrite, PutTail, PutCount,
              PutUnlock
<1>3. CASE GetStep(t)
  BY <1>3 DEF GetStep, GetFast, GetLock, GetCheck, GetLoad, GetRead, GetHead, GetCount,
              GetUnlock
<1>4. CASE ResetStep(t)
  BY <1>4 DEF ResetStep, ResetLockProducers, ResetLockConsumers, ResetHead, ResetTail,
              ResetCount, ResetUnlockConsumers, ResetUnlockProducers
<1> QED
  BY <1>1, <1>2, <1>3, <1>4 DEF Step

-----------------------------------------------------------------------------
(* The invariant holds at first ... *)
LEMMA InitIInv == Init => IInv
<1> SUFFICES ASSUME Init PROVE IInv
  OBVIOUS
<1> USE RingAssumption DEF Init
<1>1. TypeOK
  BY DEF TypeOK, Slots, PCs, Answers
<1>2. MutualExclusion
  BY DEF MutualExclusion, HoldsProducerLock, HoldsConsumerLock, ResetPCs
<1>3. RingHoldsQueue
  BY DEF RingHoldsQueue, Fronts, Backs, Claimed, Slot
<1>4. \A t \in Threads : PutRelies(t) /\ GetRelies(t) /\ ResetRelies(t) /\ Unanswered(t)
  BY DEF PutRelies, GetRelies, ResetRelies, Unanswered, PutPCs
<1> QED
  BY <1>1, <1>2, <1>3, <1>4 DEF IInv

(* ... and every step keeps it. *)
LEMMA NextIInv == IInv /\ [Next]_vars => IInv'
<1> SUFFICES ASSUME IInv, [Next]_vars PROVE IInv'
  OBVIOUS
<1>1. ASSUME NEW t \in Threads, Call(t) \/ Step(t)
      PROVE  IInv'
  <2>1. RingHoldsQueue'
    BY <1>1, RingCall, RingPut, RingGet, RingReset DEF Step
  <2> QED
    BY <1>1, <2>1, TypeStep, MutexStep, PutReliesStep, GetReliesStep, ResetReliesStep,
       UnansweredStep DEF IInv
<1>2. CASE UNCHANGED vars
  BY <1>2 DEF vars, ring, locks, locals, IInv, TypeOK, MutualExclusion, HoldsProducerLock,
              HoldsConsumerLock, RingHoldsQueue, Fronts, Backs, Claimed, Resetting, Slot,
              PutRelies, GetRelies, ResetRelies, Unanswered, ItemAt, SlotPtr
<1> QED
  BY <1>1, <1>2 DEF Next

(* For any number of threads and items and any capacity, whatever the
   interleaving of puts, gets and resets, the ring stays in the states that
   IInv describes. *)
THEOREM Invariant == Spec => []IInv
BY InitIInv, NextIInv, PTL DEF Spec

(* The indices stay inside the ring and the unsigned count between 0
   and the capacity: no decrement wraps, no increment overfills. *)
THEOREM TypeCorrect == Spec => []TypeOK
<1>1. IInv => TypeOK
  BY DEF IInv
<1> QED
  BY <1>1, Invariant, PTL

(* Each spinlock of the ring has at most one holder, and its word
   says whether it has one. *)
THEOREM LocksExclude == Spec => []MutualExclusion
<1>1. IInv => MutualExclusion
  BY DEF IInv
<1> QED
  BY <1>1, Invariant, PTL

(* From the front on, the slots hold the items put and not yet taken,
   in the order in which they were put. *)
THEOREM SlotsHoldQueue == Spec => []RingHoldsQueue
<1>1. IInv => RingHoldsQueue
  BY DEF IInv
<1> QED
  BY <1>1, Invariant, PTL

(* A producer never writes the slot a consumer is accessing, although
   they hold different locks. *)
THEOREM SlotsNotRaced == Spec => []NoSlotRace
<1>1. IInv => NoSlotRace
  BY SidesApart DEF NoSlotRace
<1> QED
  BY <1>1, Invariant, PTL

(* A consumer that is about to decrement the count has read the oldest item. *)
LEMMA OldestTaken ==
  ASSUME IInv, NEW t \in Threads, pc[t] = "get_count"
  PROVE  /\ count > 0 /\ fifo # << >>
         /\ buffer[idx[t]] = Head(fifo) /\ ret[t] = ItemAt(idx[t])
<1> USE DEF IInv
<1>1. HoldsConsumerLock(t) /\ count > 0 /\ ret[t] = ItemAt(idx[t]) /\ idx[t] \in Slots
  BY DEF HoldsConsumerLock, GetRelies, TypeOK
<1>2. Fronts = {idx[t]} /\ Backs # {} /\ ~Resetting
  BY <1>1, FrontsAre, NoOneResets, ClaimsType
<1>3. count = Len(fifo) /\ buffer[Slot(idx[t], 1 - 1)] = fifo[1]
  BY <1>1, <1>2 DEF RingHoldsQueue, TypeOK
<1>4. Slot(idx[t], 1 - 1) = idx[t]
  BY <1>1, RingAssumption DEF Slot, Slots
<1> QED
  BY <1>1, <1>3, <1>4 DEF TypeOK

(* A get hands out the oldest item, or in 04_shared_mempool its
   address, and decrements only a positive count. *)
THEOREM GetsTakeOldest == Spec => []GetTakesOldest
<1>1. IInv => GetTakesOldest
  BY OldestTaken DEF GetTakesOldest
<1> QED
  BY <1>1, Invariant, PTL

-----------------------------------------------------------------------------
(* How a step of one thread shows in the abstract queue's view of it. *)
LEMMA PhaseMoves ==
  ASSUME TypeOK, NEW t \in Threads, NEW from, NEW to, Goto(t, from, to)
  PROVE  /\ phase[t] = PhaseOf(from)
         /\ phase' = [phase EXCEPT ![t] = PhaseOf(to)]
BY DEF phase, TypeOK, Goto

LEMMA Phases ==
  /\ PhaseOf("idle") = "idle"
  /\ \A p \in {"put_unlock", "get_unlock", "reset_cunlock", "reset_punlock", "return"} :
        PhaseOf(p) = "answered"
  /\ \A p \in {"put_fast", "put_lock", "put_check", "put_load", "put_write", "put_tail",
             "put_count"} : PhaseOf(p) = "put"
  /\ \A p \in {"get_fast", "get_lock", "get_check", "get_load", "get_read", "get_head",
             "get_count"} : PhaseOf(p) = "get"
  /\ \A p \in {"reset_plock", "reset_clock", "reset_head", "reset_tail", "reset_count"} :
        PhaseOf(p) = "reset"
BY DEF PhaseOf, Answered, PutPCs, GetPCs, ResetPCs

LEMMA ResMoves ==
  ASSUME TypeOK, NEW t \in Threads, NEW from, NEW to, Goto(t, from, to),
         \A u \in Threads \ {t} : ret'[u] = ret[u]
  PROVE  /\ res[t] = IF from \in {"get_head", "get_count"} THEN NULL ELSE ret[t]
         /\ res' = [res EXCEPT ![t] = IF to \in {"get_head", "get_count"}
                                      THEN NULL ELSE ret'[t]]
BY DEF res, TypeOK, Goto

(* A step that changes neither what its thread is doing nor its answer is
   invisible in the abstract queue. *)
LEMMA Stutter ==
  ASSUME TypeOK, NEW t \in Threads, NEW from, NEW to, Goto(t, from, to),
         PhaseOf(from) = PhaseOf(to), UNCHANGED <<arg, fifo>>,
         \A u \in Threads \ {t} : ret'[u] = ret[u],
         (IF from \in {"get_head", "get_count"} THEN NULL ELSE ret[t])
           = IF to \in {"get_head", "get_count"} THEN NULL ELSE ret'[t]
  PROVE  UNCHANGED BQ!qvars
<1>1. /\ phase = [u \in Threads |-> phase[u]]
      /\ res = [u \in Threads |-> res[u]]
  BY DEF phase, res
<1>2. phase' = [phase EXCEPT ![t] = phase[t]]
  BY PhaseMoves
<1>3. res' = [res EXCEPT ![t] = res[t]]
  BY ResMoves
<1> QED
  BY <1>1, <1>2, <1>3 DEF BQ!qvars

(* Calls begin and returns end operations of the abstract queue. *)
LEMMA CallRefines ==
  ASSUME IInv, NEW t \in Threads, Call(t) \/ Return(t)
  PROVE  BQ!QNext
<1> USE DEF IInv, Set, locals
<1>1. ASSUME NEW x \in Items, CallPut(t, x)
      PROVE  BQ!BeginPut(t, x)
  <2>1. phase[t] = "idle" /\ phase' = [phase EXCEPT ![t] = "put"]
    BY <1>1, PhaseMoves, Phases DEF CallPut
  <2>2. res' = res
    BY <1>1 DEF CallPut, Goto, res, TypeOK
  <2> QED
    BY <1>1, <2>1, <2>2 DEF CallPut, BQ!BeginPut, BQ!Begin
<1>2. CASE CallGet(t)
  <2>1. phase[t] = "idle" /\ phase' = [phase EXCEPT ![t] = "get"]
    BY <1>2, PhaseMoves, Phases DEF CallGet
  <2>2. res' = res
    BY <1>2 DEF CallGet, Goto, res, TypeOK
  <2>3. BQ!BeginGet(t)
    BY <1>2, <2>1, <2>2 DEF CallGet, BQ!BeginGet, BQ!Begin
  <2> QED
    BY <2>3 DEF BQ!QNext
<1>3. CASE CallReset(t)
  <2>1. phase[t] = "idle" /\ phase' = [phase EXCEPT ![t] = "reset"]
    BY <1>3, PhaseMoves, Phases DEF CallReset
  <2>2. res' = res
    BY <1>3 DEF CallReset, Goto, res, TypeOK
  <2>3. BQ!BeginReset(t)
    BY <1>3, <2>1, <2>2 DEF CallReset, BQ!BeginReset, BQ!Begin
  <2> QED
    BY <2>3 DEF BQ!QNext
<1>4. CASE Return(t)
  <2>1. phase[t] = "answered" /\ phase' = [phase EXCEPT ![t] = "idle"]
    BY <1>4, PhaseMoves, Phases DEF Return
  <2>2. res' = [res EXCEPT ![t] = NULL]
    BY <1>4, ResMoves DEF Return, TypeOK
  <2>3. BQ!End(t)
    BY <1>4, <2>1, <2>2 DEF Return, BQ!End
  <2> QED
    BY <2>3 DEF BQ!QNext
<1> QED
  BY <1>1, <1>2, <1>3, <1>4 DEF Call, BQ!QNext

(* A put is refused where it finds the ring full, done where it increments the
   count, and invisible at its other steps. *)
LEMMA PutRefines ==
  ASSUME IInv, NEW t \in Threads, PutStep(t)
  PROVE  BQ!QNext \/ UNCHANGED BQ!qvars
<1> USE DEF IInv, Set, locals
<1> DEFINE Before == {"put_fast", "put_lock", "put_check", "put_load", "put_write",
                      "put_tail", "put_count"}
<1>1. ASSUME NEW from \in Before, NEW to \in {"return", "put_unlock"}, Goto(t, from, to),
             count >= Capacity, ret' = [ret EXCEPT ![t] = FULL], UNCHANGED <<arg, fifo>>
      PROVE  BQ!QNext
  <2>1. phase[t] = "put" /\ phase' = [phase EXCEPT ![t] = "answered"]
    BY <1>1, PhaseMoves, Phases
  <2>2. res' = [res EXCEPT ![t] = FULL]
    BY <1>1, ResMoves DEF TypeOK
  <2>3. Len(fifo) = Capacity
    BY <1>1, RingAssumption DEF RingHoldsQueue, TypeOK
  <2>4. BQ!PutFull(t)
    BY <1>1, <2>1, <2>2, <2>3 DEF BQ!PutFull, BQ!Answer
  <2> QED
    BY <2>4 DEF BQ!QNext
<1>2. CASE PutFast(t)
  <2>1. CASE count >= Capacity
    BY <1>1, <1>2, <2>1, RingAssumption DEF PutFast, TypeOK
  <2>2. CASE ~(count >= Capacity)
    <3>1. Goto(t, "put_fast", "put_lock") /\ UNCHANGED <<arg, ret, fifo>>
      BY <1>2, <2>2 DEF PutFast
    <3> QED
      BY <3>1, Stutter, Phases
  <2> QED
    BY <2>1, <2>2
<1>3. CASE PutCheck(t)
  <2>1. CASE count >= Capacity
    BY <1>1, <1>3, <2>1, RingAssumption DEF PutCheck, TypeOK
  <2>2. CASE ~(count >= Capacity)
    <3>1. Goto(t, "put_check", "put_load") /\ UNCHANGED <<arg, ret, fifo>>
      BY <1>3, <2>2 DEF PutCheck
    <3> QED
      BY <3>1, Stutter, Phases
  <2> QED
    BY <2>1, <2>2
<1>4. CASE PutLock(t) \/ PutLoad(t) \/ PutWrite(t) \/ PutTail(t)
  <2>1. PICK from \in Before, to \in Before : Goto(t, from, to)
    BY <1>4 DEF PutLock, PutLoad, PutWrite, PutTail
  <2>2. UNCHANGED <<arg, ret, fifo>>
    BY <1>4 DEF PutLock, PutLoad, PutWrite, PutTail
  <2> QED
    BY <2>1, <2>2, Stutter, Phases
<1>5. CASE PutCount(t)
  <2>1. phase[t] = "put" /\ phase' = [phase EXCEPT ![t] = "answered"]
    BY <1>5, PhaseMoves, Phases DEF PutCount
  <2>2. res' = [res EXCEPT ![t] = OK]
    BY <1>5, ResMoves DEF PutCount, TypeOK
  <2>3. Len(fifo) < Capacity
    BY <1>5 DEF PutCount, Goto, RingHoldsQueue, PutRelies
  <2>4. BQ!PutOk(t)
    BY <1>5, <2>1, <2>2, <2>3 DEF PutCount, BQ!PutOk, BQ!Answer
  <2> QED
    BY <2>4 DEF BQ!QNext
<1>6. CASE PutUnlock(t)
  <2>1. Goto(t, "put_unlock", "return") /\ UNCHANGED <<arg, ret, fifo>>
    BY <1>6 DEF PutUnlock
  <2> QED
    BY <2>1, Stutter, Phases
<1> QED
  BY <1>2, <1>3, <1>4, <1>5, <1>6 DEF PutStep

(* A get finds the buffer empty or takes the oldest item at its decrement. *)
LEMMA GetRefines ==
  ASSUME IInv, ~SlotAddress, NEW t \in Threads, GetStep(t)
  PROVE  BQ!QNext \/ UNCHANGED BQ!qvars
<1> USE DEF IInv, Set, locals
<1> DEFINE Before == {"get_fast", "get_lock", "get_check", "get_load", "get_read"}
<1>1. ASSUME NEW from \in Before, NEW to \in {"return", "get_unlock"}, Goto(t, from, to),
             count = 0, UNCHANGED <<arg, ret, fifo>>
      PROVE  BQ!QNext
  <2>1. phase[t] = "get" /\ phase' = [phase EXCEPT ![t] = "answered"]
    BY <1>1, PhaseMoves, Phases
  <2>2. ret[t] = NULL
    BY <1>1 DEF Goto, Unanswered, Answered
  <2>3. res' = [res EXCEPT ![t] = NULL]
    BY <1>1, <2>2, ResMoves
  <2>4. fifo = << >>
    <3>1. fifo \in Seq(Items) /\ Len(fifo) = 0
      BY <1>1 DEF RingHoldsQueue, TypeOK
    <3> QED
      BY <3>1
  <2>5. BQ!GetEmpty(t)
    BY <1>1, <2>1, <2>3, <2>4 DEF BQ!GetEmpty, BQ!Answer
  <2> QED
    BY <2>5 DEF BQ!QNext
<1>2. CASE GetFast(t)
  <2>1. CASE count = 0
    BY <1>1, <1>2, <2>1 DEF GetFast
  <2>2. CASE count # 0
    <3>1. Goto(t, "get_fast", "get_lock") /\ UNCHANGED <<arg, ret, fifo>>
      BY <1>2, <2>2 DEF GetFast
    <3> QED
      BY <3>1, Stutter, Phases
  <2> QED
    BY <2>1, <2>2
<1>3. CASE GetCheck(t)
  <2>1. CASE count = 0
    BY <1>1, <1>3, <2>1 DEF GetCheck
  <2>2. CASE count # 0
    <3>1. Goto(t, "get_check", "get_load") /\ UNCHANGED <<arg, ret, fifo>>
      BY <1>3, <2>2 DEF GetCheck
    <3> QED
      BY <3>1, Stutter, Phases
  <2> QED
    BY <2>1, <2>2
<1>4. CASE GetLock(t) \/ GetLoad(t)
  <2>1. PICK from \in Before, to \in Before : Goto(t, from, to)
    BY <1>4 DEF GetLock, GetLoad
  <2>2. UNCHANGED <<arg, ret, fifo>>
    BY <1>4 DEF GetLock, GetLoad
  <2> QED
    BY <2>1, <2>2, Stutter, Phases
<1>5. CASE GetRead(t)
  <2>1. Goto(t, "get_read", "get_head") /\ UNCHANGED <<arg, fifo>>
    BY <1>5 DEF GetRead
  <2>2. ret[t] = NULL /\ \A u \in Threads \ {t} : ret'[u] = ret[u]
    BY <1>5 DEF GetRead, Goto, Unanswered, Answered, TypeOK
  <2> QED
    BY <2>1, <2>2, Stutter, Phases
<1>6. CASE GetHead(t)
  <2>1. Goto(t, "get_head", "get_count") /\ UNCHANGED <<arg, ret, fifo>>
    BY <1>6 DEF GetHead
  <2> QED
    BY <2>1, Stutter, Phases
<1>7. CASE GetCount(t)
  <2>1. Goto(t, "get_count", "get_unlock") /\ UNCHANGED <<arg, ret>> /\ fifo' = Tail(fifo)
    BY <1>7 DEF GetCount
  <2>2. phase[t] = "get" /\ phase' = [phase EXCEPT ![t] = "answered"]
    BY <2>1, PhaseMoves, Phases
  <2>3. fifo # << >> /\ ret[t] = Head(fifo)
    BY <2>1, OldestTaken DEF Goto, ItemAt
  <2>4. res' = [res EXCEPT ![t] = Head(fifo)]
    BY <2>1, <2>3, ResMoves
  <2>5. BQ!GetOk(t)
    BY <2>1, <2>2, <2>3, <2>4 DEF BQ!GetOk, BQ!Answer
  <2> QED
    BY <2>5 DEF BQ!QNext
<1>8. CASE GetUnlock(t)
  <2>1. Goto(t, "get_unlock", "return") /\ UNCHANGED <<arg, ret, fifo>>
    BY <1>8 DEF GetUnlock
  <2> QED
    BY <2>1, Stutter, Phases
<1> QED
  BY <1>2, <1>3, <1>4, <1>5, <1>6, <1>7, <1>8 DEF GetStep

(* A reset takes effect when it clears the count. *)
LEMMA ResetRefines ==
  ASSUME IInv, NEW t \in Threads, ResetStep(t)
  PROVE  BQ!QNext \/ UNCHANGED BQ!qvars
<1> USE DEF IInv, locals
<1>1. CASE ResetLockProducers(t) \/ ResetLockConsumers(t) \/ ResetHead(t) \/ ResetTail(t)
  <2> DEFINE Before == {"reset_plock", "reset_clock", "reset_head", "reset_tail", "reset_count"}
  <2>1. PICK from \in Before, to \in Before : Goto(t, from, to)
    BY <1>1 DEF ResetLockProducers, ResetLockConsumers, ResetHead, ResetTail
  <2>2. UNCHANGED <<arg, ret, fifo>>
    BY <1>1 DEF ResetLockProducers, ResetLockConsumers, ResetHead, ResetTail
  <2> QED
    BY <2>1, <2>2, Stutter, Phases
<1>2. CASE ResetCount(t)
  <2>1. Goto(t, "reset_count", "reset_cunlock") /\ UNCHANGED <<arg, ret>> /\ fifo' = << >>
    BY <1>2 DEF ResetCount
  <2>2. phase[t] = "reset" /\ phase' = [phase EXCEPT ![t] = "answered"]
    BY <2>1, PhaseMoves, Phases
  <2>3. ret[t] = NULL
    BY <2>1 DEF Goto, Unanswered, Answered
  <2>4. res' = [res EXCEPT ![t] = NULL]
    BY <2>1, <2>3, ResMoves
  <2>5. BQ!Reset(t)
    BY <2>1, <2>2, <2>4 DEF BQ!Reset, BQ!Answer
  <2> QED
    BY <2>5 DEF BQ!QNext
<1>3. CASE ResetUnlockConsumers(t) \/ ResetUnlockProducers(t)
  <2>1. PICK from \in {"reset_cunlock", "reset_punlock"}, to \in {"reset_punlock", "return"} :
           Goto(t, from, to)
    BY <1>3 DEF ResetUnlockConsumers, ResetUnlockProducers
  <2>2. UNCHANGED <<arg, ret, fifo>>
    BY <1>3 DEF ResetUnlockConsumers, ResetUnlockProducers
  <2> QED
    BY <2>1, <2>2, Stutter, Phases
<1> QED
  BY <1>1, <1>2, <1>3 DEF ResetStep

(* The ring whose gets answer the stored pointer implements the
   bounded queue of ring_buffer.h: every call takes effect at one instant
   between its call and its return. *)
THEOREM Implements ==
  ASSUME ~SlotAddress
  PROVE  Spec => ImplementsQueue
<1>1. Init => BQ!QInit
  <2> SUFFICES ASSUME Init PROVE BQ!QInit
    OBVIOUS
  <2>1. phase = [t \in Threads |-> "idle"]
    BY Phases DEF Init, phase
  <2>2. res = [t \in Threads |-> NULL]
    BY DEF Init, res
  <2> QED
    BY <2>1, <2>2 DEF Init, BQ!QInit
<1>2. IInv /\ [Next]_vars => [BQ!QNext]_BQ!qvars
  <2> SUFFICES ASSUME IInv, [Next]_vars PROVE BQ!QNext \/ UNCHANGED BQ!qvars
    OBVIOUS
  <2>1. ASSUME NEW t \in Threads, Call(t) \/ Step(t)
        PROVE  BQ!QNext \/ UNCHANGED BQ!qvars
    BY <2>1, CallRefines, PutRefines, GetRefines, ResetRefines DEF Step
  <2>2. CASE UNCHANGED vars
    BY <2>2 DEF vars, locals, phase, res, BQ!qvars
  <2> QED
    BY <2>1, <2>2 DEF Next
<1> QED
  BY <1>1, <1>2, Invariant, PTL DEF Spec, ImplementsQueue, BQ!QSpec
====
