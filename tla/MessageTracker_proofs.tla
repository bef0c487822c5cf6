----------------------- MODULE MessageTracker_proofs -----------------------
(***************************************************************************)
(* Theorems about MessageTracker, for any number of entries, blocks,       *)
(* senders and messages.                                                   *)
(***************************************************************************)
EXTENDS MessageTracker, TLAPS, FiniteSetTheorems

(* What the theorems assume, each where it needs it: that nothing is ever
   freed, as in the program as built, or that there is one reader; one
   reader; at most two. *)
Alone  == \A q, r \in Readers : q = r
Steady == ~PoolAccepts \/ Alone
Pair   == \A p, q, r \in Readers : p = q \/ q = r \/ p = r

-----------------------------------------------------------------------------
(* Where the threads are. *)
Adding    == {"add_find", "add_block", "add_ref", "add_mask", "add_count",
              "add_unlock", "add_refuse"}
Freeing   == {"free_check", "free_block", "free_clear", "free_mask", "free_unlock"}
Holder(t) == pc[t] \in Adding \cup Freeing

\* A sender has a block that is nowhere else; it has a message not yet visible.
Owns(s)    == pc[s] \in {"send_write", "add_lock", "add_find", "add_block",
                         "add_refuse", "send_free"}
Pending(s) == pc[s] \in {"add_lock", "add_find", "add_block", "add_ref", "add_mask"}
Filling(s) == pc[s] \in {"add_ref", "add_mask", "add_count", "add_unlock"}

\* A reader has found a message; it has handed it to the callback; it has
\* cleared its bit.
Marked(r)  == pc[r] \in {"mark_sub", "free", "free_ref", "free_lock", "free_check",
                         "free_block", "free_clear"}
Given(r)   == pc[r] \in {"mark", "mark_load", "mark_store"} \/ Marked(r)
Working(r) == pc[r] \in {"message", "callback"} \/ Given(r)

\* A block of entry i is on its way back.
Leaving(i) == \E r \in Readers : pc[r] = "free_clear" /\ at[r] = i

-----------------------------------------------------------------------------
(* The values of the variables, and of the locals where they are in use. *)
Places == /\ pc \in [Threads -> SenderPCs \cup ReaderPCs]
          /\ \A s \in Senders : pc[s] \in SenderPCs
          /\ \A r \in Readers : pc[r] \in ReaderPCs

Owned  == /\ own \in [Threads -> Blocks \cup {NULL}]
          /\ \A s \in Senders : pc[s] # "idle" => own[s] \in Blocks
          /\ \A r \in Readers : Working(r) /\ pc[r] # "message" => own[r] \in Blocks

Aimed  == /\ at \in [Threads -> 0 .. Slots]
          /\ best \in [Readers -> [entry : 0 .. Slots, ts : 0 .. MaxTime + 1]]
          /\ \A s \in Senders : pc[s] = "add_block" \/ Filling(s) => at[s] \in Index
          /\ \A r \in Readers :
               /\ pc[r] = "idle" => at[r] = 0 /\ best[r] = None
               /\ best[r] # None => best[r].entry \in Index
               /\ Working(r) \/ pc[r] \in {"free_mask", "free_unlock"} => at[r] \in Index

Values == /\ block \in [Index -> Blocks \cup {NULL}]
          /\ ref \in [Index -> 0 .. Word - 1]
          /\ mask \in [Index -> SUBSET Readers] /\ old \in [Threads -> SUBSET Readers]
          /\ ts \in [Index -> 0 .. MaxTime] /\ now \in 0 .. MaxTime
          /\ count \in 0 .. Word - 1 /\ next \in Index /\ lock \in {0, 1}
          /\ pool \in Seq(Blocks)

Writing  == {u \in Senders : pc[u] = "send_write"}
Sent     == /\ sent \in Nat /\ sent + Cardinality(Writing) <= MaxMessages
            /\ due \in Seq(Masks) /\ Len(due) = sent
Recorded == /\ carries \in [Blocks -> 0 .. MaxMessages]
            /\ text \in [Words -> 0 .. MaxMessages]
            /\ holds \in [Index -> 0 .. MaxMessages]
            /\ got \in [Readers -> Seq(0 .. MaxMessages)]

Types == Places /\ Owned /\ Aimed /\ Values /\ Sent /\ Recorded

Locked == /\ lock = 0 => \A t \in Threads : ~Holder(t)
          /\ \A t, u \in Threads : Holder(t) /\ Holder(u) => t = u

(* The entries: a message is visible when it is complete. *)
Complete == \A i \in Index : /\ block[i] = NULL => holds[i] = 0
                             /\ mask[i] # {} => holds[i] # 0
Filled   == \A s \in Senders : /\ pc[s] = "add_block" => block[at[s]] = NULL
                               /\ Filling(s) => block[at[s]] = own[s]
                               /\ pc[s] \in {"add_ref", "add_mask"} => holds[at[s]] = 0
KeptBy(r) == /\ pc[r] = "scan" /\ best[r] # None => holds[best[r].entry] # 0
             /\ Working(r) => holds[at[r]] # 0
             /\ Working(r) /\ pc[r] # "message" => own[r] = block[at[r]]
Kept     == \A r \in Readers : KeptBy(r)

SeesBit(r) == /\ pc[r] = "scan" /\ best[r] # None => r \in mask[best[r].entry]
              /\ Working(r) => (r \in mask[at[r]] <=> ~Marked(r))
Cleared  == /\ ~PoolAccepts => \A r \in Readers : pc[r] \notin {"free_clear", "free_mask"}
            /\ Alone => \A r \in Readers : SeesBit(r)

Emptied  == \A r \in Readers : pc[r] = "free_mask" => at[r] \in Index /\ holds[at[r]] = 0

Used == {i \in Index : block[i] # NULL}
Uncounted(s) == pc[s] \in {"add_ref", "add_mask", "add_count"}
Counted == /\ \A s \in Senders : Uncounted(s) => Cardinality(Used) = count + 1
           /\ \A r \in Readers : pc[r] = "free_mask" => count = Cardinality(Used) + 1
           /\ (\A t \in Threads : ~Uncounted(t) /\ pc[t] # "free_mask") =>
                 count = Cardinality(Used)

(* The blocks: each in one place. *)
Shared == /\ IsInjective(pool)
          /\ \A i \in Index : block[i] \in ToSet(pool) => Leaving(i)
          /\ \A i, j \in Index : i # j /\ block[i] # NULL => block[i] # block[j]
          /\ \A s \in Senders : Owns(s) =>
                /\ own[s] \notin ToSet(pool)
                /\ \A i \in Index : own[s] = block[i] => Leaving(i)
                /\ \A u \in Senders : u # s /\ Owns(u) => own[u] # own[s]

(* The messages: one number, one entry. *)
Numbered == /\ \A i \in Index : holds[i] # 0 =>
                  /\ holds[i] \in 1 .. sent
                  /\ carries[block[i]] = holds[i] \/ Leaving(i)
            /\ \A i, j \in Index : i # j /\ holds[i] # 0 => holds[i] # holds[j]
            /\ \A r \in Readers : ToSet(got[r]) \subseteq 1 .. sent

Message(s) == carries[own[s]]
Fresh == \A s \in Senders : Pending(s) =>
            /\ Message(s) \in 1 .. sent /\ due[Message(s)] = old[s]
            /\ \A i \in Index : holds[i] # Message(s)
            /\ \A r \in Readers : ~Handed(r, Message(s))
            /\ \A u \in Senders : u # s /\ Pending(u) => Message(u) # Message(s)

(* The readers: a bit is not missing before its message was handed over. *)
GivenBy(r) == Given(r) =>
                /\ Handed(r, holds[at[r]])
                /\ pc[r] = "mark_store" =>
                      \A q \in due[holds[at[r]]] : q \in old[r] \/ Handed(q, holds[at[r]])
Visible == UnreadStaysVisible /\ \A r \in Readers : GivenBy(r)

Frame == Types /\ Locked /\ Complete /\ Filled /\ Kept /\ Cleared /\ Emptied
IInv  == Frame /\ Counted /\ Shared /\ Numbered /\ Fresh /\ Visible

(* One reader: what it sees it has not been handed. *)
Marking(r) == pc[r] \in {"mark", "mark_load", "mark_store"}
UnseenBy(r) == /\ IsInjective(got[r])
               /\ \A i \in Index :
                    holds[i] # 0 /\ r \in mask[i] /\ ~(at[r] = i /\ Marking(r)) =>
                       ~Handed(r, holds[i])
Unseen == \A r \in Readers : UnseenBy(r)

(* Two readers: as long as one of them has not been handed a message, the
   reference count has a part for it, and one for the other's mark. *)
Owed(q, i) == holds[i] # 0 /\ q \in due[holds[i]] /\ ~Handed(q, holds[i])
InMark(r, i) == at[r] = i /\ pc[r] = "mark_sub"
CountsFor(q, i) == /\ ref[i] >= 1
                   /\ \A r \in Readers \ {q} :
                        /\ r \in mask[i] \/ InMark(r, i) => ref[i] >= 2
                        /\ pc[r] = "mark_store" /\ at[r] = i => r \in mask[i]
                        /\ InMark(r, i) => r \notin mask[i]
Referred == /\ \A s \in Senders : pc[s] = "add_mask" => ref[at[s]] = Cardinality(old[s])
            /\ \A q \in Readers, i \in Index : Owed(q, i) => CountsFor(q, i)
            /\ \A r, q \in Readers : pc[r] = "free_block" => ~Owed(q, at[r])

-----------------------------------------------------------------------------
(* The constants. *)
LEMMA Constants ==
  /\ Slots \in Nat \ {0} /\ Word \in Nat \ {0} /\ MaxTime \in Nat /\ MaxMessages \in Nat
  /\ Slots < Word /\ Readers \cap Senders = {} /\ NULL \notin Blocks
  /\ PoolAccepts \in BOOLEAN /\ Masks \subseteq SUBSET Readers
  /\ \A m \in SUBSET Readers : IsFiniteSet(m) /\ Cardinality(m) \in 0 .. Word - 1
<1>1. ASSUME NEW m \in SUBSET Readers PROVE IsFiniteSet(m) /\ Cardinality(m) \in 0 .. Word - 1
  <2>1. IsFiniteSet(m) /\ Cardinality(m) <= Cardinality(Readers) /\ Cardinality(m) \in Nat
    BY <1>1, FS_Subset, FS_CardinalityType, TrackerAssumption
  <2>2. Cardinality(Readers) \in Nat
    BY FS_CardinalityType, TrackerAssumption
  <2> QED
    BY <2>1, <2>2, TrackerAssumption
<1> QED
  BY <1>1, TrackerAssumption

LEMMA Remainders ==
  ASSUME NEW n \in Nat \ {0}, NEW k \in Nat
  PROVE  k % n \in 0 .. n - 1
OBVIOUS

LEMMA NoneType == None \in [entry : 0 .. Slots, ts : 0 .. MaxTime + 1] /\ None.entry = Slots
  BY Constants DEF None

\* What the search of AddFind finds is an entry, and it is available.
LEMMA SearchFinds ==
  ASSUME next \in Index, NEW k \in Available
  PROVE  Searched(k) \in Index /\ block[Searched(k)] = NULL
<1>1. k \in Nat /\ next + k \in Nat
  BY Constants DEF Index, Available
<1> QED
  BY <1>1, Remainders, Constants DEF Available, Searched, Index

-----------------------------------------------------------------------------
(* The types. *)
LEMMA PlacesStep ==
  ASSUME Places, [Next]_vars PROVE Places'
<1> USE DEF Goto, Set, shared, entries, locals, history, Places, Threads, SenderPCs,
    ReaderPCs
<1>1. ASSUME UNCHANGED vars PROVE Places'
  BY <1>1, Constants DEF vars
<1>2. ASSUME Tick PROVE Places'
  BY <1>2, Constants DEF Tick
<1>3. ASSUME NEW s \in Senders, SendAlloc(s) PROVE Places'
  BY <1>3, Constants DEF SendAlloc
<1>4. ASSUME NEW s \in Senders, SendWrite(s) PROVE Places'
  BY <1>4, Constants DEF SendWrite
<1>5. ASSUME NEW s \in Senders, AddLock(s) PROVE Places'
  BY <1>5, Constants DEF AddLock
<1>6. ASSUME NEW s \in Senders, AddFind(s) PROVE Places'
  BY <1>6, Constants DEF AddFind
<1>7. ASSUME NEW s \in Senders, AddBlock(s) PROVE Places'
  BY <1>7, Constants DEF AddBlock
<1>8. ASSUME NEW s \in Senders, AddRef(s) PROVE Places'
  BY <1>8, Constants DEF AddRef
<1>9. ASSUME NEW s \in Senders, AddMask(s) PROVE Places'
  BY <1>9, Constants DEF AddMask
<1>10. ASSUME NEW s \in Senders, AddCount(s) PROVE Places'
  BY <1>10, Constants DEF AddCount
<1>11. ASSUME NEW s \in Senders, AddUnlock(s) PROVE Places'
  BY <1>11, Constants DEF AddUnlock, Forget
<1>12. ASSUME NEW s \in Senders, AddRefuse(s) PROVE Places'
  BY <1>12, Constants DEF AddRefuse
<1>13. ASSUME NEW s \in Senders, SendFree(s) PROVE Places'
  BY <1>13, Constants DEF SendFree, Forget
<1>14. ASSUME NEW r \in Readers, Poll(r) PROVE Places'
  BY <1>14, Constants DEF Poll
<1>15. ASSUME NEW r \in Readers, ScanEntry(r) PROVE Places'
  BY <1>15, Constants DEF ScanEntry, Seen
<1>16. ASSUME NEW r \in Readers, ScanEnd(r) PROVE Places'
  BY <1>16, Constants DEF ScanEnd, Rescan, Forget
<1>17. ASSUME NEW r \in Readers, GetMessage(r) PROVE Places'
  BY <1>17, Constants DEF GetMessage, Rescan, Forget
<1>18. ASSUME NEW r \in Readers, Callback(r) PROVE Places'
  BY <1>18, Constants DEF Callback
<1>19. ASSUME NEW r \in Readers, MarkExists(r) PROVE Places'
  BY <1>19, Constants DEF MarkExists
<1>20. ASSUME NEW r \in Readers, MarkLoad(r) PROVE Places'
  BY <1>20, Constants DEF MarkLoad
<1>21. ASSUME NEW r \in Readers, MarkStore(r) PROVE Places'
  BY <1>21, Constants DEF MarkStore
<1>22. ASSUME NEW r \in Readers, MarkSub(r) PROVE Places'
  BY <1>22, Constants DEF MarkSub
<1>23. ASSUME NEW r \in Readers, FreeExists(r) PROVE Places'
  BY <1>23, Constants DEF FreeExists, Rescan, Forget
<1>24. ASSUME NEW r \in Readers, FreeRef(r) PROVE Places'
  BY <1>24, Constants DEF FreeRef, Rescan, Forget
<1>25. ASSUME NEW r \in Readers, FreeLock(r) PROVE Places'
  BY <1>25, Constants DEF FreeLock
<1>26. ASSUME NEW r \in Readers, FreeCheck(r) PROVE Places'
  BY <1>26, Constants DEF FreeCheck
<1>27. ASSUME NEW r \in Readers, FreeBlock(r) PROVE Places'
  BY <1>27, Constants DEF FreeBlock
<1>28. ASSUME NEW r \in Readers, FreeClear(r) PROVE Places'
  BY <1>28, Constants DEF FreeClear
<1>29. ASSUME NEW r \in Readers, FreeMask(r) PROVE Places'
  BY <1>29, Constants DEF FreeMask
<1>30. ASSUME NEW r \in Readers, FreeUnlock(r) PROVE Places'
  BY <1>30, Constants DEF FreeUnlock, Rescan, Forget
<1> QED
  BY <1>1, <1>2, <1>3, <1>4, <1>5, <1>6, <1>7, <1>8, <1>9, <1>10, <1>11, <1>12, <1>13,
     <1>14, <1>15, <1>16, <1>17, <1>18, <1>19, <1>20, <1>21, <1>22, <1>23, <1>24, <1>25,
     <1>26, <1>27, <1>28, <1>29, <1>30 DEF Next, Sending, Reading

LEMMA OwnedStep ==
  ASSUME Places, Owned, Aimed, block \in [Index -> Blocks \cup {NULL}],
         pool \in Seq(Blocks), [Next]_vars
  PROVE  Owned'
<1> USE DEF Goto, Set, shared, entries, locals, history, Places, Owned, Threads, Working,
    Given, Marked
<1>1. ASSUME UNCHANGED vars PROVE Owned'
  BY <1>1, Constants DEF vars
<1>2. ASSUME Tick PROVE Owned'
  BY <1>2, Constants DEF Tick
<1>3. ASSUME NEW s \in Senders, SendAlloc(s) PROVE Owned'
  <2>1. Head(pool) \in Blocks
    BY <1>3 DEF SendAlloc
  <2> QED
    BY <2>1, <1>3, Constants DEF SendAlloc
<1>4. ASSUME NEW s \in Senders, SendWrite(s) PROVE Owned'
  BY <1>4, Constants DEF SendWrite
<1>5. ASSUME NEW s \in Senders, AddLock(s) PROVE Owned'
  BY <1>5, Constants DEF AddLock
<1>6. ASSUME NEW s \in Senders, AddFind(s) PROVE Owned'
  BY <1>6, Constants DEF AddFind
<1>7. ASSUME NEW s \in Senders, AddBlock(s) PROVE Owned'
  BY <1>7, Constants DEF AddBlock
<1>8. ASSUME NEW s \in Senders, AddRef(s) PROVE Owned'
  BY <1>8, Constants DEF AddRef
<1>9. ASSUME NEW s \in Senders, AddMask(s) PROVE Owned'
  BY <1>9, Constants DEF AddMask
<1>10. ASSUME NEW s \in Senders, AddCount(s) PROVE Owned'
  BY <1>10, Constants DEF AddCount
<1>11. ASSUME NEW s \in Senders, AddUnlock(s) PROVE Owned'
  BY <1>11, Constants DEF AddUnlock, Forget
<1>12. ASSUME NEW s \in Senders, AddRefuse(s) PROVE Owned'
  BY <1>12, Constants DEF AddRefuse
<1>13. ASSUME NEW s \in Senders, SendFree(s) PROVE Owned'
  BY <1>13, Constants DEF SendFree, Forget
<1>14. ASSUME NEW r \in Readers, Poll(r) PROVE Owned'
  BY <1>14, Constants DEF Poll
<1>15. ASSUME NEW r \in Readers, ScanEntry(r) PROVE Owned'
  BY <1>15, Constants DEF ScanEntry, Seen
<1>16. ASSUME NEW r \in Readers, ScanEnd(r) PROVE Owned'
  BY <1>16, Constants DEF ScanEnd, Rescan, Forget
<1>17. ASSUME NEW r \in Readers, GetMessage(r) PROVE Owned'
  <2>1. at[r] \in Index
    BY <1>17 DEF GetMessage, Aimed
  <2>2. block[at[r]] \in Blocks \cup {NULL}
    BY <2>1
  <2> QED
    BY <2>2, <1>17, Constants DEF GetMessage, Rescan, Forget
<1>18. ASSUME NEW r \in Readers, Callback(r) PROVE Owned'
  BY <1>18, Constants DEF Callback
<1>19. ASSUME NEW r \in Readers, MarkExists(r) PROVE Owned'
  BY <1>19, Constants DEF MarkExists
<1>20. ASSUME NEW r \in Readers, MarkLoad(r) PROVE Owned'
  BY <1>20, Constants DEF MarkLoad
<1>21. ASSUME NEW r \in Readers, MarkStore(r) PROVE Owned'
  BY <1>21, Constants DEF MarkStore
<1>22. ASSUME NEW r \in Readers, MarkSub(r) PROVE Owned'
  BY <1>22, Constants DEF MarkSub
<1>23. ASSUME NEW r \in Readers, FreeExists(r) PROVE Owned'
  <2>1. at[r] \in Index
    BY <1>23 DEF FreeExists, Aimed
  <2>2. block[at[r]] \in Blocks \cup {NULL}
    BY <2>1
  <2> QED
    BY <2>2, <1>23, Constants DEF FreeExists, Rescan, Forget
<1>24. ASSUME NEW r \in Readers, FreeRef(r) PROVE Owned'
  BY <1>24, Constants DEF FreeRef, Rescan, Forget
<1>25. ASSUME NEW r \in Readers, FreeLock(r) PROVE Owned'
  BY <1>25, Constants DEF FreeLock
<1>26. ASSUME NEW r \in Readers, FreeCheck(r) PROVE Owned'
  BY <1>26, Constants DEF FreeCheck
<1>27. ASSUME NEW r \in Readers, FreeBlock(r) PROVE Owned'
  BY <1>27, Constants DEF FreeBlock
<1>28. ASSUME NEW r \in Readers, FreeClear(r) PROVE Owned'
  BY <1>28, Constants DEF FreeClear
<1>29. ASSUME NEW r \in Readers, FreeMask(r) PROVE Owned'
  BY <1>29, Constants DEF FreeMask
<1>30. ASSUME NEW r \in Readers, FreeUnlock(r) PROVE Owned'
  BY <1>30, Constants DEF FreeUnlock, Rescan, Forget
<1> QED
  BY <1>1, <1>2, <1>3, <1>4, <1>5, <1>6, <1>7, <1>8, <1>9, <1>10, <1>11, <1>12, <1>13,
     <1>14, <1>15, <1>16, <1>17, <1>18, <1>19, <1>20, <1>21, <1>22, <1>23, <1>24, <1>25,
     <1>26, <1>27, <1>28, <1>29, <1>30 DEF Next, Sending, Reading

LEMMA AimedStep ==
  ASSUME Places, Aimed, next \in Index, ts \in [Index -> 0 .. MaxTime], [Next]_vars
  PROVE  Aimed'
<1> USE DEF Goto, Set, shared, entries, locals, history, Places, Aimed, Threads, Working,
    Given, Marked, Filling
<1>1. ASSUME UNCHANGED vars PROVE Aimed'
  BY <1>1, Constants, NoneType DEF vars
<1>2. ASSUME Tick PROVE Aimed'
  BY <1>2, Constants, NoneType DEF Tick
<1>3. ASSUME NEW s \in Senders, SendAlloc(s) PROVE Aimed'
  BY <1>3, Constants, NoneType DEF SendAlloc
<1>4. ASSUME NEW s \in Senders, SendWrite(s) PROVE Aimed'
  BY <1>4, Constants, NoneType DEF SendWrite
<1>5. ASSUME NEW s \in Senders, AddLock(s) PROVE Aimed'
  BY <1>5, Constants, NoneType DEF AddLock
<1>6. ASSUME NEW s \in Senders, AddFind(s) PROVE Aimed'
  <2>1. CASE UNCHANGED at /\ pc' = [pc EXCEPT ![s] = "add_refuse"]
    BY <2>1, <1>6, Constants DEF AddFind
  <2>2. ASSUME NEW k \in Available, at' = [at EXCEPT ![s] = Searched(k)]
        PROVE  Aimed'
    <3>1. Searched(k) \in Index /\ Searched(k) \in 0 .. Slots
      BY SearchFinds, Constants DEF Index
    <3> QED
      BY <2>2, <3>1, <1>6, Constants DEF AddFind
  <2> QED
    BY <2>1, <2>2, <1>6 DEF AddFind
<1>7. ASSUME NEW s \in Senders, AddBlock(s) PROVE Aimed'
  BY <1>7, Constants, NoneType DEF AddBlock
<1>8. ASSUME NEW s \in Senders, AddRef(s) PROVE Aimed'
  BY <1>8, Constants, NoneType DEF AddRef
<1>9. ASSUME NEW s \in Senders, AddMask(s) PROVE Aimed'
  BY <1>9, Constants, NoneType DEF AddMask
<1>10. ASSUME NEW s \in Senders, AddCount(s) PROVE Aimed'
  BY <1>10, Constants, NoneType DEF AddCount
<1>11. ASSUME NEW s \in Senders, AddUnlock(s) PROVE Aimed'
  BY <1>11, Constants, NoneType DEF AddUnlock, Forget
<1>12. ASSUME NEW s \in Senders, AddRefuse(s) PROVE Aimed'
  BY <1>12, Constants, NoneType DEF AddRefuse
<1>13. ASSUME NEW s \in Senders, SendFree(s) PROVE Aimed'
  BY <1>13, Constants, NoneType DEF SendFree, Forget
<1>14. ASSUME NEW r \in Readers, Poll(r) PROVE Aimed'
  BY <1>14, Constants, NoneType DEF Poll
<1>15. ASSUME NEW r \in Readers, ScanEntry(r) PROVE Aimed'
  <2>1. at[r] \in Index
    BY <1>15, Constants DEF ScanEntry, Index
  <2>2. /\ Seen(r) \in [entry : 0 .. Slots, ts : 0 .. MaxTime + 1]
        /\ Seen(r) # None => Seen(r).entry \in Index
    BY <2>1, Constants DEF Seen, Index
  <2>3. at[r] + 1 \in 0 .. Slots
    BY <2>1, Constants DEF Index
  <2> HIDE DEF Seen
  <2> QED
    BY <2>1, <2>2, <2>3, <1>15 DEF ScanEntry
<1>16. ASSUME NEW r \in Readers, ScanEnd(r) PROVE Aimed'
  <2>1. best[r] # None => best[r].entry \in Index /\ best[r].entry \in 0 .. Slots
    BY <1>16, Constants DEF ScanEnd, Index
  <2> QED
    BY <2>1, <1>16, Constants, NoneType DEF ScanEnd, Rescan, Forget
<1>17. ASSUME NEW r \in Readers, GetMessage(r) PROVE Aimed'
  BY <1>17, Constants, NoneType DEF GetMessage, Rescan, Forget
<1>18. ASSUME NEW r \in Readers, Callback(r) PROVE Aimed'
  BY <1>18, Constants, NoneType DEF Callback
<1>19. ASSUME NEW r \in Readers, MarkExists(r) PROVE Aimed'
  BY <1>19, Constants, NoneType DEF MarkExists
<1>20. ASSUME NEW r \in Readers, MarkLoad(r) PROVE Aimed'
  BY <1>20, Constants, NoneType DEF MarkLoad
<1>21. ASSUME NEW r \in Readers, MarkStore(r) PROVE Aimed'
  BY <1>21, Constants, NoneType DEF MarkStore
<1>22. ASSUME NEW r \in Readers, MarkSub(r) PROVE Aimed'
  BY <1>22, Constants, NoneType DEF MarkSub
<1>23. ASSUME NEW r \in Readers, FreeExists(r) PROVE Aimed'
  BY <1>23, Constants, NoneType DEF FreeExists, Rescan, Forget
<1>24. ASSUME NEW r \in Readers, FreeRef(r) PROVE Aimed'
  BY <1>24, Constants, NoneType DEF FreeRef, Rescan, Forget
<1>25. ASSUME NEW r \in Readers, FreeLock(r) PROVE Aimed'
  BY <1>25, Constants, NoneType DEF FreeLock
<1>26. ASSUME NEW r \in Readers, FreeCheck(r) PROVE Aimed'
  BY <1>26, Constants, NoneType DEF FreeCheck
<1>27. ASSUME NEW r \in Readers, FreeBlock(r) PROVE Aimed'
  BY <1>27, Constants, NoneType, SMTT(30) DEF FreeBlock
<1>28. ASSUME NEW r \in Readers, FreeClear(r) PROVE Aimed'
  BY <1>28, Constants, NoneType DEF FreeClear
<1>29. ASSUME NEW r \in Readers, FreeMask(r) PROVE Aimed'
  BY <1>29, Constants, NoneType DEF FreeMask
<1>30. ASSUME NEW r \in Readers, FreeUnlock(r) PROVE Aimed'
  BY <1>30, Constants, NoneType DEF FreeUnlock, Rescan, Forget
<1> QED
  BY <1>1, <1>2, <1>3, <1>4, <1>5, <1>6, <1>7, <1>8, <1>9, <1>10, <1>11, <1>12, <1>13,
     <1>14, <1>15, <1>16, <1>17, <1>18, <1>19, <1>20, <1>21, <1>22, <1>23, <1>24, <1>25,
     <1>26, <1>27, <1>28, <1>29, <1>30 DEF Next, Sending, Reading

LEMMA ValuesStep ==
  ASSUME Places, Owned, Aimed, Values, [Next]_vars PROVE Values'
<1> USE DEF Goto, Set, shared, entries, locals, history, Places, Owned, Values, Threads,
    Working, Given, Marked, Filling
<1>1. ASSUME UNCHANGED vars PROVE Values'
  BY <1>1, Constants DEF vars
<1>2. ASSUME Tick PROVE Values'
  BY <1>2, Constants DEF Tick
<1>3. ASSUME NEW s \in Senders, SendAlloc(s) PROVE Values'
  BY <1>3, Constants DEF SendAlloc
<1>4. ASSUME NEW s \in Senders, SendWrite(s) PROVE Values'
  BY <1>4, Constants DEF SendWrite
<1>5. ASSUME NEW s \in Senders, AddLock(s) PROVE Values'
  BY <1>5, Constants DEF AddLock
<1>6. ASSUME NEW s \in Senders, AddFind(s) PROVE Values'
  BY <1>6, Constants DEF AddFind
<1>7. ASSUME NEW s \in Senders, AddBlock(s) PROVE Values'
  <2>1. own[s] \in Blocks
    BY <1>7 DEF AddBlock
  <2> QED
    BY <2>1, <1>7, Constants DEF AddBlock
<1>8. ASSUME NEW s \in Senders, AddRef(s) PROVE Values'
  <2>1. Cardinality(old[s]) \in 0 .. Word - 1
    BY <1>8, Constants DEF AddRef
  <2> QED
    BY <2>1, <1>8, Constants DEF AddRef
<1>9. ASSUME NEW s \in Senders, AddMask(s) PROVE Values'
  BY <1>9, Constants DEF AddMask
<1>10. ASSUME NEW s \in Senders, AddCount(s) PROVE Values'
  <2>1. at[s] + 1 \in Nat /\ count + 1 \in Nat
    BY <1>10, Constants DEF AddCount, Aimed, Index
  <2>2. (at[s] + 1) % Slots \in Index /\ (count + 1) % Word \in 0 .. Word - 1
    BY <2>1, Remainders, Constants DEF Index
  <2> QED
    BY <2>2, <1>10, Constants DEF AddCount
<1>11. ASSUME NEW s \in Senders, AddUnlock(s) PROVE Values'
  BY <1>11, Constants DEF AddUnlock, Forget
<1>12. ASSUME NEW s \in Senders, AddRefuse(s) PROVE Values'
  BY <1>12, Constants DEF AddRefuse
<1>13. ASSUME NEW s \in Senders, SendFree(s) PROVE Values'
  <2>1. own[s] \in Blocks
    BY <1>13 DEF SendFree
  <2> QED
    BY <2>1, <1>13, Constants DEF SendFree, Forget
<1>14. ASSUME NEW r \in Readers, Poll(r) PROVE Values'
  BY <1>14, Constants DEF Poll
<1>15. ASSUME NEW r \in Readers, ScanEntry(r) PROVE Values'
  BY <1>15, Constants DEF ScanEntry, Seen
<1>16. ASSUME NEW r \in Readers, ScanEnd(r) PROVE Values'
  BY <1>16, Constants DEF ScanEnd, Rescan, Forget
<1>17. ASSUME NEW r \in Readers, GetMessage(r) PROVE Values'
  BY <1>17, Constants DEF GetMessage, Rescan, Forget
<1>18. ASSUME NEW r \in Readers, Callback(r) PROVE Values'
  BY <1>18, Constants DEF Callback
<1>19. ASSUME NEW r \in Readers, MarkExists(r) PROVE Values'
  BY <1>19, Constants DEF MarkExists
<1>20. ASSUME NEW r \in Readers, MarkLoad(r) PROVE Values'
  <2>1. at[r] \in Index
    BY <1>20 DEF MarkLoad, Aimed
  <2> QED
    BY <2>1, <1>20, Constants DEF MarkLoad
<1>21. ASSUME NEW r \in Readers, MarkStore(r) PROVE Values'
  BY <1>21, Constants DEF MarkStore
<1>22. ASSUME NEW r \in Readers, MarkSub(r) PROVE Values'
  <2>1. at[r] \in Index
    BY <1>22 DEF MarkSub, Aimed
  <2>2. ref[at[r]] + Word - 1 \in Nat
    BY <2>1, Constants
  <2>3. (ref[at[r]] + Word - 1) % Word \in 0 .. Word - 1
    BY <2>2, Remainders, Constants
  <2> QED
    BY <2>3, <1>22, Constants DEF MarkSub
<1>23. ASSUME NEW r \in Readers, FreeExists(r) PROVE Values'
  BY <1>23, Constants DEF FreeExists, Rescan, Forget
<1>24. ASSUME NEW r \in Readers, FreeRef(r) PROVE Values'
  BY <1>24, Constants DEF FreeRef, Rescan, Forget
<1>25. ASSUME NEW r \in Readers, FreeLock(r) PROVE Values'
  BY <1>25, Constants DEF FreeLock
<1>26. ASSUME NEW r \in Readers, FreeCheck(r) PROVE Values'
  BY <1>26, Constants DEF FreeCheck
<1>27. ASSUME NEW r \in Readers, FreeBlock(r) PROVE Values'
  <2>1. Append(pool, own[r]) \in Seq(Blocks)
    BY <1>27 DEF FreeBlock
  <2>2. pool' \in Seq(Blocks)
    BY <2>1, <1>27 DEF FreeBlock
  <2> QED
    BY <2>2, <1>27 DEF FreeBlock
<1>28. ASSUME NEW r \in Readers, FreeClear(r) PROVE Values'
  <2>1. block' \in [Index -> Blocks \cup {NULL}]
    BY <1>28 DEF FreeClear
  <2>2. 0 \in 0 .. MaxTime
    BY Constants
  <2>3. ts' \in [Index -> 0 .. MaxTime]
    BY <2>2, <1>28 DEF FreeClear
  <2> QED
    BY <2>1, <2>3, <1>28 DEF FreeClear
<1>29. ASSUME NEW r \in Readers, FreeMask(r) PROVE Values'
  <2>1. count + Word - 1 \in Nat
    BY Constants
  <2>2. (count + Word - 1) % Word \in 0 .. Word - 1
    BY <2>1, Remainders, Constants
  <2> QED
    BY <2>2, <1>29, Constants DEF FreeMask
<1>30. ASSUME NEW r \in Readers, FreeUnlock(r) PROVE Values'
  BY <1>30, Constants DEF FreeUnlock, Rescan, Forget
<1> QED
  BY <1>1, <1>2, <1>3, <1>4, <1>5, <1>6, <1>7, <1>8, <1>9, <1>10, <1>11, <1>12, <1>13,
     <1>14, <1>15, <1>16, <1>17, <1>18, <1>19, <1>20, <1>21, <1>22, <1>23, <1>24, <1>25,
     <1>26, <1>27, <1>28, <1>29, <1>30 DEF Next, Sending, Reading

\* Only these two change what Sent speaks of.
SendingStep == \/ \E s \in Senders : SendAlloc(s) \/ SendWrite(s)
               \/ Writing' = Writing /\ UNCHANGED <<sent, due, carries, text>>

LEMMA SendingEffect ==
  ASSUME Places, [Next]_vars PROVE SendingStep
<1> USE DEF Goto, Set, shared, entries, locals, history, Places, Threads, Writing
<1>1. ASSUME UNCHANGED vars PROVE SendingStep
  BY <1>1, Constants DEF vars, SendingStep
<1>2. ASSUME Tick PROVE SendingStep
  BY <1>2, Constants DEF Tick, SendingStep
<1>3. ASSUME NEW s \in Senders, SendAlloc(s) PROVE SendingStep
  BY <1>3 DEF SendingStep
<1>4. ASSUME NEW s \in Senders, SendWrite(s) PROVE SendingStep
  BY <1>4 DEF SendingStep
<1>5. ASSUME NEW s \in Senders, AddLock(s) PROVE SendingStep
  BY <1>5, Constants DEF AddLock, SendingStep
<1>6. ASSUME NEW s \in Senders, AddFind(s) PROVE SendingStep
  BY <1>6, Constants DEF AddFind, SendingStep
<1>7. ASSUME NEW s \in Senders, AddBlock(s) PROVE SendingStep
  BY <1>7, Constants DEF AddBlock, SendingStep
<1>8. ASSUME NEW s \in Senders, AddRef(s) PROVE SendingStep
  BY <1>8, Constants DEF AddRef, SendingStep
<1>9. ASSUME NEW s \in Senders, AddMask(s) PROVE SendingStep
  BY <1>9, Constants DEF AddMask, SendingStep
<1>10. ASSUME NEW s \in Senders, AddCount(s) PROVE SendingStep
  BY <1>10, Constants DEF AddCount, SendingStep
<1>11. ASSUME NEW s \in Senders, AddUnlock(s) PROVE SendingStep
  BY <1>11, Constants DEF AddUnlock, Forget, SendingStep
<1>12. ASSUME NEW s \in Senders, AddRefuse(s) PROVE SendingStep
  BY <1>12, Constants DEF AddRefuse, SendingStep
<1>13. ASSUME NEW s \in Senders, SendFree(s) PROVE SendingStep
  BY <1>13, Constants DEF SendFree, Forget, SendingStep
<1>14. ASSUME NEW r \in Readers, Poll(r) PROVE SendingStep
  BY <1>14, Constants DEF Poll, SendingStep
<1>15. ASSUME NEW r \in Readers, ScanEntry(r) PROVE SendingStep
  BY <1>15, Constants DEF ScanEntry, Seen, SendingStep
<1>16. ASSUME NEW r \in Readers, ScanEnd(r) PROVE SendingStep
  BY <1>16, Constants DEF ScanEnd, Rescan, Forget, SendingStep
<1>17. ASSUME NEW r \in Readers, GetMessage(r) PROVE SendingStep
  BY <1>17, Constants DEF GetMessage, Rescan, Forget, SendingStep
<1>18. ASSUME NEW r \in Readers, Callback(r) PROVE SendingStep
  BY <1>18, Constants DEF Callback, SendingStep
<1>19. ASSUME NEW r \in Readers, MarkExists(r) PROVE SendingStep
  BY <1>19, Constants DEF MarkExists, SendingStep
<1>20. ASSUME NEW r \in Readers, MarkLoad(r) PROVE SendingStep
  BY <1>20, Constants DEF MarkLoad, SendingStep
<1>21. ASSUME NEW r \in Readers, MarkStore(r) PROVE SendingStep
  BY <1>21, Constants DEF MarkStore, SendingStep
<1>22. ASSUME NEW r \in Readers, MarkSub(r) PROVE SendingStep
  BY <1>22, Constants DEF MarkSub, SendingStep
<1>23. ASSUME NEW r \in Readers, FreeExists(r) PROVE SendingStep
  BY <1>23, Constants DEF FreeExists, Rescan, Forget, SendingStep
<1>24. ASSUME NEW r \in Readers, FreeRef(r) PROVE SendingStep
  BY <1>24, Constants DEF FreeRef, Rescan, Forget, SendingStep
<1>25. ASSUME NEW r \in Readers, FreeLock(r) PROVE SendingStep
  BY <1>25, Constants DEF FreeLock, SendingStep
<1>26. ASSUME NEW r \in Readers, FreeCheck(r) PROVE SendingStep
  BY <1>26, Constants DEF FreeCheck, SendingStep
<1>27. ASSUME NEW r \in Readers, FreeBlock(r) PROVE SendingStep
  BY <1>27, Constants DEF FreeBlock, SendingStep
<1>28. ASSUME NEW r \in Readers, FreeClear(r) PROVE SendingStep
  BY <1>28, Constants DEF FreeClear, SendingStep
<1>29. ASSUME NEW r \in Readers, FreeMask(r) PROVE SendingStep
  BY <1>29, Constants DEF FreeMask, SendingStep
<1>30. ASSUME NEW r \in Readers, FreeUnlock(r) PROVE SendingStep
  BY <1>30, Constants DEF FreeUnlock, Rescan, Forget, SendingStep
<1> QED
  BY <1>1, <1>2, <1>3, <1>4, <1>5, <1>6, <1>7, <1>8, <1>9, <1>10, <1>11, <1>12, <1>13,
     <1>14, <1>15, <1>16, <1>17, <1>18, <1>19, <1>20, <1>21, <1>22, <1>23, <1>24, <1>25,
     <1>26, <1>27, <1>28, <1>29, <1>30 DEF Next, Sending, Reading


LEMMA WritingFinite == IsFiniteSet(Writing) /\ Cardinality(Writing) \in Nat
<1>1. Writing \subseteq Senders
  BY DEF Writing
<1> QED
  BY <1>1, FS_Subset, FS_CardinalityType, TrackerAssumption

\* Of the messages that may be sent each thread that is about to write has one.
LEMMA SomeoneWrites ==
  ASSUME Sent, NEW s \in Writing
  PROVE  /\ Cardinality(Writing \ {s}) = Cardinality(Writing) - 1
         /\ sent + 1 + Cardinality(Writing \ {s}) <= MaxMessages /\ sent + 1 <= MaxMessages
<1>1. /\ Cardinality(Writing \ {s}) = Cardinality(Writing) - 1
      /\ Cardinality(Writing \ {s}) \in Nat
  BY WritingFinite, FS_RemoveElement, FS_CardinalityType
<1> QED
  BY <1>1, WritingFinite, Constants DEF Sent

LEMMA SentStep ==
  ASSUME Places, Sent, [Next]_vars PROVE Sent'
<1>1. CASE Writing' = Writing /\ UNCHANGED <<sent, due, carries, text>>
  BY <1>1 DEF Sent
<1>2. ASSUME NEW s \in Senders, SendAlloc(s) PROVE Sent'
  <2>1. s \notin Writing /\ Writing' = Writing \cup {s}
    BY <1>2, Constants DEF SendAlloc, Goto, Writing, Places, Threads
  <2>2. Cardinality(Writing') = Cardinality(Writing) + 1
    BY <2>1, WritingFinite, FS_AddElement
  <2>3. sent + Cardinality(Writing) < MaxMessages /\ UNCHANGED <<sent, due>>
    BY <1>2 DEF SendAlloc, Writing, history
  <2> QED
    BY <2>2, <2>3, WritingFinite, Constants DEF Sent
<1>3. ASSUME NEW s \in Senders, SendWrite(s) PROVE Sent'
  <2>1. s \in Writing /\ Writing' = Writing \ {s}
    BY <1>3, Constants DEF SendWrite, Goto, Writing, Places, Threads
  <2>2. sent' + Cardinality(Writing') <= MaxMessages
    BY <1>3, <2>1, SomeoneWrites DEF SendWrite
  <2>3. PICK m \in Masks : due' = Append(due, m)
    BY <1>3 DEF SendWrite
  <2>4. sent' = sent + 1
    BY <1>3 DEF SendWrite
  <2> QED
    BY <2>2, <2>3, <2>4 DEF Sent
<1> QED
  BY <1>1, <1>2, <1>3, SendingEffect DEF SendingStep

LEMMA RecordedStep ==
  ASSUME Places, Owned, Aimed, Sent, Recorded, [Next]_vars PROVE Recorded'
<1> USE DEF Goto, Set, shared, entries, locals, history, Places, Recorded, Threads
<1>1. ASSUME UNCHANGED vars PROVE Recorded'
  BY <1>1, Constants DEF vars
<1>2. ASSUME Tick PROVE Recorded'
  BY <1>2, Constants DEF Tick
<1>3. ASSUME NEW s \in Senders, SendAlloc(s) PROVE Recorded'
  BY <1>3, Constants DEF SendAlloc
<1>4. ASSUME NEW s \in Senders, SendWrite(s) PROVE Recorded'
  <2>1. s \in Writing
    BY <1>4 DEF SendWrite, Writing
  <2>2. sent + 1 <= MaxMessages
    BY <2>1, SomeoneWrites
  <2>3. sent + 1 \in 0 .. MaxMessages
    BY <2>2, Constants DEF Sent
  <2> QED
    BY <2>3, <1>4 DEF SendWrite
<1>5. ASSUME NEW s \in Senders, AddLock(s) PROVE Recorded'
  BY <1>5, Constants DEF AddLock
<1>6. ASSUME NEW s \in Senders, AddFind(s) PROVE Recorded'
  BY <1>6, Constants DEF AddFind
<1>7. ASSUME NEW s \in Senders, AddBlock(s) PROVE Recorded'
  BY <1>7, Constants DEF AddBlock
<1>8. ASSUME NEW s \in Senders, AddRef(s) PROVE Recorded'
  BY <1>8, Constants DEF AddRef
<1>9. ASSUME NEW s \in Senders, AddMask(s) PROVE Recorded'
  <2>1. own[s] \in Blocks
    BY <1>9 DEF AddMask, Owned
  <2> QED
    BY <2>1, <1>9 DEF AddMask
<1>10. ASSUME NEW s \in Senders, AddCount(s) PROVE Recorded'
  BY <1>10, Constants DEF AddCount
<1>11. ASSUME NEW s \in Senders, AddUnlock(s) PROVE Recorded'
  BY <1>11, Constants DEF AddUnlock, Forget
<1>12. ASSUME NEW s \in Senders, AddRefuse(s) PROVE Recorded'
  BY <1>12, Constants DEF AddRefuse
<1>13. ASSUME NEW s \in Senders, SendFree(s) PROVE Recorded'
  BY <1>13, Constants DEF SendFree, Forget
<1>14. ASSUME NEW r \in Readers, Poll(r) PROVE Recorded'
  BY <1>14, Constants DEF Poll
<1>15. ASSUME NEW r \in Readers, ScanEntry(r) PROVE Recorded'
  BY <1>15, Constants DEF ScanEntry, Seen
<1>16. ASSUME NEW r \in Readers, ScanEnd(r) PROVE Recorded'
  BY <1>16, Constants DEF ScanEnd, Rescan, Forget
<1>17. ASSUME NEW r \in Readers, GetMessage(r) PROVE Recorded'
  BY <1>17, Constants DEF GetMessage, Rescan, Forget
<1>18. ASSUME NEW r \in Readers, Callback(r) PROVE Recorded'
  <2>1. own[r] \in Blocks
    BY <1>18 DEF Callback, Owned, Working, Given
  <2>2. Append(got[r], carries[own[r]]) \in Seq(0 .. MaxMessages)
    BY <2>1
  <2> QED
    BY <2>2, <1>18 DEF Callback
<1>19. ASSUME NEW r \in Readers, MarkExists(r) PROVE Recorded'
  BY <1>19, Constants DEF MarkExists
<1>20. ASSUME NEW r \in Readers, MarkLoad(r) PROVE Recorded'
  BY <1>20, Constants DEF MarkLoad
<1>21. ASSUME NEW r \in Readers, MarkStore(r) PROVE Recorded'
  BY <1>21, Constants DEF MarkStore
<1>22. ASSUME NEW r \in Readers, MarkSub(r) PROVE Recorded'
  BY <1>22, Constants DEF MarkSub
<1>23. ASSUME NEW r \in Readers, FreeExists(r) PROVE Recorded'
  BY <1>23, Constants DEF FreeExists, Rescan, Forget
<1>24. ASSUME NEW r \in Readers, FreeRef(r) PROVE Recorded'
  BY <1>24, Constants DEF FreeRef, Rescan, Forget
<1>25. ASSUME NEW r \in Readers, FreeLock(r) PROVE Recorded'
  BY <1>25, Constants DEF FreeLock
<1>26. ASSUME NEW r \in Readers, FreeCheck(r) PROVE Recorded'
  BY <1>26, Constants DEF FreeCheck
<1>27. ASSUME NEW r \in Readers, FreeBlock(r) PROVE Recorded'
  BY <1>27, Constants DEF FreeBlock
<1>28. ASSUME NEW r \in Readers, FreeClear(r) PROVE Recorded'
  <2>1. 0 \in 0 .. MaxMessages
    BY Constants
  <2> QED
    BY <2>1, <1>28 DEF FreeClear
<1>29. ASSUME NEW r \in Readers, FreeMask(r) PROVE Recorded'
  BY <1>29, Constants DEF FreeMask
<1>30. ASSUME NEW r \in Readers, FreeUnlock(r) PROVE Recorded'
  BY <1>30, Constants DEF FreeUnlock, Rescan, Forget
<1> QED
  BY <1>1, <1>2, <1>3, <1>4, <1>5, <1>6, <1>7, <1>8, <1>9, <1>10, <1>11, <1>12, <1>13,
     <1>14, <1>15, <1>16, <1>17, <1>18, <1>19, <1>20, <1>21, <1>22, <1>23, <1>24, <1>25,
     <1>26, <1>27, <1>28, <1>29, <1>30 DEF Next, Sending, Reading

LEMMA TypesStep == ASSUME Types, [Next]_vars PROVE Types'
  BY PlacesStep, OwnedStep, AimedStep, ValuesStep, SentStep, RecordedStep
  DEF Types, Values

LEMMA TypesTypeOK == ASSUME Types PROVE TypeOK
<1>1. sent \in 0 .. MaxMessages
  BY WritingFinite, Constants DEF Types, Sent
<1>2. \A r \in Readers : got[r] \in Seq(0 .. MaxMessages)
  BY DEF Types, Recorded
<1> QED
  BY <1>1, <1>2 DEF TypeOK, Types, Places, Owned, Aimed, Values, Sent, Recorded

-----------------------------------------------------------------------------
(* Each thread has its own locals. *)
Others(t) == \A u \in Threads : u # t =>
               /\ pc'[u] = pc[u] /\ own'[u] = own[u] /\ at'[u] = at[u] /\ old'[u] = old[u]
               /\ u \in Readers => best'[u] = best[u]

LEMMA SenderActs ==
  ASSUME Places, Owned, Aimed, Values, NEW s \in Senders, SendAlloc(s) \/ Sending(s)
  PROVE  Others(s)
<1> USE DEF Goto, Set, shared, entries, locals, history
<1>1. CASE SendAlloc(s)
  BY <1>1 DEF SendAlloc, Others, Threads, Places, Owned, Aimed, Values
<1>2. CASE SendWrite(s)
  BY <1>2 DEF SendWrite, Others, Threads, Places, Owned, Aimed, Values
<1>3. CASE AddLock(s)
  BY <1>3 DEF AddLock, Others, Threads, Places, Owned, Aimed, Values
<1>4. CASE AddFind(s)
  BY <1>4 DEF AddFind, Others, Threads, Places, Owned, Aimed, Values
<1>5. CASE AddBlock(s)
  BY <1>5 DEF AddBlock, Others, Threads, Places, Owned, Aimed, Values
<1>6. CASE AddRef(s)
  BY <1>6 DEF AddRef, Others, Threads, Places, Owned, Aimed, Values
<1>7. CASE AddMask(s)
  BY <1>7 DEF AddMask, Others, Threads, Places, Owned, Aimed, Values
<1>8. CASE AddCount(s)
  BY <1>8 DEF AddCount, Others, Threads, Places, Owned, Aimed, Values
<1>9. CASE AddUnlock(s)
  BY <1>9 DEF AddUnlock, Forget, Others, Threads, Places, Owned, Aimed, Values
<1>10. CASE AddRefuse(s)
  BY <1>10 DEF AddRefuse, Others, Threads, Places, Owned, Aimed, Values
<1>11. CASE SendFree(s)
  BY <1>11 DEF SendFree, Forget, Others, Threads, Places, Owned, Aimed, Values
<1> QED
  BY <1>1, <1>2, <1>3, <1>4, <1>5, <1>6, <1>7, <1>8, <1>9, <1>10, <1>11 DEF Sending

LEMMA ReaderActs ==
  ASSUME Places, Owned, Aimed, Values, NEW r \in Readers, Reading(r)
  PROVE  Others(r)
<1> USE DEF Goto, Set, shared, entries, locals, history
<1>1. CASE Poll(r)
  BY <1>1 DEF Poll, Others, Threads, Places, Owned, Aimed, Values
<1>2. CASE ScanEntry(r)
  BY <1>2 DEF ScanEntry, Seen, Others, Threads, Places, Owned, Aimed, Values
<1>3. CASE ScanEnd(r)
  BY <1>3 DEF ScanEnd, Rescan, Forget, Others, Threads, Places, Owned, Aimed, Values
<1>4. CASE GetMessage(r)
  BY <1>4 DEF GetMessage, Rescan, Forget, Others, Threads, Places, Owned, Aimed, Values
<1>5. CASE Callback(r)
  BY <1>5 DEF Callback, Others, Threads, Places, Owned, Aimed, Values
<1>6. CASE MarkExists(r)
  BY <1>6 DEF MarkExists, Others, Threads, Places, Owned, Aimed, Values
<1>7. CASE MarkLoad(r)
  BY <1>7 DEF MarkLoad, Others, Threads, Places, Owned, Aimed, Values
<1>8. CASE MarkStore(r)
  BY <1>8 DEF MarkStore, Others, Threads, Places, Owned, Aimed, Values
<1>9. CASE MarkSub(r)
  BY <1>9 DEF MarkSub, Others, Threads, Places, Owned, Aimed, Values
<1>10. CASE FreeExists(r)
  BY <1>10 DEF FreeExists, Rescan, Forget, Others, Threads, Places, Owned, Aimed, Values
<1>11. CASE FreeRef(r)
  BY <1>11 DEF FreeRef, Rescan, Forget, Others, Threads, Places, Owned, Aimed, Values
<1>12. CASE FreeLock(r)
  BY <1>12 DEF FreeLock, Others, Threads, Places, Owned, Aimed, Values
<1>13. CASE FreeCheck(r)
  BY <1>13 DEF FreeCheck, Others, Threads, Places, Owned, Aimed, Values
<1>14. CASE FreeBlock(r)
  BY <1>14 DEF FreeBlock, Others, Threads, Places, Owned, Aimed, Values
<1>15. CASE FreeClear(r)
  BY <1>15 DEF FreeClear, Others, Threads, Places, Owned, Aimed, Values
<1>16. CASE FreeMask(r)
  BY <1>16 DEF FreeMask, Others, Threads, Places, Owned, Aimed, Values
<1>17. CASE FreeUnlock(r)
  BY <1>17 DEF FreeUnlock, Rescan, Forget, Others, Threads, Places, Owned, Aimed, Values
<1> QED
  BY <1>1, <1>2, <1>3, <1>4, <1>5, <1>6, <1>7, <1>8, <1>9, <1>10, <1>11, <1>12, <1>13,
     <1>14, <1>15, <1>16, <1>17 DEF Reading

\* What a sender leaves alone in the readers, and a reader in the others.
LEMMA SenderLeaves ==
  ASSUME Places, Owned, Aimed, Values, NEW s \in Senders, SendAlloc(s) \/ Sending(s)
  PROVE  \A r \in Readers :
           /\ pc'[r] = pc[r] /\ own'[r] = own[r] /\ at'[r] = at[r] /\ old'[r] = old[r]
           /\ best'[r] = best[r]
<1>1. Others(s)
  BY SenderActs
<1> QED
  BY <1>1, Constants DEF Others, Threads

LEMMA ReaderLeaves ==
  ASSUME Places, Owned, Aimed, Values, NEW r \in Readers, Reading(r)
  PROVE  /\ \A q \in Readers \ {r} :
              /\ pc'[q] = pc[q] /\ own'[q] = own[q] /\ at'[q] = at[q] /\ old'[q] = old[q]
              /\ best'[q] = best[q]
         /\ \A s \in Senders :
              pc'[s] = pc[s] /\ own'[s] = own[s] /\ at'[s] = at[s] /\ old'[s] = old[s]
<1>1. Others(r)
  BY ReaderActs
<1> QED
  BY <1>1, Constants DEF Others, Threads

-----------------------------------------------------------------------------
(* Which actions change what. *)
SenderChanges(s) == /\ AddBlock(s) \/ UNCHANGED <<block, ts>>
                    /\ AddRef(s) \/ UNCHANGED ref
                    /\ AddMask(s) \/ UNCHANGED <<mask, holds>>
                    /\ AddCount(s) \/ UNCHANGED <<count, next>>
                    /\ SendAlloc(s) \/ SendFree(s) \/ UNCHANGED pool
                    /\ SendWrite(s) \/ UNCHANGED <<carries, sent, due>>
                    /\ UNCHANGED <<got, now>>
ReaderChanges(r) == /\ FreeClear(r) \/ UNCHANGED <<block, ts, holds>>
                    /\ MarkSub(r) \/ UNCHANGED ref
                    /\ MarkStore(r) \/ FreeMask(r) \/ UNCHANGED mask
                    /\ FreeMask(r) \/ UNCHANGED count
                    /\ FreeBlock(r) \/ UNCHANGED pool
                    /\ Callback(r) \/ UNCHANGED got
                    /\ UNCHANGED <<next, carries, sent, due, now>>

LEMMA SenderEffects ==
  ASSUME TRUE, NEW s \in Senders, SendAlloc(s) \/ Sending(s)
  PROVE  SenderChanges(s)
<1> USE DEF Goto, Set, shared, entries, locals, history
<1>1. CASE SendAlloc(s)
  BY <1>1 DEF SendAlloc, SenderChanges
<1>2. CASE SendWrite(s)
  BY <1>2 DEF SendWrite, SenderChanges
<1>3. CASE AddLock(s)
  BY <1>3 DEF AddLock, SenderChanges
<1>4. CASE AddFind(s)
  BY <1>4 DEF AddFind, SenderChanges
<1>5. CASE AddBlock(s)
  BY <1>5 DEF AddBlock, SenderChanges
<1>6. CASE AddRef(s)
  BY <1>6 DEF AddRef, SenderChanges
<1>7. CASE AddMask(s)
  BY <1>7 DEF AddMask, SenderChanges
<1>8. CASE AddCount(s)
  BY <1>8 DEF AddCount, SenderChanges
<1>9. CASE AddUnlock(s)
  BY <1>9 DEF AddUnlock, Forget, SenderChanges
<1>10. CASE AddRefuse(s)
  BY <1>10 DEF AddRefuse, SenderChanges
<1>11. CASE SendFree(s)
  BY <1>11 DEF SendFree, Forget, SenderChanges
<1> QED
  BY <1>1, <1>2, <1>3, <1>4, <1>5, <1>6, <1>7, <1>8, <1>9, <1>10, <1>11 DEF Sending

LEMMA ReaderEffects ==
  ASSUME TRUE, NEW r \in Readers, Reading(r)
  PROVE  ReaderChanges(r)
<1> USE DEF Goto, Set, shared, entries, locals, history
<1>1. CASE Poll(r)
  BY <1>1 DEF Poll, ReaderChanges
<1>2. CASE ScanEntry(r)
  BY <1>2 DEF ScanEntry, Seen, ReaderChanges
<1>3. CASE ScanEnd(r)
  BY <1>3 DEF ScanEnd, Rescan, Forget, ReaderChanges
<1>4. CASE GetMessage(r)
  BY <1>4 DEF GetMessage, Rescan, Forget, ReaderChanges
<1>5. CASE Callback(r)
  BY <1>5 DEF Callback, ReaderChanges
<1>6. CASE MarkExists(r)
  BY <1>6 DEF MarkExists, ReaderChanges
<1>7. CASE MarkLoad(r)
  BY <1>7 DEF MarkLoad, ReaderChanges
<1>8. CASE MarkStore(r)
  BY <1>8 DEF MarkStore, ReaderChanges
<1>9. CASE MarkSub(r)
  BY <1>9 DEF MarkSub, ReaderChanges
<1>10. CASE FreeExists(r)
  BY <1>10 DEF FreeExists, Rescan, Forget, ReaderChanges
<1>11. CASE FreeRef(r)
  BY <1>11 DEF FreeRef, Rescan, Forget, ReaderChanges
<1>12. CASE FreeLock(r)
  BY <1>12 DEF FreeLock, ReaderChanges
<1>13. CASE FreeCheck(r)
  BY <1>13 DEF FreeCheck, ReaderChanges
<1>14. CASE FreeBlock(r)
  BY <1>14 DEF FreeBlock, ReaderChanges
<1>15. CASE FreeClear(r)
  BY <1>15 DEF FreeClear, ReaderChanges
<1>16. CASE FreeMask(r)
  BY <1>16 DEF FreeMask, ReaderChanges
<1>17. CASE FreeUnlock(r)
  BY <1>17 DEF FreeUnlock, Rescan, Forget, ReaderChanges
<1> QED
  BY <1>1, <1>2, <1>3, <1>4, <1>5, <1>6, <1>7, <1>8, <1>9, <1>10, <1>11, <1>12, <1>13,
     <1>14, <1>15, <1>16, <1>17 DEF Reading

-----------------------------------------------------------------------------
(* The lock and the entries. *)
LEMMA LockedStep ==
  ASSUME Places, Locked, [Next]_vars PROVE Locked'
<1> USE DEF Goto, Set, shared, entries, locals, history, Places, Locked, Holder, Adding,
    Freeing, Threads
<1>1. ASSUME UNCHANGED vars PROVE Locked'
  BY <1>1 DEF vars
<1>2. ASSUME Tick PROVE Locked'
  BY <1>2 DEF Tick
<1>3. ASSUME NEW s \in Senders, SendAlloc(s) PROVE Locked'
  BY <1>3 DEF SendAlloc
<1>4. ASSUME NEW s \in Senders, SendWrite(s) PROVE Locked'
  BY <1>4 DEF SendWrite
<1>5. ASSUME NEW s \in Senders, AddLock(s) PROVE Locked'
  BY <1>5 DEF AddLock
<1>6. ASSUME NEW s \in Senders, AddFind(s) PROVE Locked'
  BY <1>6 DEF AddFind
<1>7. ASSUME NEW s \in Senders, AddBlock(s) PROVE Locked'
  BY <1>7 DEF AddBlock
<1>8. ASSUME NEW s \in Senders, AddRef(s) PROVE Locked'
  BY <1>8 DEF AddRef
<1>9. ASSUME NEW s \in Senders, AddMask(s) PROVE Locked'
  BY <1>9 DEF AddMask
<1>10. ASSUME NEW s \in Senders, AddCount(s) PROVE Locked'
  BY <1>10 DEF AddCount
<1>11. ASSUME NEW s \in Senders, AddUnlock(s) PROVE Locked'
  BY <1>11 DEF AddUnlock, Forget
<1>12. ASSUME NEW s \in Senders, AddRefuse(s) PROVE Locked'
  BY <1>12 DEF AddRefuse
<1>13. ASSUME NEW s \in Senders, SendFree(s) PROVE Locked'
  BY <1>13 DEF SendFree, Forget
<1>14. ASSUME NEW r \in Readers, Poll(r) PROVE Locked'
  BY <1>14 DEF Poll
<1>15. ASSUME NEW r \in Readers, ScanEntry(r) PROVE Locked'
  BY <1>15 DEF ScanEntry, Seen
<1>16. ASSUME NEW r \in Readers, ScanEnd(r) PROVE Locked'
  BY <1>16 DEF ScanEnd, Rescan, Forget
<1>17. ASSUME NEW r \in Readers, GetMessage(r) PROVE Locked'
  BY <1>17 DEF GetMessage, Rescan, Forget
<1>18. ASSUME NEW r \in Readers, Callback(r) PROVE Locked'
  BY <1>18 DEF Callback
<1>19. ASSUME NEW r \in Readers, MarkExists(r) PROVE Locked'
  BY <1>19 DEF MarkExists
<1>20. ASSUME NEW r \in Readers, MarkLoad(r) PROVE Locked'
  BY <1>20 DEF MarkLoad
<1>21. ASSUME NEW r \in Readers, MarkStore(r) PROVE Locked'
  BY <1>21 DEF MarkStore
<1>22. ASSUME NEW r \in Readers, MarkSub(r) PROVE Locked'
  BY <1>22 DEF MarkSub
<1>23. ASSUME NEW r \in Readers, FreeExists(r) PROVE Locked'
  BY <1>23 DEF FreeExists, Rescan, Forget
<1>24. ASSUME NEW r \in Readers, FreeRef(r) PROVE Locked'
  BY <1>24 DEF FreeRef, Rescan, Forget
<1>25. ASSUME NEW r \in Readers, FreeLock(r) PROVE Locked'
  BY <1>25 DEF FreeLock
<1>26. ASSUME NEW r \in Readers, FreeCheck(r) PROVE Locked'
  BY <1>26 DEF FreeCheck
<1>27. ASSUME NEW r \in Readers, FreeBlock(r) PROVE Locked'
  BY <1>27 DEF FreeBlock
<1>28. ASSUME NEW r \in Readers, FreeClear(r) PROVE Locked'
  BY <1>28 DEF FreeClear
<1>29. ASSUME NEW r \in Readers, FreeMask(r) PROVE Locked'
  BY <1>29 DEF FreeMask
<1>30. ASSUME NEW r \in Readers, FreeUnlock(r) PROVE Locked'
  BY <1>30 DEF FreeUnlock, Rescan, Forget
<1> QED
  BY <1>1, <1>2, <1>3, <1>4, <1>5, <1>6, <1>7, <1>8, <1>9, <1>10, <1>11, <1>12, <1>13,
     <1>14, <1>15, <1>16, <1>17, <1>18, <1>19, <1>20, <1>21, <1>22, <1>23, <1>24, <1>25,
     <1>26, <1>27, <1>28, <1>29, <1>30 DEF Next, Sending, Reading

LEMMA LockExcludes ==
  ASSUME Locked, NEW t \in Threads, NEW u \in Threads, Holder(t), Holder(u)
  PROVE  t = u
BY DEF Locked

\* The pool takes a block back only if there is one reader, whose bit is gone.
LEMMA NoBitLeft ==
  ASSUME Steady, Cleared, Values, Aimed, NEW r \in Readers, pc[r] = "free_clear"
  PROVE  Alone /\ mask[at[r]] = {} /\ \A q \in Readers : q = r
<1>1. Alone /\ at[r] \in Index
  BY DEF Steady, Cleared, Aimed, Working, Given, Marked
<1>2. \A q \in Readers : q = r
  BY <1>1 DEF Alone
<1>3. r \notin mask[at[r]]
  BY <1>1 DEF Cleared, SeesBit, Working, Given, Marked
<1> QED
  BY <1>1, <1>2, <1>3 DEF Values

LEMMA CompleteStep ==
  ASSUME Steady, Places, Owned, Aimed, Values, Recorded, Complete, Filled, Kept, Cleared,
         Fresh, [Next]_vars
  PROVE  Complete'
<1> USE DEF Goto, Set, shared, entries, locals, history, Complete, Threads
<1>1. ASSUME UNCHANGED vars PROVE Complete'
  BY <1>1, Constants DEF vars
<1>2. ASSUME Tick PROVE Complete'
  BY <1>2, Constants DEF Tick
<1>3. ASSUME NEW s \in Senders, SendAlloc(s) PROVE Complete'
  BY <1>3, Constants DEF SendAlloc
<1>4. ASSUME NEW s \in Senders, SendWrite(s) PROVE Complete'
  BY <1>4, Constants DEF SendWrite
<1>5. ASSUME NEW s \in Senders, AddLock(s) PROVE Complete'
  BY <1>5, Constants DEF AddLock
<1>6. ASSUME NEW s \in Senders, AddFind(s) PROVE Complete'
  BY <1>6, Constants DEF AddFind
<1>7. ASSUME NEW s \in Senders, AddBlock(s) PROVE Complete'
  <2>1. own[s] \in Blocks
    BY <1>7 DEF AddBlock, Owned
  <2> QED
    BY <2>1, <1>7, Constants DEF AddBlock, Values
<1>8. ASSUME NEW s \in Senders, AddRef(s) PROVE Complete'
  BY <1>8, Constants DEF AddRef
<1>9. ASSUME NEW s \in Senders, AddMask(s) PROVE Complete'
  <2>1. at[s] \in Index /\ own[s] \in Blocks /\ block[at[s]] = own[s]
    BY <1>9 DEF AddMask, Aimed, Owned, Filled, Filling
  <2>2. carries[own[s]] # 0
    BY <1>9 DEF AddMask, Fresh, Pending, Message
  <2>3. own[s] # NULL /\ mask \in [Index -> SUBSET Readers] /\ holds \in [Index -> 0 .. MaxMessages]
    BY <2>1, Constants DEF Values, Recorded
  <2>4. /\ mask' = [mask EXCEPT ![at[s]] = old[s]] /\ UNCHANGED block
        /\ holds' = [holds EXCEPT ![at[s]] = carries[own[s]]]
    BY <1>9 DEF AddMask
  <2> QED
    BY <2>1, <2>2, <2>3, <2>4
<1>10. ASSUME NEW s \in Senders, AddCount(s) PROVE Complete'
  BY <1>10, Constants DEF AddCount
<1>11. ASSUME NEW s \in Senders, AddUnlock(s) PROVE Complete'
  BY <1>11, Constants DEF AddUnlock, Forget
<1>12. ASSUME NEW s \in Senders, AddRefuse(s) PROVE Complete'
  BY <1>12, Constants DEF AddRefuse
<1>13. ASSUME NEW s \in Senders, SendFree(s) PROVE Complete'
  BY <1>13, Constants DEF SendFree, Forget
<1>14. ASSUME NEW r \in Readers, Poll(r) PROVE Complete'
  BY <1>14, Constants DEF Poll
<1>15. ASSUME NEW r \in Readers, ScanEntry(r) PROVE Complete'
  BY <1>15, Constants DEF ScanEntry, Seen
<1>16. ASSUME NEW r \in Readers, ScanEnd(r) PROVE Complete'
  BY <1>16, Constants DEF ScanEnd, Rescan, Forget
<1>17. ASSUME NEW r \in Readers, GetMessage(r) PROVE Complete'
  BY <1>17, Constants DEF GetMessage, Rescan, Forget
<1>18. ASSUME NEW r \in Readers, Callback(r) PROVE Complete'
  BY <1>18, Constants DEF Callback
<1>19. ASSUME NEW r \in Readers, MarkExists(r) PROVE Complete'
  BY <1>19, Constants DEF MarkExists
<1>20. ASSUME NEW r \in Readers, MarkLoad(r) PROVE Complete'
  BY <1>20, Constants DEF MarkLoad
<1>21. ASSUME NEW r \in Readers, MarkStore(r) PROVE Complete'
  <2>1. at[r] \in Index /\ holds[at[r]] # 0
    BY <1>21 DEF MarkStore, Aimed, Kept, KeptBy, Working, Given
  <2> QED
    BY <2>1, <1>21 DEF MarkStore, Values
<1>22. ASSUME NEW r \in Readers, MarkSub(r) PROVE Complete'
  BY <1>22, Constants DEF MarkSub
<1>23. ASSUME NEW r \in Readers, FreeExists(r) PROVE Complete'
  BY <1>23, Constants DEF FreeExists, Rescan, Forget
<1>24. ASSUME NEW r \in Readers, FreeRef(r) PROVE Complete'
  BY <1>24, Constants DEF FreeRef, Rescan, Forget
<1>25. ASSUME NEW r \in Readers, FreeLock(r) PROVE Complete'
  BY <1>25, Constants DEF FreeLock
<1>26. ASSUME NEW r \in Readers, FreeCheck(r) PROVE Complete'
  BY <1>26, Constants DEF FreeCheck
<1>27. ASSUME NEW r \in Readers, FreeBlock(r) PROVE Complete'
  BY <1>27, Constants DEF FreeBlock
<1>28. ASSUME NEW r \in Readers, FreeClear(r) PROVE Complete'
  <2>1. mask[at[r]] = {}
    BY <1>28, NoBitLeft DEF FreeClear
  <2>2. /\ block' = [block EXCEPT ![at[r]] = NULL] /\ UNCHANGED mask
        /\ holds' = [holds EXCEPT ![at[r]] = 0]
        /\ block \in [Index -> Blocks \cup {NULL}] /\ holds \in [Index -> 0 .. MaxMessages]
    BY <1>28 DEF FreeClear, Values, Recorded
  <2> QED
    BY <2>1, <2>2
<1>29. ASSUME NEW r \in Readers, FreeMask(r) PROVE Complete'
  BY <1>29, Constants DEF FreeMask
<1>30. ASSUME NEW r \in Readers, FreeUnlock(r) PROVE Complete'
  BY <1>30, Constants DEF FreeUnlock, Rescan, Forget
<1> QED
  BY <1>1, <1>2, <1>3, <1>4, <1>5, <1>6, <1>7, <1>8, <1>9, <1>10, <1>11, <1>12, <1>13,
     <1>14, <1>15, <1>16, <1>17, <1>18, <1>19, <1>20, <1>21, <1>22, <1>23, <1>24, <1>25,
     <1>26, <1>27, <1>28, <1>29, <1>30 DEF Next, Sending, Reading

LEMMA FilledStep ==
  ASSUME Places, Owned, Aimed, Locked, Complete, Filled, Values, [Next]_vars PROVE Filled'
<1> USE DEF Goto, Set, shared, entries, locals, history, Places, Threads, Filled, Filling
<1>1. ASSUME UNCHANGED vars PROVE Filled'
  BY <1>1, Constants DEF vars
<1>2. ASSUME Tick PROVE Filled'
  BY <1>2, Constants DEF Tick
<1>3. ASSUME NEW s \in Senders, SendAlloc(s) PROVE Filled'
  BY <1>3, Constants DEF SendAlloc
<1>4. ASSUME NEW s \in Senders, SendWrite(s) PROVE Filled'
  BY <1>4, Constants DEF SendWrite
<1>5. ASSUME NEW s \in Senders, AddLock(s) PROVE Filled'
  BY <1>5, Constants DEF AddLock
<1>6. ASSUME NEW s \in Senders, AddFind(s) PROVE Filled'
  <2>1. CASE UNCHANGED at /\ pc' = [pc EXCEPT ![s] = "add_refuse"]
    BY <2>1, <1>6, Constants DEF AddFind
  <2>2. ASSUME NEW k \in Available, at' = [at EXCEPT ![s] = Searched(k)],
               pc' = [pc EXCEPT ![s] = "add_block"]
        PROVE  Filled'
    <3>1. block[Searched(k)] = NULL
      BY SearchFinds DEF Values
    <3> QED
      BY <2>2, <3>1, <1>6, Constants DEF AddFind, Aimed
  <2> QED
    BY <2>1, <2>2, <1>6 DEF AddFind
<1>7. ASSUME NEW s \in Senders, AddBlock(s) PROVE Filled'
  <2>1. \A u \in Senders : u # s => ~Filling(u) /\ pc[u] # "add_block"
    BY <1>7, LockExcludes DEF AddBlock, Holder, Adding
  <2>2. at[s] \in Index /\ block[at[s]] = NULL
    BY <1>7 DEF AddBlock, Aimed
  <2>3. holds[at[s]] = 0
    BY <2>2 DEF Complete
  <2>4. block' = [block EXCEPT ![at[s]] = own[s]] /\ UNCHANGED <<holds, at, own>>
    BY <1>7 DEF AddBlock
  <2>5. block'[at[s]] = own[s]
    BY <2>2, <2>4 DEF Values
  <2> QED
    BY <2>1, <2>3, <2>4, <2>5, <1>7 DEF AddBlock
<1>8. ASSUME NEW s \in Senders, AddRef(s) PROVE Filled'
  BY <1>8, Constants DEF AddRef
<1>9. ASSUME NEW s \in Senders, AddMask(s) PROVE Filled'
  <2>1. \A u \in Senders : u # s => ~Filling(u) /\ pc[u] # "add_block"
    BY <1>9, LockExcludes DEF AddMask, Holder, Adding
  <2> QED
    BY <2>1, <1>9 DEF AddMask
<1>10. ASSUME NEW s \in Senders, AddCount(s) PROVE Filled'
  BY <1>10, Constants DEF AddCount
<1>11. ASSUME NEW s \in Senders, AddUnlock(s) PROVE Filled'
  BY <1>11, Constants DEF AddUnlock, Forget
<1>12. ASSUME NEW s \in Senders, AddRefuse(s) PROVE Filled'
  BY <1>12, Constants DEF AddRefuse
<1>13. ASSUME NEW s \in Senders, SendFree(s) PROVE Filled'
  BY <1>13, Constants DEF SendFree, Forget
<1>14. ASSUME NEW r \in Readers, Poll(r) PROVE Filled'
  BY <1>14, Constants DEF Poll
<1>15. ASSUME NEW r \in Readers, ScanEntry(r) PROVE Filled'
  BY <1>15, Constants DEF ScanEntry, Seen
<1>16. ASSUME NEW r \in Readers, ScanEnd(r) PROVE Filled'
  <2>1. \A s \in Senders : own'[s] = own[s] /\ at'[s] = at[s] /\ pc'[s] = pc[s]
    BY <1>16, Constants DEF ScanEnd, Rescan, Forget, Owned, Aimed
  <2>2. UNCHANGED <<block, holds>>
    BY <1>16 DEF ScanEnd
  <2> QED
    BY <2>1, <2>2
<1>17. ASSUME NEW r \in Readers, GetMessage(r) PROVE Filled'
  <2>1. \A s \in Senders : own'[s] = own[s] /\ at'[s] = at[s] /\ pc'[s] = pc[s]
    BY <1>17, Constants DEF GetMessage, Rescan, Forget, Owned, Aimed
  <2>2. UNCHANGED <<block, holds>>
    BY <1>17 DEF GetMessage
  <2> QED
    BY <2>1, <2>2
<1>18. ASSUME NEW r \in Readers, Callback(r) PROVE Filled'
  BY <1>18, Constants DEF Callback
<1>19. ASSUME NEW r \in Readers, MarkExists(r) PROVE Filled'
  BY <1>19, Constants DEF MarkExists
<1>20. ASSUME NEW r \in Readers, MarkLoad(r) PROVE Filled'
  BY <1>20, Constants DEF MarkLoad
<1>21. ASSUME NEW r \in Readers, MarkStore(r) PROVE Filled'
  BY <1>21, Constants DEF MarkStore
<1>22. ASSUME NEW r \in Readers, MarkSub(r) PROVE Filled'
  BY <1>22, Constants DEF MarkSub
<1>23. ASSUME NEW r \in Readers, FreeExists(r) PROVE Filled'
  <2>1. \A s \in Senders : own'[s] = own[s] /\ at'[s] = at[s] /\ pc'[s] = pc[s]
    BY <1>23, Constants DEF FreeExists, Rescan, Forget, Owned, Aimed
  <2>2. UNCHANGED <<block, holds>>
    BY <1>23 DEF FreeExists
  <2> QED
    BY <2>1, <2>2
<1>24. ASSUME NEW r \in Readers, FreeRef(r) PROVE Filled'
  <2>1. \A s \in Senders : own'[s] = own[s] /\ at'[s] = at[s] /\ pc'[s] = pc[s]
    BY <1>24, Constants DEF FreeRef, Rescan, Forget, Owned, Aimed
  <2>2. UNCHANGED <<block, holds>>
    BY <1>24 DEF FreeRef
  <2> QED
    BY <2>1, <2>2
<1>25. ASSUME NEW r \in Readers, FreeLock(r) PROVE Filled'
  BY <1>25, Constants DEF FreeLock
<1>26. ASSUME NEW r \in Readers, FreeCheck(r) PROVE Filled'
  BY <1>26, Constants DEF FreeCheck
<1>27. ASSUME NEW r \in Readers, FreeBlock(r) PROVE Filled'
  BY <1>27, Constants DEF FreeBlock
<1>28. ASSUME NEW r \in Readers, FreeClear(r) PROVE Filled'
  <2>1. \A u \in Senders : ~Filling(u) /\ pc[u] # "add_block"
    BY <1>28, LockExcludes, Constants DEF FreeClear, Holder, Adding, Freeing
  <2> QED
    BY <2>1, <1>28 DEF FreeClear
<1>29. ASSUME NEW r \in Readers, FreeMask(r) PROVE Filled'
  BY <1>29, Constants DEF FreeMask
<1>30. ASSUME NEW r \in Readers, FreeUnlock(r) PROVE Filled'
  <2>1. \A s \in Senders : own'[s] = own[s] /\ at'[s] = at[s] /\ pc'[s] = pc[s]
    BY <1>30, Constants DEF FreeUnlock, Rescan, Forget, Owned, Aimed
  <2>2. UNCHANGED <<block, holds>>
    BY <1>30 DEF FreeUnlock
  <2> QED
    BY <2>1, <2>2
<1> QED
  BY <1>1, <1>2, <1>3, <1>4, <1>5, <1>6, <1>7, <1>8, <1>9, <1>10, <1>11, <1>12, <1>13,
     <1>14, <1>15, <1>16, <1>17, <1>18, <1>19, <1>20, <1>21, <1>22, <1>23, <1>24, <1>25,
     <1>26, <1>27, <1>28, <1>29, <1>30 DEF Next, Sending, Reading

\* What a reader has found stays found, whatever the senders do...
LEMMA KeptSending ==
  ASSUME Places, Owned, Aimed, Values, Recorded, Complete, Filled, Kept, Fresh,
         NEW s \in Senders, SendAlloc(s) \/ Sending(s), NEW r \in Readers
  PROVE  KeptBy(r)'
<1>1. pc'[r] = pc[r] /\ own'[r] = own[r] /\ at'[r] = at[r] /\ best'[r] = best[r]
  BY SenderLeaves
<1>2. \A i \in Index : holds[i] # 0 => holds'[i] # 0 /\ block'[i] = block[i]
  <2>1. CASE UNCHANGED <<block, holds>>
    BY <2>1
  <2>2. CASE AddBlock(s)
    <3>1. at[s] \in Index /\ holds[at[s]] = 0
      BY <2>2 DEF AddBlock, Goto, Aimed, Filled, Complete
    <3> QED
      BY <2>2, <3>1 DEF AddBlock, Set, history, Values
  <2>3. CASE AddMask(s)
    <3>1. carries[own[s]] # 0
      BY <2>3 DEF AddMask, Goto, Fresh, Pending, Message
    <3> QED
      BY <2>3, <3>1 DEF AddMask, Set, Recorded
  <2> QED
    BY <2>1, <2>2, <2>3, SenderEffects DEF SenderChanges, AddBlock, AddMask, history
<1>3. /\ pc[r] = "scan" /\ best[r] # None => best[r].entry \in Index /\ holds[best[r].entry] # 0
      /\ Working(r) => at[r] \in Index /\ holds[at[r]] # 0
      /\ Working(r) /\ pc[r] # "message" => own[r] = block[at[r]]
  BY DEF Kept, KeptBy, Aimed
<1>4. None' = None /\ (Working(r)' <=> Working(r))
  BY <1>1 DEF None, Working, Given, Marked
<1> QED
  BY <1>1, <1>2, <1>3, <1>4 DEF KeptBy

\* ... and whatever the reader itself does...
LEMMA KeptReading ==
  ASSUME Steady, Places, Owned, Aimed, Values, Recorded, Complete, Kept, Cleared,
         NEW r \in Readers, Reading(r)
  PROVE  KeptBy(r)'
<1> USE DEF Goto, Set, shared, entries, locals, history, Kept, KeptBy, Working, Given,
    Marked
<1>1. CASE Poll(r)
  BY <1>1 DEF Poll, Places, Aimed, Threads
<1>2. CASE ScanEntry(r)
  <2>1. at[r] \in Index
    BY <1>2, Constants DEF ScanEntry, Aimed, Threads, Index
  <2>2. Seen(r) # None => Seen(r).entry \in Index /\ holds[Seen(r).entry] # 0
    BY <2>1, <1>2 DEF ScanEntry, Seen, Complete, Aimed
  <2> QED
    BY <2>2, <1>2 DEF ScanEntry, Places, Aimed, Threads, None
<1>3. CASE ScanEnd(r)
  <2>1. best[r] # None => best[r].entry \in Index /\ holds[best[r].entry] # 0
    BY <1>3 DEF ScanEnd, Aimed
  <2> QED
    BY <2>1, <1>3 DEF ScanEnd, Rescan, Forget, None, Places, Aimed, Threads
<1>4. CASE GetMessage(r)
  BY <1>4 DEF GetMessage, Rescan, Forget, Places, Owned, Aimed, Threads
<1>5. CASE Callback(r)
  BY <1>5 DEF Callback, Places, Owned, Aimed, Threads
<1>6. CASE MarkExists(r)
  BY <1>6 DEF MarkExists, Places, Owned, Aimed, Threads
<1>7. CASE MarkLoad(r)
  BY <1>7 DEF MarkLoad, Places, Owned, Aimed, Threads
<1>8. CASE MarkStore(r)
  BY <1>8 DEF MarkStore, Places, Owned, Aimed, Threads
<1>9. CASE MarkSub(r)
  BY <1>9 DEF MarkSub, Places, Owned, Aimed, Threads
<1>10. CASE FreeExists(r)
  BY <1>10 DEF FreeExists, Rescan, Forget, Places, Owned, Aimed, Threads
<1>11. CASE FreeRef(r)
  BY <1>11 DEF FreeRef, Rescan, Forget, Places, Owned, Aimed, Threads
<1>12. CASE FreeLock(r)
  BY <1>12 DEF FreeLock, Places, Owned, Aimed, Threads
<1>13. CASE FreeCheck(r)
  BY <1>13 DEF FreeCheck, Places, Owned, Aimed, Threads
<1>14. CASE FreeBlock(r)
  BY <1>14 DEF FreeBlock, Places, Owned, Aimed, Threads
<1>15. CASE FreeClear(r)
  BY <1>15 DEF FreeClear, Places, Owned, Aimed, Threads
<1>16. CASE FreeMask(r)
  BY <1>16 DEF FreeMask, Places, Owned, Aimed, Threads
<1>17. CASE FreeUnlock(r)
  BY <1>17 DEF FreeUnlock, Rescan, Forget, Places, Owned, Aimed, Threads
<1> QED
  BY <1>1, <1>2, <1>3, <1>4, <1>5, <1>6, <1>7, <1>8, <1>9, <1>10, <1>11, <1>12, <1>13,
     <1>14, <1>15, <1>16, <1>17 DEF Reading

LEMMA KeptStep ==
  ASSUME Steady, Places, Owned, Aimed, Values, Recorded, Complete, Filled, Kept, Cleared,
         Fresh, [Next]_vars
  PROVE  Kept'
<1>1. CASE UNCHANGED vars \/ Tick
  BY <1>1
  DEF vars, Tick, shared, entries, locals, history, Kept, KeptBy, None, Working, Given,
     Marked
<1>2. ASSUME NEW s \in Senders, SendAlloc(s) \/ Sending(s) PROVE Kept'
  BY <1>2, KeptSending DEF Kept
<1>3. ASSUME NEW r \in Readers, Reading(r) PROVE Kept'
  <2>1. SUFFICES ASSUME NEW q \in Readers, q # r PROVE KeptBy(q)'
    BY <1>3, KeptReading DEF Kept
  <2>2. pc'[q] = pc[q] /\ own'[q] = own[q] /\ at'[q] = at[q] /\ best'[q] = best[q]
    BY <1>3, <2>1, ReaderLeaves
  <2>3. UNCHANGED <<block, holds>>
    BY <1>3, <2>1, ReaderEffects, NoBitLeft DEF ReaderChanges, FreeClear, Goto
  <2>4. KeptBy(q)
    BY DEF Kept
  <2> QED
    BY <2>2, <2>3, <2>4 DEF KeptBy, None, Working, Given, Marked
<1> QED
  BY <1>1, <1>2, <1>3 DEF Next

\* A lone reader's bit is set until it clears it.
LEMMA ClearedSending ==
  ASSUME Alone, Places, Owned, Aimed, Values, Recorded, Complete, Filled, Kept, Cleared,
         NEW s \in Senders, SendAlloc(s) \/ Sending(s), NEW r \in Readers
  PROVE  SeesBit(r)'
<1>1. pc'[r] = pc[r] /\ at'[r] = at[r] /\ best'[r] = best[r]
  BY SenderLeaves
<1>2. \A i \in Index : holds[i] # 0 => mask'[i] = mask[i]
  <2>1. CASE UNCHANGED mask
    BY <2>1
  <2>2. CASE AddMask(s)
    <3>1. at[s] \in Index /\ holds[at[s]] = 0
      BY <2>2 DEF AddMask, Goto, Aimed, Filled, Filling
    <3> QED
      BY <2>2, <3>1 DEF AddMask, Set, Values
  <2> QED
    BY <2>1, <2>2, SenderEffects DEF SenderChanges
<1>3. /\ pc[r] = "scan" /\ best[r] # None => best[r].entry \in Index /\ holds[best[r].entry] # 0
      /\ Working(r) => at[r] \in Index /\ holds[at[r]] # 0
  BY DEF Kept, KeptBy, Aimed
<1>4. None' = None /\ (Working(r)' <=> Working(r)) /\ (Marked(r)' <=> Marked(r))
  BY <1>1 DEF None, Working, Given, Marked
<1>5. SeesBit(r)
  BY DEF Cleared
<1> QED
  BY <1>1, <1>2, <1>3, <1>4, <1>5 DEF SeesBit

LEMMA ClearedReading ==
  ASSUME Alone, Places, Owned, Aimed, Values, Complete, Kept, Cleared, NEW r \in Readers,
         Reading(r)
  PROVE  SeesBit(r)'
<1> USE DEF Goto, Set, shared, entries, locals, history, Cleared, SeesBit, Working, Given,
    Marked
<1>1. CASE Poll(r)
  BY <1>1 DEF Poll, Places, Aimed, Threads
<1>2. CASE ScanEntry(r)
  <2>1. at[r] \in Index
    BY <1>2, Constants DEF ScanEntry, Aimed, Threads, Index
  <2>2. Seen(r) # None => Seen(r).entry \in Index /\ r \in mask[Seen(r).entry]
    BY <2>1, <1>2 DEF ScanEntry, Seen, Aimed
  <2> QED
    BY <2>2, <1>2 DEF ScanEntry, Places, Aimed, Threads, None
<1>3. CASE ScanEnd(r)
  <2>1. best[r] # None => best[r].entry \in Index /\ r \in mask[best[r].entry]
    BY <1>3 DEF ScanEnd, Aimed
  <2> QED
    BY <2>1, <1>3 DEF ScanEnd, Rescan, Forget, None, Places, Aimed, Threads
<1>4. CASE GetMessage(r)
  BY <1>4 DEF GetMessage, Rescan, Forget, Places, Owned, Aimed, Threads
<1>5. CASE Callback(r)
  BY <1>5 DEF Callback, Places, Owned, Aimed, Threads
<1>6. CASE MarkExists(r)
  <2>1. block[at[r]] # NULL
    BY <1>6 DEF MarkExists, Kept, KeptBy, Complete, Aimed
  <2> QED
    BY <2>1, <1>6 DEF MarkExists, Places, Threads
<1>7. CASE MarkLoad(r)
  BY <1>7 DEF MarkLoad, Places, Owned, Aimed, Threads
<1>8. CASE MarkStore(r)
  <2>1. at[r] \in Index
    BY <1>8 DEF MarkStore, Aimed
  <2> QED
    BY <2>1, <1>8 DEF MarkStore, Places, Threads, Values
<1>9. CASE MarkSub(r)
  BY <1>9 DEF MarkSub, Places, Owned, Aimed, Threads
<1>10. CASE FreeExists(r)
  BY <1>10 DEF FreeExists, Rescan, Forget, Places, Owned, Aimed, Threads
<1>11. CASE FreeRef(r)
  BY <1>11 DEF FreeRef, Rescan, Forget, Places, Owned, Aimed, Threads
<1>12. CASE FreeLock(r)
  BY <1>12 DEF FreeLock, Places, Owned, Aimed, Threads
<1>13. CASE FreeCheck(r)
  BY <1>13 DEF FreeCheck, Places, Owned, Aimed, Threads
<1>14. CASE FreeBlock(r)
  BY <1>14 DEF FreeBlock, Places, Owned, Aimed, Threads
<1>15. CASE FreeClear(r)
  BY <1>15 DEF FreeClear, Places, Owned, Aimed, Threads
<1>16. CASE FreeMask(r)
  BY <1>16 DEF FreeMask, Places, Owned, Aimed, Threads
<1>17. CASE FreeUnlock(r)
  BY <1>17 DEF FreeUnlock, Rescan, Forget, Places, Owned, Aimed, Threads
<1> QED
  BY <1>1, <1>2, <1>3, <1>4, <1>5, <1>6, <1>7, <1>8, <1>9, <1>10, <1>11, <1>12, <1>13,
     <1>14, <1>15, <1>16, <1>17 DEF Reading

LEMMA ClearedStep ==
  ASSUME Places, Owned, Aimed, Values, Recorded, Complete, Filled, Kept, Cleared,
         [Next]_vars
  PROVE  Cleared'
<1>1. CASE UNCHANGED vars \/ Tick
  BY <1>1
  DEF vars, Tick, shared, entries, locals, history, Cleared, SeesBit, None, Working, Given,
     Marked
<1>2. ASSUME NEW s \in Senders, SendAlloc(s) \/ Sending(s) PROVE Cleared'
  BY <1>2, SenderLeaves, ClearedSending DEF Cleared
<1>3. ASSUME NEW r \in Readers, Reading(r) PROVE Cleared'
  <2>1. Alone => \A q \in Readers : SeesBit(q)'
    BY <1>3, ClearedReading DEF Alone
  <2>2. ASSUME ~PoolAccepts PROVE pc'[r] \notin {"free_clear", "free_mask"}
    <3>1. ~FreeSucceeds /\ pc[r] \notin {"free_clear", "free_mask"}
      BY <2>2 DEF FreeSucceeds, Cleared
    <3> QED
      BY <1>3, <3>1
      DEF Reading, Goto, Places, Threads, Poll, ScanEntry, ScanEnd, GetMessage,
        Callback, MarkExists, MarkLoad, MarkStore, MarkSub, FreeExists, FreeRef, FreeLock,
        FreeCheck, FreeBlock, FreeClear, FreeMask, FreeUnlock
  <2> QED
    BY <1>3, <2>1, <2>2, ReaderLeaves DEF Cleared
<1> QED
  BY <1>1, <1>2, <1>3 DEF Next

-----------------------------------------------------------------------------
(* The count. *)
UncountedKept(t) == /\ Uncounted(t)' <=> Uncounted(t)
                    /\ pc'[t] = "free_mask" <=> pc[t] = "free_mask"

LEMMA SenderCounts ==
  ASSUME Places, NEW s \in Senders, SendAlloc(s) \/ Sending(s)
  PROVE  AddBlock(s) \/ AddCount(s) \/ UncountedKept(s)
<1> USE DEF Goto, Set, shared, entries, locals, history
<1>1. CASE SendAlloc(s)
  BY <1>1 DEF SendAlloc, UncountedKept, Uncounted, Places, Threads
<1>2. CASE SendWrite(s)
  BY <1>2 DEF SendWrite, UncountedKept, Uncounted, Places, Threads
<1>3. CASE AddLock(s)
  BY <1>3 DEF AddLock, UncountedKept, Uncounted, Places, Threads
<1>4. CASE AddFind(s)
  BY <1>4 DEF AddFind, UncountedKept, Uncounted, Places, Threads
<1>5. CASE AddBlock(s)
  BY <1>5
<1>6. CASE AddRef(s)
  BY <1>6 DEF AddRef, UncountedKept, Uncounted, Places, Threads
<1>7. CASE AddMask(s)
  BY <1>7 DEF AddMask, UncountedKept, Uncounted, Places, Threads
<1>8. CASE AddCount(s)
  BY <1>8
<1>9. CASE AddUnlock(s)
  BY <1>9 DEF AddUnlock, Forget, UncountedKept, Uncounted, Places, Threads
<1>10. CASE AddRefuse(s)
  BY <1>10 DEF AddRefuse, UncountedKept, Uncounted, Places, Threads
<1>11. CASE SendFree(s)
  BY <1>11 DEF SendFree, Forget, UncountedKept, Uncounted, Places, Threads
<1> QED
  BY <1>1, <1>2, <1>3, <1>4, <1>5, <1>6, <1>7, <1>8, <1>9, <1>10, <1>11 DEF Sending

LEMMA ReaderCounts ==
  ASSUME Places, NEW r \in Readers, Reading(r)
  PROVE  FreeClear(r) \/ FreeMask(r) \/ UncountedKept(r)
<1> USE DEF Goto, Set, shared, entries, locals, history
<1>1. CASE Poll(r)
  BY <1>1 DEF Poll, UncountedKept, Uncounted, Places, Threads
<1>2. CASE ScanEntry(r)
  BY <1>2 DEF ScanEntry, Seen, UncountedKept, Uncounted, Places, Threads
<1>3. CASE ScanEnd(r)
  BY <1>3 DEF ScanEnd, Rescan, Forget, UncountedKept, Uncounted, Places, Threads
<1>4. CASE GetMessage(r)
  BY <1>4 DEF GetMessage, Rescan, Forget, UncountedKept, Uncounted, Places, Threads
<1>5. CASE Callback(r)
  BY <1>5 DEF Callback, UncountedKept, Uncounted, Places, Threads
<1>6. CASE MarkExists(r)
  BY <1>6 DEF MarkExists, UncountedKept, Uncounted, Places, Threads
<1>7. CASE MarkLoad(r)
  BY <1>7 DEF MarkLoad, UncountedKept, Uncounted, Places, Threads
<1>8. CASE MarkStore(r)
  BY <1>8 DEF MarkStore, UncountedKept, Uncounted, Places, Threads
<1>9. CASE MarkSub(r)
  BY <1>9 DEF MarkSub, UncountedKept, Uncounted, Places, Threads
<1>10. CASE FreeExists(r)
  BY <1>10 DEF FreeExists, Rescan, Forget, UncountedKept, Uncounted, Places, Threads
<1>11. CASE FreeRef(r)
  BY <1>11 DEF FreeRef, Rescan, Forget, UncountedKept, Uncounted, Places, Threads
<1>12. CASE FreeLock(r)
  BY <1>12 DEF FreeLock, UncountedKept, Uncounted, Places, Threads
<1>13. CASE FreeCheck(r)
  BY <1>13 DEF FreeCheck, UncountedKept, Uncounted, Places, Threads
<1>14. CASE FreeBlock(r)
  BY <1>14 DEF FreeBlock, UncountedKept, Uncounted, Places, Threads
<1>15. CASE FreeClear(r)
  BY <1>15
<1>16. CASE FreeMask(r)
  BY <1>16
<1>17. CASE FreeUnlock(r)
  BY <1>17 DEF FreeUnlock, Rescan, Forget, UncountedKept, Uncounted, Places, Threads
<1> QED
  BY <1>1, <1>2, <1>3, <1>4, <1>5, <1>6, <1>7, <1>8, <1>9, <1>10, <1>11, <1>12, <1>13,
     <1>14, <1>15, <1>16, <1>17 DEF Reading

LEMMA UsedFinite ==
  /\ IsFiniteSet(Used) /\ Cardinality(Used) \in 0 .. Slots
  /\ \A i \in Index : /\ i \notin Used => Cardinality(Used \cup {i}) = Cardinality(Used) + 1
                      /\ i \in Used => Cardinality(Used \ {i}) = Cardinality(Used) - 1
<1>1. IsFiniteSet(Index) /\ Cardinality(Index) = Slots
  BY FS_Interval, Constants DEF Index
<1>2. Used \subseteq Index
  BY DEF Used
<1> QED
  BY <1>1, <1>2, FS_Subset, FS_CardinalityType, FS_AddElement, FS_RemoveElement, Constants

\* Adding one to the count, or taking it away again, does not wrap.
LEMMA CountSums ==
  ASSUME count \in 0 .. Word - 1
  PROVE  /\ Cardinality(Used) = count + 1 => (count + 1) % Word = Cardinality(Used)
         /\ count = Cardinality(Used) + 1 => (count + Word - 1) % Word = Cardinality(Used)
<1>1. /\ Cardinality(Used) \in Nat /\ Cardinality(Used) <= Slots
      /\ Word \in Nat /\ Slots \in Nat /\ Slots < Word /\ count \in Nat /\ count < Word
  BY UsedFinite, Constants
<1>2. ASSUME Cardinality(Used) = count + 1 PROVE (count + 1) % Word = Cardinality(Used)
  BY <1>1, <1>2
<1>3. ASSUME count = Cardinality(Used) + 1 PROVE (count + Word - 1) % Word = Cardinality(Used)
  <2>1. count + Word - 1 = Word + Cardinality(Used)
    BY <1>1, <1>3
  <2>2. Cardinality(Used) < Word
    BY <1>1
  <2>3. (Word + Cardinality(Used)) % Word = Cardinality(Used)
    BY <1>1, <2>2
  <2> QED
    BY <2>1, <2>3
<1> QED
  BY <1>2, <1>3

\* Whoever is changing the count or the entries is alone in it.
LEMMA OneCounts ==
  ASSUME Locked, NEW t \in Threads, Holder(t)
  PROVE  \A u \in Threads : u # t => ~Uncounted(u) /\ pc[u] # "free_mask"
BY LockExcludes DEF Holder, Adding, Freeing, Uncounted

LEMMA CountedStep ==
  ASSUME Places, Owned, Aimed, Values, Complete, Filled, Kept, Locked, Counted, [Next]_vars
  PROVE  Counted'
<1>1. CASE UNCHANGED vars \/ Tick
  BY <1>1 DEF vars, Tick, shared, entries, Counted, Uncounted, Used
<1>2. ASSUME NEW s \in Senders, SendAlloc(s) \/ Sending(s) PROVE Counted'
  <2>1. s \in Threads /\ \A u \in Threads : u # s => UncountedKept(u)
    BY <1>2, SenderActs DEF Others, UncountedKept, Uncounted, Threads
  <2>2. CASE AddBlock(s)
    <3>1. \A u \in Threads : u # s => ~Uncounted(u) /\ pc[u] # "free_mask"
      BY <2>1, <2>2, OneCounts DEF AddBlock, Goto, Holder, Adding
    <3>2. ~Uncounted(s) /\ pc[s] # "free_mask" /\ Uncounted(s)' /\ pc'[s] # "free_mask"
      BY <2>2, <2>1 DEF AddBlock, Goto, Uncounted, Places
    <3>3. count = Cardinality(Used) /\ count' = count
      BY <2>2, <3>1, <3>2 DEF Counted, AddBlock
    <3>4. at[s] \in Index /\ block[at[s]] = NULL /\ own[s] # NULL
      BY <2>2, Constants DEF AddBlock, Goto, Aimed, Filled, Owned
    <3>5. at[s] \notin Used /\ Used' = Used \cup {at[s]}
      BY <2>2, <3>4 DEF AddBlock, Used, Set, Values
    <3>6. Cardinality(Used') = count + 1
      BY <3>3, <3>4, <3>5, UsedFinite
    <3> QED
      BY <3>1, <3>2, <3>3, <3>6, <2>1, Constants DEF Counted, UncountedKept, Threads
  <2>3. CASE AddCount(s)
    <3>1. \A u \in Threads : u # s => ~Uncounted(u) /\ pc[u] # "free_mask"
      BY <2>1, <2>3, OneCounts DEF AddCount, Goto, Holder, Adding
    <3>2. Uncounted(s) /\ ~Uncounted(s)' /\ pc'[s] # "free_mask"
      BY <2>3, <2>1 DEF AddCount, Goto, Uncounted, Places
    <3>3. count' = Cardinality(Used)
      BY <2>3, <3>2, CountSums DEF Counted, AddCount, Values
    <3>4. Used' = Used
      BY <2>3 DEF AddCount, Used, entries
    <3> QED
      BY <3>1, <3>2, <3>3, <3>4, <2>1 DEF Counted, UncountedKept, Threads
  <2>4. CASE ~AddBlock(s) /\ ~AddCount(s)
    <3>1. UNCHANGED <<block, count>> /\ UncountedKept(s)
      BY <1>2, <2>4, SenderEffects, SenderCounts DEF SenderChanges
    <3>2. \A t \in Threads : UncountedKept(t)
      BY <2>1, <3>1
    <3>3. Used' = Used
      BY <3>1 DEF Used
    <3> QED
      BY <3>1, <3>2, <3>3 DEF Counted, UncountedKept, Threads
  <2> QED
    BY <2>2, <2>3, <2>4
<1>3. ASSUME NEW r \in Readers, Reading(r) PROVE Counted'
  <2>1. r \in Threads /\ \A u \in Threads : u # r => UncountedKept(u)
    BY <1>3, ReaderActs DEF Others, UncountedKept, Uncounted, Threads
  <2>2. CASE FreeClear(r)
    <3>1. \A u \in Threads : u # r => ~Uncounted(u) /\ pc[u] # "free_mask"
      BY <2>1, <2>2, OneCounts DEF FreeClear, Goto, Holder, Freeing
    <3>2. ~Uncounted(r) /\ pc[r] # "free_mask" /\ ~Uncounted(r)' /\ pc'[r] = "free_mask"
      BY <2>2, <2>1 DEF FreeClear, Goto, Uncounted, Places
    <3>3. count = Cardinality(Used) /\ count' = count
      BY <2>2, <3>1, <3>2 DEF Counted, FreeClear
    <3>4. at[r] \in Index /\ block[at[r]] # NULL
      BY <2>2 DEF FreeClear, Goto, Aimed, Kept, KeptBy, Complete, Working, Given, Marked
    <3>5. at[r] \in Used /\ Used' = Used \ {at[r]}
      BY <2>2, <3>4 DEF FreeClear, Used, Set, Values
    <3>6. count = Cardinality(Used') + 1
      BY <3>3, <3>4, <3>5, UsedFinite
    <3> QED
      BY <3>1, <3>2, <3>3, <3>6, <2>1, Constants DEF Counted, UncountedKept, Threads
  <2>3. CASE FreeMask(r)
    <3>1. \A u \in Threads : u # r => ~Uncounted(u) /\ pc[u] # "free_mask"
      BY <2>1, <2>3, OneCounts DEF FreeMask, Goto, Holder, Freeing
    <3>2. pc[r] = "free_mask" /\ ~Uncounted(r)' /\ pc'[r] # "free_mask"
      BY <2>3, <2>1 DEF FreeMask, Goto, Uncounted, Places
    <3>3. count' = Cardinality(Used)
      BY <2>3, <3>2, CountSums DEF Counted, FreeMask, Values
    <3>4. Used' = Used
      BY <2>3 DEF FreeMask, Used
    <3> QED
      BY <3>1, <3>2, <3>3, <3>4, <2>1 DEF Counted, UncountedKept, Threads
  <2>4. CASE ~FreeClear(r) /\ ~FreeMask(r)
    <3>1. UNCHANGED <<block, count>> /\ UncountedKept(r)
      BY <1>3, <2>4, ReaderEffects, ReaderCounts DEF ReaderChanges
    <3>2. \A t \in Threads : UncountedKept(t)
      BY <2>1, <3>1
    <3>3. Used' = Used
      BY <3>1 DEF Used
    <3> QED
      BY <3>1, <3>2, <3>3 DEF Counted, UncountedKept, Threads
  <2> QED
    BY <2>2, <2>3, <2>4
<1> QED
  BY <1>1, <1>2, <1>3 DEF Next

-----------------------------------------------------------------------------
(* The pool and the blocks. *)
LEMMA PoolElements ==
  ASSUME NEW q \in Seq(Blocks)
  PROVE  ToSet(q) \subseteq Blocks /\ \A b : b \in ToSet(q) <=> \E k \in 1 .. Len(q) : q[k] = b
BY DEF ToSet

LEMMA PoolTaken ==
  ASSUME pool \in Seq(Blocks), pool # << >>, IsInjective(pool)
  PROVE  /\ IsInjective(Tail(pool)) /\ ToSet(Tail(pool)) \subseteq ToSet(pool)
         /\ Head(pool) \in ToSet(pool) /\ Head(pool) \notin ToSet(Tail(pool))
<1>1. /\ Tail(pool) \in Seq(Blocks) /\ Len(pool) \in Nat \ {0} /\ Len(Tail(pool)) = Len(pool) - 1
      /\ \A k \in 1 .. Len(pool) - 1 : Tail(pool)[k] = pool[k + 1]
      /\ Head(pool) = pool[1]
  OBVIOUS
<1>2. \A j, k \in 1 .. Len(pool) : pool[j] = pool[k] => j = k
  BY DEF IsInjective
<1>3. IsInjective(Tail(pool))
  BY <1>1, <1>2 DEF IsInjective
<1>4. \A k \in 1 .. Len(Tail(pool)) :
         k + 1 \in 1 .. Len(pool) /\ k + 1 # 1 /\ Tail(pool)[k] = pool[k + 1]
  BY <1>1
<1>5. 1 \in 1 .. Len(pool)
  BY <1>1
<1>6. \A b : b \in ToSet(pool) <=> \E k \in 1 .. Len(pool) : pool[k] = b
  BY PoolElements
<1>7. \A b : b \in ToSet(Tail(pool)) <=> \E k \in 1 .. Len(Tail(pool)) : Tail(pool)[k] = b
  BY <1>1, PoolElements
<1>8. ToSet(Tail(pool)) \subseteq ToSet(pool)
  BY <1>4, <1>6, <1>7, Zenon
<1>9. Head(pool) \in ToSet(pool)
  BY <1>1, <1>5, <1>6
<1>10. Head(pool) \notin ToSet(Tail(pool))
  <2>1. SUFFICES ASSUME NEW k \in 1 .. Len(Tail(pool)), Tail(pool)[k] = Head(pool)
                 PROVE  FALSE
    BY <1>7
  <2>2. k + 1 \in 1 .. Len(pool) /\ k + 1 # 1 /\ pool[k + 1] = pool[1]
    BY <2>1, <1>1, <1>4
  <2> QED
    BY <2>2, <1>2, <1>5
<1> QED
  BY <1>3, <1>8, <1>9, <1>10

LEMMA PoolReturned ==
  ASSUME pool \in Seq(Blocks), IsInjective(pool), NEW b \in Blocks, b \notin ToSet(pool)
  PROVE  /\ IsInjective(Append(pool, b))
         /\ \A c \in ToSet(Append(pool, b)) : c \in ToSet(pool) \/ c = b
<1>1. /\ Append(pool, b) \in Seq(Blocks) /\ Len(Append(pool, b)) = Len(pool) + 1
      /\ Len(pool) \in Nat /\ Append(pool, b)[Len(pool) + 1] = b
      /\ \A k \in 1 .. Len(pool) : Append(pool, b)[k] = pool[k]
  OBVIOUS
<1>2. \A j, k \in 1 .. Len(pool) : pool[j] = pool[k] => j = k
  BY DEF IsInjective
<1>3. \A k \in 1 .. Len(pool) : pool[k] # b
  BY PoolElements
<1>4. \A k \in 1 .. Len(Append(pool, b)) : k \in 1 .. Len(pool) \/ k = Len(pool) + 1
  BY <1>1
<1>5. IsInjective(Append(pool, b))
  BY <1>1, <1>2, <1>3, <1>4 DEF IsInjective
<1>6. \A c : c \in ToSet(pool) <=> \E k \in 1 .. Len(pool) : pool[k] = c
  BY PoolElements
<1>7. \A c : c \in ToSet(Append(pool, b)) <=>
         \E k \in 1 .. Len(Append(pool, b)) : Append(pool, b)[k] = c
  BY <1>1, PoolElements
<1>8. ASSUME NEW c \in ToSet(Append(pool, b)) PROVE c \in ToSet(pool) \/ c = b
  BY <1>1, <1>4, <1>6, <1>7, Zenon
<1> QED
  BY <1>5, <1>8

\* The block of one entry at a time is on its way back.
LEMMA NobodyLeaves ==
  ASSUME Locked, NEW t \in Threads, Holder(t), pc[t] # "free_clear"
  PROVE  \A i : ~Leaving(i)
BY LockExcludes DEF Leaving, Holder, Freeing, Threads

LEMMA OneLeaves ==
  ASSUME Locked, NEW r \in Readers, pc[r] = "free_clear"
  PROVE  \A i : Leaving(i) <=> i = at[r]
BY LockExcludes DEF Leaving, Holder, Freeing, Threads

LEMMA SendingLeaves ==
  ASSUME Places, Owned, Aimed, Values, NEW s \in Senders, SendAlloc(s) \/ Sending(s)
  PROVE  \A i : Leaving(i)' <=> Leaving(i)
BY SenderLeaves DEF Leaving

LEMMA ReadingLeaves ==
  ASSUME Places, Owned, Aimed, Values, NEW r \in Readers, Reading(r),
         ~FreeBlock(r), ~FreeClear(r)
  PROVE  \A i : Leaving(i)' <=> Leaving(i)
<1>1. pc[r] # "free_clear" /\ pc'[r] # "free_clear"
  BY DEF Reading, Goto, Places, Threads, Poll, ScanEntry, ScanEnd, GetMessage,
         Callback, MarkExists, MarkLoad, MarkStore, MarkSub, FreeExists, FreeRef, FreeLock,
         FreeCheck, FreeMask, FreeUnlock
<1> QED
  BY <1>1, ReaderLeaves DEF Leaving

\* A sender owns no block but the one it has been given.
LEMMA SenderOwns ==
  ASSUME Places, Owned, NEW s \in Senders, SendAlloc(s) \/ Sending(s)
  PROVE  SendAlloc(s) \/ (Owns(s)' => Owns(s) /\ own'[s] = own[s])
<1> USE DEF Goto, Set, shared, entries, locals, history
<1>1. CASE SendAlloc(s)
  BY <1>1
<1>2. CASE SendWrite(s)
  BY <1>2 DEF SendWrite, Owns, Threads, Places, Owned
<1>3. CASE AddLock(s)
  BY <1>3 DEF AddLock, Owns, Threads, Places, Owned
<1>4. CASE AddFind(s)
  BY <1>4 DEF AddFind, Owns, Threads, Places, Owned
<1>5. CASE AddBlock(s)
  BY <1>5 DEF AddBlock, Owns, Threads, Places, Owned
<1>6. CASE AddRef(s)
  BY <1>6 DEF AddRef, Owns, Threads, Places, Owned
<1>7. CASE AddMask(s)
  BY <1>7 DEF AddMask, Owns, Threads, Places, Owned
<1>8. CASE AddCount(s)
  BY <1>8 DEF AddCount, Owns, Threads, Places, Owned
<1>9. CASE AddUnlock(s)
  BY <1>9 DEF AddUnlock, Forget, Owns, Threads, Places, Owned
<1>10. CASE AddRefuse(s)
  BY <1>10 DEF AddRefuse, Owns, Threads, Places, Owned
<1>11. CASE SendFree(s)
  BY <1>11 DEF SendFree, Forget, Owns, Threads, Places, Owned
<1> QED
  BY <1>1, <1>2, <1>3, <1>4, <1>5, <1>6, <1>7, <1>8, <1>9, <1>10, <1>11 DEF Sending

LEMMA SharedStep ==
  ASSUME Places, Owned, Aimed, Values, Complete, Filled, Kept, Locked, Shared, [Next]_vars
  PROVE  Shared'
<1> USE DEF Shared
<1>1. CASE UNCHANGED vars \/ Tick
  BY <1>1 DEF vars, Tick, shared, entries, locals, Owns, Leaving
<1>2. ASSUME NEW s \in Senders, SendAlloc(s) \/ Sending(s) PROVE Shared'
  <2>1. /\ \A i : Leaving(i)' <=> Leaving(i)
        /\ \A u \in Senders : u # s => own'[u] = own[u] /\ (Owns(u)' <=> Owns(u))
    BY <1>2, SendingLeaves, SenderActs DEF Others, Owns, Threads
  <2>2. CASE SendAlloc(s)
    <3>1. UNCHANGED block /\ pool' = Tail(pool) /\ pool # << >> /\ own'[s] = Head(pool)
      BY <2>2 DEF SendAlloc, entries, Set, Owned, Threads
    <3>2. /\ IsInjective(pool') /\ ToSet(pool') \subseteq ToSet(pool)
          /\ own'[s] \in ToSet(pool) /\ own'[s] \notin ToSet(pool')
      BY <3>1, PoolTaken DEF Values
    <3> QED
      BY <2>1, <3>1, <3>2
  <2>3. CASE SendFree(s)
    <3>1. UNCHANGED block /\ Owns(s) /\ ~Owns(s)' /\ own[s] \in Blocks
      BY <2>3 DEF SendFree, entries, Goto, Owns, Places, Owned, Threads
    <3>2. /\ IsInjective(pool')
          /\ \A c \in ToSet(pool') : c \in ToSet(pool) \/ c = own[s]
      BY <2>3, <3>1, PoolReturned DEF SendFree, Values
    <3> QED
      BY <2>1, <3>1, <3>2
  <2>4. CASE AddBlock(s)
    <3>1. /\ UNCHANGED pool /\ Owns(s) /\ ~Owns(s)' /\ at[s] \in Index
          /\ block' = [block EXCEPT ![at[s]] = own[s]]
      BY <2>4 DEF AddBlock, Goto, Set, Owns, Places, Aimed, Threads
    <3>2. \A i : ~Leaving(i)
      BY <2>4, NobodyLeaves DEF AddBlock, Goto, Holder, Adding, Threads
    <3>3. /\ block'[at[s]] = own[s]
          /\ \A i \in Index : i # at[s] => block'[i] = block[i] /\ block'[i] # own[s]
      BY <3>1, <3>2 DEF Values
    <3>4. \A i \in Index : block'[i] \notin ToSet(pool')
      BY <3>1, <3>2, <3>3
    <3>5. \A i, j \in Index : i # j /\ block'[i] # NULL => block'[i] # block'[j]
      BY <3>3
    <3>6. ASSUME NEW u \in Senders, Owns(u)' PROVE u # s /\ \A i \in Index : own'[u] # block'[i]
      BY <2>1, <3>1, <3>2, <3>3, <3>6
    <3> QED
      BY <2>1, <3>1, <3>4, <3>5, <3>6
  <2>5. CASE ~SendAlloc(s) /\ ~SendFree(s) /\ ~AddBlock(s)
    <3>1. UNCHANGED <<block, pool>> /\ (Owns(s)' => Owns(s) /\ own'[s] = own[s])
      BY <1>2, <2>5, SenderEffects, SenderOwns DEF SenderChanges
    <3> QED
      BY <2>1, <3>1
  <2> QED
    BY <2>2, <2>3, <2>4, <2>5
<1>3. ASSUME NEW r \in Readers, Reading(r) PROVE Shared'
  <2>1. \A u \in Senders : own'[u] = own[u] /\ (Owns(u)' <=> Owns(u))
    BY <1>3, ReaderLeaves DEF Owns
  <2>2. CASE FreeBlock(r)
    <3>1. UNCHANGED block /\ at[r] \in Index /\ block[at[r]] \in Blocks /\ own[r] = block[at[r]]
      BY <2>2, Constants
      DEF FreeBlock, entries, Goto, Aimed, Owned, Kept, KeptBy, Working, Given, Marked
    <3>2. \A i : ~Leaving(i)
      BY <2>2, NobodyLeaves DEF FreeBlock, Goto, Holder, Freeing, Threads
    <3>3. own[r] \notin ToSet(pool)
      BY <3>1, <3>2
    <3>4. /\ IsInjective(pool')
          /\ \A c \in ToSet(pool') : c \in ToSet(pool) \/ c = own[r]
      BY <2>2, <3>1, <3>3, PoolReturned, ZenonT(40) DEF FreeBlock, Values
    <3>5. CASE pool' = pool
      BY <2>1, <3>1, <3>2, <3>5
    <3>6. CASE pool' # pool
      <4>1. \A i : i = at[r] => Leaving(i)'
        BY <2>2, <3>6 DEF FreeBlock, Goto, Leaving, locals, Places, Threads
      <4>2. \A i \in Index : block[i] = own[r] => i = at[r]
        BY <3>1, Constants
      <4>3. \A u \in Senders : Owns(u) => own[u] # own[r]
        BY <3>1, <3>2
      <4>4. \A i \in Index : block'[i] \in ToSet(pool') => Leaving(i)'
        BY <3>1, <3>2, <3>4, <4>1, <4>2
      <4>5. \A u \in Senders : Owns(u)' =>
              own'[u] \notin ToSet(pool') /\ \A i \in Index : own'[u] # block'[i]
        BY <2>1, <3>1, <3>2, <3>4, <4>3
      <4>6. \A i, j \in Index : i # j /\ block'[i] # NULL => block'[i] # block'[j]
        BY <3>1
      <4>7. \A u, v \in Senders : Owns(u)' /\ Owns(v)' /\ u # v => own'[u] # own'[v]
        BY <2>1
      <4> QED
        BY <3>4, <4>4, <4>5, <4>6, <4>7
    <3> QED
      BY <3>5, <3>6
  <2>3. CASE FreeClear(r)
    <3>1. /\ UNCHANGED pool /\ at[r] \in Index /\ block' = [block EXCEPT ![at[r]] = NULL]
      BY <2>3 DEF FreeClear, Goto, Set, Aimed, Working, Given, Marked
    <3>2. \A i : Leaving(i) => i = at[r]
      BY <2>3, OneLeaves DEF FreeClear, Goto
    <3>3. block'[at[r]] = NULL /\ \A i \in Index : i # at[r] => block'[i] = block[i]
      BY <3>1 DEF Values
    <3>4. NULL \notin ToSet(pool)
      BY PoolElements, Constants DEF Values
    <3>5. \A i \in Index : block'[i] \notin ToSet(pool')
      BY <3>1, <3>2, <3>3, <3>4
    <3>6. \A i, j \in Index : i # j /\ block'[i] # NULL => block'[i] # block'[j]
      BY <3>3
    <3>7. \A u \in Senders : Owns(u) => own[u] # NULL
      BY Constants DEF Owns, Owned
    <3>8. \A u \in Senders : Owns(u) => \A i \in Index : own[u] # block'[i]
      BY <3>2, <3>3, <3>7
    <3> QED
      BY <2>1, <3>1, <3>5, <3>6, <3>8
  <2>4. CASE ~FreeBlock(r) /\ ~FreeClear(r)
    <3>1. UNCHANGED <<block, pool>>
      BY <1>3, <2>4, ReaderEffects DEF ReaderChanges
    <3> QED
      BY <1>3, <2>1, <2>4, <3>1, ReadingLeaves
  <2> QED
    BY <2>2, <2>3, <2>4
<1> QED
  BY <1>1, <1>2, <1>3 DEF Next

-----------------------------------------------------------------------------
(* The messages. *)
\* A sender about to write has a block of its own.
LEMMA Apart ==
  ASSUME Places, Locked, Filled, Aimed, Shared, NEW s \in Senders, pc[s] = "send_write",
         NEW u \in Senders, u # s, Pending(u)
  PROVE  own[u] # own[s]
<1>1. Owns(s)
  BY DEF Owns
<1>2. CASE Owns(u)
  BY <1>1, <1>2 DEF Shared
<1>3. CASE ~Owns(u)
  <2>1. Filling(u) /\ Holder(u) /\ pc[u] # "free_clear" /\ u \in Threads
    BY <1>3 DEF Pending, Owns, Filling, Holder, Adding, Threads
  <2>2. ~Leaving(at[u]) /\ at[u] \in Index /\ own[u] = block[at[u]]
    BY <2>1, NobodyLeaves DEF Filled, Aimed
  <2> QED
    BY <1>1, <2>2 DEF Shared
<1> QED
  BY <1>2, <1>3

\* What a reader hands to the callback is what its entry tracks.
LEMMA ReadsHeld ==
  ASSUME Steady, Places, Owned, Aimed, Values, Kept, Cleared, Numbered,
         NEW r \in Readers, pc[r] = "callback"
  PROVE  /\ at[r] \in Index /\ holds[at[r]] # 0 /\ carries[own[r]] = holds[at[r]]
         /\ holds[at[r]] \in 1 .. sent
<1>1. at[r] \in Index /\ holds[at[r]] # 0 /\ own[r] = block[at[r]]
  BY DEF Aimed, Kept, KeptBy, Working
<1>2. ~Leaving(at[r])
  BY NoBitLeft DEF Leaving
<1> QED
  BY <1>1, <1>2 DEF Numbered

LEMMA SenderPends ==
  ASSUME Places, Owned, Values, NEW s \in Senders, SendAlloc(s) \/ Sending(s)
  PROVE  \/ SendWrite(s)
         \/ Pending(s)' => Pending(s) /\ own'[s] = own[s] /\ old'[s] = old[s]
<1> USE DEF Goto, Set, shared, entries, locals, history
<1>1. CASE SendAlloc(s)
  BY <1>1 DEF SendAlloc, Pending, Threads, Places, Owned, Values
<1>2. CASE SendWrite(s)
  BY <1>2
<1>3. CASE AddLock(s)
  BY <1>3 DEF AddLock, Pending, Threads, Places, Owned, Values
<1>4. CASE AddFind(s)
  BY <1>4 DEF AddFind, Pending, Threads, Places, Owned, Values
<1>5. CASE AddBlock(s)
  BY <1>5 DEF AddBlock, Pending, Threads, Places, Owned, Values
<1>6. CASE AddRef(s)
  BY <1>6 DEF AddRef, Pending, Threads, Places, Owned, Values
<1>7. CASE AddMask(s)
  BY <1>7 DEF AddMask, Pending, Threads, Places, Owned, Values
<1>8. CASE AddCount(s)
  BY <1>8 DEF AddCount, Pending, Threads, Places, Owned, Values
<1>9. CASE AddUnlock(s)
  BY <1>9 DEF AddUnlock, Forget, Pending, Threads, Places, Owned, Values
<1>10. CASE AddRefuse(s)
  BY <1>10 DEF AddRefuse, Pending, Threads, Places, Owned, Values
<1>11. CASE SendFree(s)
  BY <1>11 DEF SendFree, Forget, Pending, Threads, Places, Owned, Values
<1> QED
  BY <1>1, <1>2, <1>3, <1>4, <1>5, <1>6, <1>7, <1>8, <1>9, <1>10, <1>11 DEF Sending

LEMMA GotMore ==
  ASSUME NEW q \in Seq(0 .. MaxMessages), NEW m
  PROVE  \A n : n \in ToSet(Append(q, m)) <=> n \in ToSet(q) \/ n = m
<1>1. /\ Len(q) \in Nat /\ Len(Append(q, m)) = Len(q) + 1
      /\ Append(q, m)[Len(q) + 1] = m
      /\ \A k \in 1 .. Len(q) : Append(q, m)[k] = q[k]
      /\ DOMAIN q = 1 .. Len(q) /\ DOMAIN Append(q, m) = 1 .. Len(q) + 1
  OBVIOUS
<1>2. \A k : k \in 1 .. Len(q) + 1 <=> k \in 1 .. Len(q) \/ k = Len(q) + 1
  BY <1>1
<1> QED
  BY <1>1, <1>2, Zenon DEF ToSet

LEMMA NumberedStep ==
  ASSUME Steady, Places, Owned, Aimed, Values, Sent, Recorded, Complete, Filled, Kept,
         Cleared,
         Locked, Shared, Numbered, Fresh, [Next]_vars
  PROVE  Numbered'
<1> USE DEF Numbered
<1>1. CASE UNCHANGED vars \/ Tick
  BY <1>1 DEF vars, Tick, shared, entries, locals, history, Leaving
<1>2. ASSUME NEW s \in Senders, SendAlloc(s) \/ Sending(s) PROVE Numbered'
  <2>1. (\A i : Leaving(i)' <=> Leaving(i)) /\ UNCHANGED got
    BY <1>2, SendingLeaves, SenderEffects DEF SenderChanges
  <2>2. CASE SendWrite(s)
    <3>1. /\ UNCHANGED <<block, holds>> /\ own[s] \in Blocks /\ Owns(s)
          /\ carries' = [carries EXCEPT ![own[s]] = sent + 1] /\ sent' = sent + 1
      BY <2>2 DEF SendWrite, entries, Goto, Set, Owned, Owns
    <3>2. \A i \in Index : holds[i] # 0 =>
             Leaving(i) \/ carries'[block[i]] = carries[block[i]]
      <4>1. ASSUME NEW i \in Index, block[i] # own[s] PROVE carries'[block[i]] = carries[block[i]]
        <5>1. CASE block[i] \in Blocks
          BY <5>1, <4>1, <3>1 DEF Recorded
        <5>2. CASE block[i] \notin Blocks
          BY <5>2, <3>1 DEF Recorded
        <5> QED
          BY <5>1, <5>2
      <4> QED
        BY <4>1, <3>1 DEF Shared
    <3>3. sent \in Nat /\ \A n \in 1 .. sent : n \in 1 .. sent'
      BY <3>1 DEF Sent
    <3> QED
      BY <2>1, <3>1, <3>2, <3>3
  <2>3. CASE AddMask(s)
    <3>1. /\ UNCHANGED <<block, carries, sent>> /\ at[s] \in Index /\ own[s] = block[at[s]]
          /\ holds' = [holds EXCEPT ![at[s]] = Message(s)]
      BY <2>3 DEF AddMask, Goto, Set, Aimed, Filled, Filling, Message
    <3>2. Message(s) \in 1 .. sent /\ \A i \in Index : holds[i] # Message(s)
      BY <2>3 DEF AddMask, Goto, Fresh, Pending
    <3>3. carries[block[at[s]]] = Message(s)
      BY <3>1 DEF Message
    <3>4. holds'[at[s]] = Message(s) /\ \A i \in Index : i # at[s] => holds'[i] = holds[i]
      BY <3>1 DEF Recorded
    <3> HIDE DEF Message
    <3>5. \A i \in Index : holds'[i] # 0 =>
             holds'[i] \in 1 .. sent' /\ (carries'[block'[i]] = holds'[i] \/ Leaving(i)')
      BY <2>1, <3>1, <3>2, <3>3, <3>4
    <3>6. \A i, j \in Index : i # j /\ holds'[i] # 0 => holds'[i] # holds'[j]
      BY <3>2, <3>4
    <3> QED
      BY <2>1, <3>1, <3>5, <3>6
  <2>4. CASE AddBlock(s)
    <3>1. /\ UNCHANGED <<holds, carries, sent>> /\ at[s] \in Index /\ holds[at[s]] = 0
          /\ block' = [block EXCEPT ![at[s]] = own[s]]
      BY <2>4 DEF AddBlock, Goto, Set, history, Aimed, Filled, Complete
    <3>2. \A i \in Index : holds[i] # 0 => block'[i] = block[i]
      BY <3>1 DEF Values
    <3> QED
      BY <2>1, <3>1, <3>2
  <2>5. CASE ~SendWrite(s) /\ ~AddMask(s) /\ ~AddBlock(s)
    <3>1. UNCHANGED <<block, holds, carries, sent>>
      BY <1>2, <2>5, SenderEffects DEF SenderChanges
    <3> QED
      BY <2>1, <3>1
  <2> QED
    BY <2>2, <2>3, <2>4, <2>5
<1>3. ASSUME NEW r \in Readers, Reading(r) PROVE Numbered'
  <2>1. UNCHANGED <<carries, sent>>
    BY <1>3, ReaderEffects DEF ReaderChanges
  <2>2. CASE FreeClear(r)
    <3>1. /\ UNCHANGED got /\ at[r] \in Index
          /\ block' = [block EXCEPT ![at[r]] = NULL] /\ holds' = [holds EXCEPT ![at[r]] = 0]
          /\ \A i : Leaving(i) => i = at[r]
      BY <2>2, OneLeaves DEF FreeClear, Goto, Set, Aimed, Working, Given, Marked
    <3>2. /\ holds'[at[r]] = 0
          /\ \A i \in Index : i # at[r] => block'[i] = block[i] /\ holds'[i] = holds[i]
      BY <3>1 DEF Values, Recorded
    <3> QED
      BY <2>1, <3>1, <3>2
  <2>3. CASE FreeBlock(r)
    <3>1. UNCHANGED <<block, holds, got>>
      BY <2>3 DEF FreeBlock, entries, history
    <3>2. \A i : ~Leaving(i)
      BY <2>3, NobodyLeaves DEF FreeBlock, Goto, Holder, Freeing, Threads
    <3> QED
      BY <2>1, <3>1, <3>2
  <2>4. CASE Callback(r)
    <3>1. UNCHANGED <<block, holds>> /\ \A i : Leaving(i)' <=> Leaving(i)
      BY <1>3, <2>4, ReadingLeaves, ReaderEffects
      DEF ReaderChanges, Callback, FreeBlock, FreeClear, Goto, shared, entries
    <3>2. got' = [got EXCEPT ![r] = Append(got[r], carries[own[r]])] /\ carries[own[r]] \in 1 .. sent
      BY <2>4, ReadsHeld DEF Callback, Goto, Set
    <3>3. \A q \in Readers : ToSet(got'[q]) \subseteq 1 .. sent
      BY <3>2, GotMore DEF Recorded
    <3> QED
      BY <2>1, <3>1, <3>3
  <2>5. CASE ~FreeClear(r) /\ ~FreeBlock(r) /\ ~Callback(r)
    <3>1. UNCHANGED <<block, holds, got>>
      BY <1>3, <2>5, ReaderEffects DEF ReaderChanges
    <3> QED
      BY <1>3, <2>1, <2>5, <3>1, ReadingLeaves
  <2> QED
    BY <2>2, <2>3, <2>4, <2>5
<1> QED
  BY <1>1, <1>2, <1>3 DEF Next

LEMMA FreshStep ==
  ASSUME Steady, Places, Owned, Aimed, Values, Sent, Recorded, Filled, Kept, Cleared,
         Locked, Shared, Numbered, Fresh, [Next]_vars
  PROVE  Fresh'
<1>1. CASE UNCHANGED vars \/ Tick
  BY <1>1 DEF vars, Tick, shared, entries, locals, history, Fresh, Pending, Message, Handed
<1>2. ASSUME NEW s \in Senders, SendAlloc(s) \/ Sending(s) PROVE Fresh'
  <2>1. /\ UNCHANGED got
        /\ \A u \in Senders : u # s =>
             (Pending(u)' <=> Pending(u)) /\ own'[u] = own[u] /\ old'[u] = old[u]
    BY <1>2, SenderEffects, SenderActs DEF SenderChanges, Others, Pending, Threads
  <2>2. CASE SendWrite(s)
    <3>1. PICK m \in Masks : old' = [old EXCEPT ![s] = m] /\ due' = Append(due, m)
      BY <2>2 DEF SendWrite, Set
    <3>2. /\ UNCHANGED <<own, holds>> /\ own[s] \in Blocks
          /\ carries' = [carries EXCEPT ![own[s]] = sent + 1] /\ sent' = sent + 1
      BY <2>2 DEF SendWrite, Goto, Set, Owned
    <3>3. /\ sent \in Nat /\ due'[sent + 1] = m /\ \A n \in 1 .. sent : due'[n] = due[n]
          /\ \A n \in 1 .. sent : n \in 1 .. sent' /\ n # sent + 1
          /\ sent + 1 \in 1 .. sent'
      BY <3>1, <3>2 DEF Sent
    <3>4. Message(s)' = sent + 1 /\ old'[s] = m
      BY <3>1, <3>2 DEF Message, Recorded, Values, Threads
    <3>5. /\ \A i \in Index : holds'[i] # sent + 1
          /\ \A r \in Readers : sent + 1 \notin ToSet(got'[r])
      <4>1. sent + 1 \notin 1 .. sent /\ sent + 1 # 0
        BY <3>3
      <4>2. \A i \in Index : holds'[i] # sent + 1
        BY <4>1, <3>2 DEF Numbered
      <4>3. \A r \in Readers : sent + 1 \notin ToSet(got[r])
        BY <4>1 DEF Numbered
      <4> QED
        BY <2>1, <4>2, <4>3
    <3>6. ASSUME NEW u \in Senders, u # s, Pending(u)'
          PROVE  /\ Message(u)' = Message(u) /\ Message(u) \in 1 .. sent
                 /\ due'[Message(u)] = old'[u]
                 /\ \A i \in Index : holds'[i] # Message(u)
                 /\ \A r \in Readers : ~Handed(r, Message(u))
      <4>1. own[u] # own[s] /\ Pending(u)
        BY <2>1, <2>2, <3>6, Apart DEF SendWrite, Goto
      <4>2. own[u] \in Blocks
        BY <4>1 DEF Pending, Owned
      <4>3. Message(u)' = Message(u)
        BY <2>1, <3>2, <3>6, <4>1, <4>2 DEF Message, Recorded
      <4>4. Message(u) \in 1 .. sent /\ due[Message(u)] = old[u]
        BY <4>1 DEF Fresh
      <4> QED
        BY <2>1, <3>2, <3>3, <3>6, <4>1, <4>3, <4>4 DEF Fresh
    <3>7. ASSUME NEW u \in Senders, NEW v \in Senders, u # s, v # s, u # v, Pending(u)', Pending(v)'
          PROVE  Message(u) # Message(v)
      BY <2>1, <3>7 DEF Fresh
    <3>8. UNCHANGED got
      BY <2>1
    <3>9. \A u \in Senders : u # s /\ Pending(u)' => Message(u)' # sent + 1
      BY <3>3, <3>6
    <3> HIDE DEF Message, Handed
    <3>10. ASSUME NEW u \in Senders, u # s, Pending(u)', NEW r \in Readers
           PROVE  ~Handed(r, Message(u))'
      BY <3>6, <3>8, <3>10 DEF Handed
    <3>11. ASSUME NEW r \in Readers PROVE ~Handed(r, Message(s))'
      BY <3>4, <3>5 DEF Handed
    <3>12. ASSUME NEW u \in Senders, NEW v \in Senders, u # v, Pending(u)', Pending(v)'
           PROVE  Message(u)' # Message(v)'
      BY <3>4, <3>6, <3>7, <3>9, <3>12
    <3>13. ASSUME NEW u \in Senders, Pending(u)'
           PROVE  /\ Message(u)' \in 1 .. sent' /\ due'[Message(u)'] = old'[u]
                  /\ \A i \in Index : holds'[i] # Message(u)'
      BY <3>3, <3>4, <3>5, <3>6, <3>13
    <3> QED
      BY <3>10, <3>11, <3>12, <3>13 DEF Fresh
  <2>3. CASE AddMask(s)
    <3>1. /\ UNCHANGED <<own, carries, sent, due>> /\ at[s] \in Index
          /\ holds' = [holds EXCEPT ![at[s]] = Message(s)] /\ Pending(s) /\ ~Pending(s)'
      BY <2>3
      DEF AddMask, Goto, Set, Aimed, Filling, Message, locals, Pending, Places, Threads
    <3>2. \A u \in Senders : Message(u)' = Message(u)
      BY <3>1 DEF Message
    <3>3. \A i \in Index : holds'[i] = holds[i] \/ holds'[i] = Message(s)
      BY <3>1 DEF Recorded
    <3> HIDE DEF Message
    <3>4. ASSUME NEW u \in Senders, Pending(u)'
          PROVE  u # s /\ Pending(u) /\ Message(u)' = Message(u) /\ old'[u] = old[u]
      BY <2>1, <3>1, <3>2, <3>4
    <3>5. \A u \in Senders, r \in Readers : Handed(r, Message(u))' <=> Handed(r, Message(u))
      BY <2>1, <3>2 DEF Handed
    <3> QED
      BY <3>1, <3>2, <3>3, <3>4, <3>5 DEF Fresh
  <2>4. CASE ~SendWrite(s) /\ ~AddMask(s)
    <3>1. /\ UNCHANGED <<holds, carries, sent, due>>
          /\ Pending(s)' => Pending(s) /\ own'[s] = own[s] /\ old'[s] = old[s]
      BY <1>2, <2>4, SenderEffects, SenderPends DEF SenderChanges
    <3>2. \A u \in Senders : Pending(u)' => /\ Pending(u) /\ Message(u)' = Message(u)
                                            /\ old'[u] = old[u]
      BY <2>1, <3>1 DEF Message
    <3>3. ASSUME NEW u \in Senders, Pending(u)', NEW r \in Readers
          PROVE  Handed(r, Message(u))' <=> Handed(r, Message(u))
      BY <2>1, <3>2, <3>3 DEF Handed
    <3> QED
      BY <3>1, <3>2, <3>3 DEF Fresh
  <2> QED
    BY <2>2, <2>3, <2>4
<1>3. ASSUME NEW r \in Readers, Reading(r) PROVE Fresh'
  <2>1. /\ UNCHANGED <<carries, sent, due>>
        /\ \A u \in Senders : /\ Pending(u)' <=> Pending(u)
                              /\ Message(u)' = Message(u) /\ old'[u] = old[u]
    BY <1>3, ReaderEffects, ReaderLeaves DEF ReaderChanges, Pending, Message
  <2>2. \A i \in Index : holds'[i] = holds[i] \/ holds'[i] = 0
    <3>1. CASE FreeClear(r)
      BY <3>1 DEF FreeClear, Set, Recorded
    <3> QED
      BY <1>3, <3>1, ReaderEffects DEF ReaderChanges
  <2>3. ASSUME NEW u \in Senders, Pending(u), NEW q \in Readers
        PROVE  ~Handed(q, Message(u))'
    <3>1. CASE Callback(r)
      <4>1. got' = [got EXCEPT ![r] = Append(got[r], carries[own[r]])]
        BY <3>1 DEF Callback, Set
      <4>2. carries[own[r]] # Message(u) /\ ~Handed(q, Message(u))
        BY <2>3, <3>1, ReadsHeld DEF Callback, Goto, Fresh
      <4> QED
        BY <2>1, <4>1, <4>2, GotMore DEF Handed, Recorded
    <3>2. CASE UNCHANGED got
      BY <2>1, <2>3, <3>2 DEF Fresh, Handed
    <3> QED
      BY <1>3, <3>1, <3>2, ReaderEffects DEF ReaderChanges
  <2>4. \A n : n \in 1 .. sent => n # 0
    OBVIOUS
  <2> HIDE DEF Message, Handed
  <2> QED
    BY <2>1, <2>2, <2>3, <2>4 DEF Fresh
<1> QED
  BY <1>1, <1>2, <1>3 DEF Next

-----------------------------------------------------------------------------
(* What the readers have been handed. *)
LEMMA EmptiedStep ==
  ASSUME Steady, Places, Owned, Aimed, Values, Recorded, Locked, Cleared, Emptied,
         [Next]_vars
  PROVE  Emptied'
<1>1. CASE UNCHANGED vars \/ Tick
  BY <1>1 DEF vars, Tick, locals, history, Emptied
<1>2. ASSUME NEW s \in Senders, SendAlloc(s) \/ Sending(s) PROVE Emptied'
  <2>1. \A r \in Readers : pc'[r] = pc[r] /\ at'[r] = at[r]
    BY <1>2, SenderLeaves
  <2>2. CASE UNCHANGED holds
    BY <2>1, <2>2 DEF Emptied
  <2>3. CASE AddMask(s)
    <3>1. \A r \in Readers : pc[r] # "free_mask"
      BY <2>3, LockExcludes, Constants DEF AddMask, Goto, Holder, Adding, Freeing, Threads
    <3> QED
      BY <2>1, <3>1 DEF Emptied
  <2> QED
    BY <1>2, <2>2, <2>3, SenderEffects DEF SenderChanges
<1>3. ASSUME NEW r \in Readers, Reading(r) PROVE Emptied'
  <2>1. CASE FreeClear(r)
    <3>1. at[r] \in Index /\ UNCHANGED at /\ \A q \in Readers : q = r
      BY <2>1, NoBitLeft DEF FreeClear, Goto, locals, Aimed, Working, Given, Marked
    <3> QED
      BY <2>1, <3>1 DEF FreeClear, Set, Emptied, Recorded
  <2>2. CASE ~FreeClear(r)
    <3>1. pc'[r] # "free_mask" /\ UNCHANGED holds
      BY <1>3, <2>2, ReaderEffects DEF ReaderChanges, Reading, Goto, Places, Threads, Poll,
         ScanEntry, ScanEnd, GetMessage, Callback, MarkExists, MarkLoad, MarkStore, MarkSub,
         FreeExists, FreeRef, FreeLock, FreeCheck, FreeBlock, FreeMask, FreeUnlock
    <3>2. \A q \in Readers : q # r => pc'[q] = pc[q] /\ at'[q] = at[q]
      BY <1>3, ReaderLeaves
    <3> QED
      BY <3>1, <3>2 DEF Emptied
  <2> QED
    BY <2>1, <2>2
<1> QED
  BY <1>1, <1>2, <1>3 DEF Next

LEMMA VisibleSending ==
  ASSUME Steady, Places, Owned, Aimed, Values, Sent, Recorded, Filled, Kept, Numbered,
         Fresh, Visible,
         NEW s \in Senders, SendAlloc(s) \/ Sending(s)
  PROVE  Visible'
<1>1. /\ UNCHANGED got
      /\ \A r \in Readers : /\ at'[r] = at[r] /\ old'[r] = old[r] /\ pc'[r] = pc[r]
                            /\ Given(r)' <=> Given(r)
  BY SenderLeaves, SenderEffects DEF SenderChanges, Given, Marked
<1>2. \A r \in Readers : Given(r) => at[r] \in Index /\ holds[at[r]] # 0
  BY DEF Aimed, Kept, KeptBy, Working
<1>3. CASE SendWrite(s)
  <2>1. PICK m \in Masks : due' = Append(due, m)
    BY <1>3 DEF SendWrite
  <2>2. UNCHANGED <<mask, holds>> /\ \A n \in 1 .. sent : due'[n] = due[n]
    BY <1>3, <2>1 DEF SendWrite, entries, Sent
  <2>3. \A i \in Index : holds[i] # 0 => due'[holds[i]] = due[holds[i]]
    BY <2>2 DEF Numbered
  <2>4. UnreadStaysVisible'
    BY <1>1, <2>2, <2>3 DEF Visible, UnreadStaysVisible, Handed
  <2>5. ASSUME NEW r \in Readers PROVE GivenBy(r)'
    BY <1>1, <1>2, <2>2, <2>3 DEF Visible, GivenBy, Handed
  <2> QED
    BY <2>4, <2>5 DEF Visible
<1>4. CASE AddMask(s)
  <2>1. /\ UNCHANGED due /\ at[s] \in Index /\ holds[at[s]] = 0
        /\ mask' = [mask EXCEPT ![at[s]] = old[s]] /\ holds' = [holds EXCEPT ![at[s]] = Message(s)]
    BY <1>4 DEF AddMask, Goto, Set, Aimed, Filled, Filling, Message
  <2>2. due[Message(s)] = old[s]
    BY <1>4 DEF AddMask, Goto, Fresh, Pending
  <2>3. /\ mask'[at[s]] = old[s] /\ holds'[at[s]] = Message(s)
        /\ \A i \in Index : i # at[s] => mask'[i] = mask[i] /\ holds'[i] = holds[i]
    BY <2>1 DEF Values, Recorded
  <2> HIDE DEF Message
  <2>4. UnreadStaysVisible'
    BY <1>1, <2>1, <2>2, <2>3 DEF Visible, UnreadStaysVisible, Handed
  <2>5. ASSUME NEW r \in Readers PROVE GivenBy(r)'
    <3>1. Given(r) => holds'[at[r]] = holds[at[r]]
      BY <1>2, <2>1, <2>3
    <3> QED
      BY <1>1, <2>1, <3>1 DEF Visible, GivenBy, Handed
  <2> QED
    BY <2>4, <2>5 DEF Visible
<1>5. CASE ~SendWrite(s) /\ ~AddMask(s)
  <2>1. UNCHANGED <<mask, holds, due>>
    BY <1>5, SenderEffects DEF SenderChanges
  <2>2. UnreadStaysVisible'
    BY <1>1, <2>1 DEF Visible, UnreadStaysVisible, Handed
  <2>3. ASSUME NEW r \in Readers PROVE GivenBy(r)'
    BY <1>1, <2>1 DEF Visible, GivenBy, Handed
  <2> QED
    BY <2>2, <2>3 DEF Visible
<1> QED
  BY <1>3, <1>4, <1>5

LEMMA ReaderGives ==
  ASSUME Places, Owned, Aimed, NEW r \in Readers, Reading(r)
  PROVE  \/ Callback(r) \/ MarkLoad(r)
         \/ Given(r)' => Given(r) /\ at'[r] = at[r] /\ pc'[r] # "mark_store"
<1> USE DEF Goto, Set, shared, entries, locals, history
<1>1. CASE Poll(r)
  BY <1>1 DEF Poll, Given, Marked, Threads, Places, Owned, Aimed
<1>2. CASE ScanEntry(r)
  BY <1>2 DEF ScanEntry, Seen, Given, Marked, Threads, Places, Owned, Aimed
<1>3. CASE ScanEnd(r)
  BY <1>3 DEF ScanEnd, Rescan, Forget, Given, Marked, Threads, Places, Owned, Aimed
<1>4. CASE GetMessage(r)
  BY <1>4 DEF GetMessage, Rescan, Forget, Given, Marked, Threads, Places, Owned, Aimed
<1>5. CASE Callback(r)
  BY <1>5
<1>6. CASE MarkExists(r)
  BY <1>6 DEF MarkExists, Given, Marked, Threads, Places, Owned, Aimed
<1>7. CASE MarkLoad(r)
  BY <1>7
<1>8. CASE MarkStore(r)
  BY <1>8 DEF MarkStore, Given, Marked, Threads, Places, Owned, Aimed
<1>9. CASE MarkSub(r)
  BY <1>9 DEF MarkSub, Given, Marked, Threads, Places, Owned, Aimed
<1>10. CASE FreeExists(r)
  BY <1>10 DEF FreeExists, Rescan, Forget, Given, Marked, Threads, Places, Owned, Aimed
<1>11. CASE FreeRef(r)
  BY <1>11 DEF FreeRef, Rescan, Forget, Given, Marked, Threads, Places, Owned, Aimed
<1>12. CASE FreeLock(r)
  BY <1>12 DEF FreeLock, Given, Marked, Threads, Places, Owned, Aimed
<1>13. CASE FreeCheck(r)
  BY <1>13 DEF FreeCheck, Given, Marked, Threads, Places, Owned, Aimed
<1>14. CASE FreeBlock(r)
  BY <1>14 DEF FreeBlock, Given, Marked, Threads, Places, Owned, Aimed
<1>15. CASE FreeClear(r)
  BY <1>15 DEF FreeClear, Given, Marked, Threads, Places, Owned, Aimed
<1>16. CASE FreeMask(r)
  BY <1>16 DEF FreeMask, Given, Marked, Threads, Places, Owned, Aimed
<1>17. CASE FreeUnlock(r)
  BY <1>17 DEF FreeUnlock, Rescan, Forget, Given, Marked, Threads, Places, Owned, Aimed
<1> QED
  BY <1>1, <1>2, <1>3, <1>4, <1>5, <1>6, <1>7, <1>8, <1>9, <1>10, <1>11, <1>12, <1>13,
     <1>14, <1>15, <1>16, <1>17 DEF Reading

LEMMA GotGrows ==
  ASSUME Recorded, NEW r \in Readers, Reading(r)
  PROVE  \A q \in Readers : \A m : m \in ToSet(got[q]) => m \in ToSet(got'[q])
<1>1. CASE Callback(r)
  <2>1. got' = [got EXCEPT ![r] = Append(got[r], carries[own[r]])]
    BY <1>1 DEF Callback, Set
  <2>2. \A q \in Readers : got[q] \in Seq(0 .. MaxMessages)
    BY DEF Recorded
  <2>3. \A q \in Readers : q # r => got'[q] = got[q]
    BY <2>1 DEF Recorded
  <2>4. got'[r] = Append(got[r], carries[own[r]])
    BY <2>1 DEF Recorded
  <2>5. ASSUME NEW m, m \in ToSet(got[r]) PROVE m \in ToSet(got'[r])
    BY <2>2, <2>4, <2>5, GotMore
  <2> QED
    BY <2>3, <2>5
<1> QED
  BY <1>1, ReaderEffects DEF ReaderChanges

LEMMA VisibleReading ==
  ASSUME Steady, Places, Owned, Aimed, Values, Sent, Recorded, Kept, Cleared, Emptied,
         Numbered, Visible,
         NEW r \in Readers, Reading(r)
  PROVE  Visible'
<1>1. /\ UNCHANGED due
      /\ \A q \in Readers : q # r =>
           /\ at'[q] = at[q] /\ old'[q] = old[q] /\ pc'[q] = pc[q]
           /\ Given(q)' <=> Given(q)
  BY ReaderLeaves, ReaderEffects DEF ReaderChanges, Given, Marked
<1>2. \A q \in Readers : \A m : m \in ToSet(got[q]) => m \in ToSet(got'[q])
  BY GotGrows
<1>3. \A i \in Index : holds[i] # 0 => due[holds[i]] \subseteq Readers
  BY Constants DEF Numbered, Sent
<1>4. \A i \in Index : holds[i] # 0 =>
         \A q \in due[holds[i]] : q \in mask[i] \/ holds[i] \in ToSet(got[q])
  BY DEF Visible, UnreadStaysVisible, Handed
<1>5. \A q \in Readers : Given(q) =>
         /\ at[q] \in Index /\ holds[at[q]] # 0 /\ holds[at[q]] \in ToSet(got[q])
         /\ pc[q] = "mark_store" =>
              \A p \in due[holds[at[q]]] : p \in old[q] \/ holds[at[q]] \in ToSet(got[p])
  BY DEF Aimed, Kept, KeptBy, Working, Visible, GivenBy, Handed
<1>6. CASE FreeClear(r)
  <2>1. /\ at[r] \in Index /\ UNCHANGED <<mask, got>> /\ holds' = [holds EXCEPT ![at[r]] = 0]
        /\ ~Given(r)' /\ \A q \in Readers : q = r
    BY <1>6, NoBitLeft
    DEF FreeClear, Goto, Set, Aimed, Working, Given, Marked, Places, Threads
  <2>2. holds'[at[r]] = 0 /\ \A i \in Index : i # at[r] => holds'[i] = holds[i]
    BY <2>1 DEF Recorded
  <2>3. UnreadStaysVisible'
    BY <1>1, <1>4, <2>1, <2>2 DEF UnreadStaysVisible, Handed
  <2> QED
    BY <2>1, <2>3 DEF Visible, GivenBy
<1>7. CASE ~FreeClear(r)
  <2>1. UNCHANGED holds
    BY <1>7, ReaderEffects DEF ReaderChanges
  <2>2. \A i \in Index : holds[i] # 0 =>
           \A q \in due[holds[i]] : q \in mask'[i] \/ holds[i] \in ToSet(got'[q])
    <3>1. CASE MarkStore(r)
      <4>1. /\ Given(r) /\ pc[r] = "mark_store" /\ at[r] \in Index
            /\ mask' = [mask EXCEPT ![at[r]] = old[r] \ {r}]
        BY <3>1 DEF MarkStore, Goto, Set, Given, Working, Aimed
      <4>2. \A q \in due[holds[at[r]]] : q \in old[r] \ {r} \/ holds[at[r]] \in ToSet(got[q])
        BY <1>5, <4>1
      <4>3. mask'[at[r]] = old[r] \ {r} /\ \A i \in Index : i # at[r] => mask'[i] = mask[i]
        BY <4>1 DEF Values
      <4>4. UNCHANGED got
        BY <3>1 DEF MarkStore, history
      <4> QED
        BY <1>4, <4>2, <4>3, <4>4
    <3>2. CASE FreeMask(r)
      <4>1. /\ at[r] \in Index /\ holds[at[r]] = 0 /\ UNCHANGED got
            /\ mask' = [mask EXCEPT ![at[r]] = {}]
        BY <3>2 DEF FreeMask, Goto, Set, Emptied, history
      <4>2. \A i \in Index : i # at[r] => mask'[i] = mask[i]
        BY <4>1 DEF Values
      <4> QED
        BY <1>4, <4>1, <4>2
    <3>3. CASE UNCHANGED mask
      BY <1>2, <1>3, <1>4, <3>3
    <3> QED
      BY <3>1, <3>2, <3>3, ReaderEffects DEF ReaderChanges
  <2>3. UnreadStaysVisible'
    BY <1>1, <2>1, <2>2 DEF UnreadStaysVisible, Handed
  <2>4. ASSUME NEW q \in Readers, q # r PROVE GivenBy(q)'
    <3>1. ASSUME Given(q), pc[q] = "mark_store", NEW p \in due[holds[at[q]]]
          PROVE  p \in old[q] \/ holds[at[q]] \in ToSet(got'[p])
      BY <1>2, <1>3, <1>5, <3>1
    <3>2. Given(q) => holds[at[q]] \in ToSet(got'[q])
      BY <1>2, <1>5
    <3> QED
      BY <1>1, <2>1, <2>4, <3>1, <3>2 DEF GivenBy, Handed
  <2>5. GivenBy(r)'
    <3>1. CASE Callback(r)
      <4>1. got' = [got EXCEPT ![r] = Append(got[r], carries[own[r]])] /\ UNCHANGED at
        BY <3>1 DEF Callback, Set, locals
      <4>2. holds[at[r]] = carries[own[r]] /\ pc'[r] # "mark_store"
        BY <3>1, ReadsHeld DEF Callback, Goto, Places, Threads
      <4>3. got'[r] = Append(got[r], carries[own[r]]) /\ got[r] \in Seq(0 .. MaxMessages)
        BY <4>1 DEF Recorded
      <4>4. holds[at[r]] \in ToSet(got'[r])
        BY <4>2, <4>3, GotMore
      <4> QED
        BY <2>1, <4>1, <4>2, <4>4 DEF GivenBy, Handed
    <3>2. CASE MarkLoad(r)
      <4>1. /\ Given(r) /\ UNCHANGED <<at, got>> /\ old'[r] = mask[at[r]]
        BY <3>2 DEF MarkLoad, Goto, Set, Given, history, Values, Threads
      <4> QED
        BY <1>1, <1>4, <1>5, <2>1, <4>1 DEF GivenBy, Handed
    <3>3. CASE ~Callback(r) /\ ~MarkLoad(r)
      <4>1. Given(r)' => Given(r) /\ at'[r] = at[r] /\ pc'[r] # "mark_store"
        BY <3>3, ReaderGives
      <4> QED
        BY <1>2, <1>5, <2>1, <4>1 DEF GivenBy, Handed
    <3> QED
      BY <3>1, <3>2, <3>3
  <2> QED
    BY <2>3, <2>4, <2>5 DEF Visible
<1> QED
  BY <1>6, <1>7

LEMMA VisibleStep ==
  ASSUME Steady, Places, Owned, Aimed, Values, Sent, Recorded, Filled, Kept, Cleared,
         Emptied,
         Numbered, Fresh, Visible, [Next]_vars
  PROVE  Visible'
<1>1. CASE UNCHANGED vars \/ Tick
  BY <1>1 DEF vars, Tick, shared, entries, locals, history, Visible, UnreadStaysVisible,
     GivenBy, Given, Marked, Handed
<1> QED
  BY <1>1, VisibleSending, VisibleReading DEF Next

-----------------------------------------------------------------------------
(* The initial state. *)
LEMMA FirstPool ==
  SetToSeq(Blocks) \in Seq(Blocks) /\ IsInjective(SetToSeq(Blocks))
<1> DEFINE n == Cardinality(Blocks)
<1>1. n \in Nat /\ ExistsBijection(1 .. n, Blocks)
  BY FS_CardinalityType, TrackerAssumption
<1>2. PICK f \in [1 .. n -> Blocks] : IsInjective(f)
  BY <1>1 DEF ExistsBijection, Bijection, Injection, IsInjective
<1>3. /\ SetToSeq(Blocks) \in [1 .. n -> Blocks]
      /\ IsInjective(SetToSeq(Blocks))
  BY <1>2 DEF SetToSeq
<1> QED
  BY <1>1, <1>3

LEMMA InitTypes == ASSUME Init PROVE Types
<1> USE DEF Init, Threads
<1>1. Places
  BY DEF Places, SenderPCs, ReaderPCs
<1>2. Owned
  BY Constants DEF Owned, Working, Given, Marked
<1>3. Aimed
  BY Constants, NoneType DEF Aimed, Working, Given, Marked, Filling
<1>4. /\ 0 \in Index /\ 0 \in 0 .. Word - 1 /\ 0 \in 0 .. MaxTime /\ 0 \in 0 .. MaxMessages
  BY Constants DEF Index
<1>5. Values
  BY <1>4, FirstPool DEF Values
<1>6. Writing = {} /\ Cardinality({}) = 0
  BY FS_EmptySet DEF Writing
<1>7. sent + Cardinality(Writing) = 0 /\ 0 <= MaxMessages
  BY <1>6, Constants
<1>8. Sent
  BY <1>7 DEF Sent
<1>9. Recorded
  BY <1>4 DEF Recorded
<1> QED
  BY <1>1, <1>2, <1>3, <1>5, <1>8, <1>9 DEF Types

LEMMA InitIInv == ASSUME Init PROVE IInv
<1> USE DEF Init, Threads
<1>1. Locked
  BY DEF Locked, Holder, Adding, Freeing
<1>2. Complete /\ Emptied
  BY DEF Complete, Emptied
<1>3. Filled
  BY DEF Filled, Filling
<1>4. \A r \in Readers : ~Working(r) /\ ~Given(r) /\ pc[r] = "idle"
  BY DEF Working, Given, Marked
<1>5. Kept /\ Cleared
  BY <1>4 DEF Kept, KeptBy, Cleared, SeesBit
<1>6. Used = {} /\ Cardinality({}) = 0
  BY FS_EmptySet DEF Used
<1>7. Counted
  BY <1>6 DEF Counted, Uncounted
<1>8. NULL \notin ToSet(pool)
  BY FirstPool, PoolElements, Constants
<1>9. Shared
  BY <1>8, FirstPool DEF Shared, Owns
<1>10. \A r \in Readers : ToSet(got[r]) = {}
  BY DEF ToSet
<1>11. Numbered /\ Fresh
  BY <1>10 DEF Numbered, Fresh, Pending
<1>12. Visible
  BY <1>4 DEF Visible, UnreadStaysVisible, GivenBy
<1> QED
  BY <1>1, <1>2, <1>3, <1>5, <1>7, <1>9, <1>11, <1>12, InitTypes DEF IInv, Frame

LEMMA IInvStep == ASSUME Steady, IInv, [Next]_vars PROVE IInv'
<1> USE DEF IInv, Frame
<1>1. Types' /\ Locked' /\ Kept' /\ Cleared' /\ Emptied'
  BY TypesStep, LockedStep, KeptStep, ClearedStep, EmptiedStep DEF Types
<1>2. Complete' /\ Filled' /\ Counted' /\ Shared'
  BY CompleteStep, FilledStep, CountedStep, SharedStep DEF Types
<1>3. Numbered' /\ Fresh' /\ Visible'
  BY NumberedStep, FreshStep, VisibleStep DEF Types
<1> QED
  BY <1>1, <1>2, <1>3

-----------------------------------------------------------------------------
(* The theorems. *)

\* Every variable of the tracker and its users has a value of its type, the
\* indices and the width of the count included.
THEOREM TypeCorrect == Spec => []TypeOK
<1>1. Init => Types
  BY InitTypes
<1>2. Types /\ [Next]_vars => Types'
  BY TypesStep
<1>3. Types => TypeOK
  BY TypesTypeOK
<1> QED
  BY <1>1, <1>2, <1>3, PTL DEF Spec

\* The inductive invariant: where nothing is freed or one participant reads.
THEOREM Invariant == ASSUME Steady PROVE Spec => []IInv
<1>1. Init => IInv
  BY InitIInv
<1>2. IInv /\ [Next]_vars => IInv'
  BY IInvStep
<1> QED
  BY <1>1, <1>2, PTL DEF Spec

\* Outside the lock, count is the number of the tracked messages: adding and
\* freeing keep tracker->count in step with the block pointers.
THEOREM Counts == ASSUME Steady PROVE Spec => []CountExact
<1>1. IInv => CountExact
  <2>1. ASSUME IInv, lock = 0 PROVE count = Cardinality(Used)
    <3>1. \A t \in Threads : ~Uncounted(t) /\ pc[t] # "free_mask"
      BY <2>1 DEF IInv, Frame, Locked, Holder, Adding, Freeing, Uncounted
    <3> QED
      BY <2>1, <3>1 DEF IInv, Counted
  <2> QED
    BY <2>1 DEF CountExact, Used
<1> QED
  BY <1>1, Invariant, PTL

\* A block is in the pool at most once, in no two entries, and not in the pool
\* while an entry tracks it: send_message is not given a block that carries a
\* message.
THEOREM Unshared == ASSUME Steady PROVE Spec => []BlocksUnshared
<1>1. IInv => BlocksUnshared
  <2>1. ASSUME IInv, lock = 0, NEW i \in Index PROVE ~Leaving(i)
    BY <2>1 DEF IInv, Frame, Locked, Holder, Freeing, Leaving, Threads
  <2> QED
    BY <2>1 DEF IInv, Shared, BlocksUnshared
<1> QED
  BY <1>1, Invariant, PTL

\* The marks of the others, stored from a stale copy of the mask, clear no bit
\* of a participant whose callback was not called with the message's block.
THEOREM BitsKept == ASSUME Steady PROVE Spec => []UnreadStaysVisible
<1>1. IInv => UnreadStaysVisible
  BY DEF IInv, Visible
<1> QED
  BY <1>1, Invariant, PTL

-----------------------------------------------------------------------------
(* The texts. *)
TextsApart == \A b, c \in Blocks : b # c => TextAt[b] \cap TextAt[c] = {}
TextsKept  == \A b \in Blocks : \A w \in TextAt[b] : text[w] = carries[b]

LEMMA TextsKeptStep ==
  ASSUME TextsApart, Types, TextsKept, [Next]_vars PROVE TextsKept'
<1>1. CASE UNCHANGED <<carries, text>>
  BY <1>1 DEF TextsKept
<1>2. ASSUME NEW s \in Senders, SendWrite(s) PROVE TextsKept'
  <2>1. own[s] \in Blocks /\ carries \in [Blocks -> 0 .. MaxMessages]
    BY <1>2 DEF SendWrite, Goto, Types, Owned, Recorded
  <2>2. /\ carries' = [carries EXCEPT ![own[s]] = sent + 1]
        /\ text' = [w \in Words |-> IF w \in TextAt[own[s]] THEN sent + 1 ELSE text[w]]
    BY <1>2 DEF SendWrite, Set
  <2> SUFFICES ASSUME NEW b \in Blocks, NEW w \in TextAt[b] PROVE text'[w] = carries'[b]
    BY DEF TextsKept
  <2>3. w \in Words
    BY DEF Words
  <2>4. CASE b = own[s]
    BY <2>1, <2>2, <2>3, <2>4
  <2>5. CASE b # own[s]
    <3>1. w \notin TextAt[own[s]]
      BY <2>1, <2>5 DEF TextsApart
    <3> QED
      BY <2>1, <2>2, <2>3, <2>5, <3>1 DEF TextsKept
  <2> QED
    BY <2>4, <2>5
<1>3. ASSUME NEW s \in Senders, SendAlloc(s) PROVE TextsKept'
  BY <1>3 DEF SendAlloc, TextsKept
<1> QED
  BY <1>1, <1>2, <1>3, SendingEffect DEF SendingStep, Types

\* Where the texts of two blocks take no word of each other's, which is so of
\* blocks of MESSAGE_BLOCK_SIZE and not of the addresses of ring slots, a
\* callback of process_new_messages is given the text of the message that was
\* found, however many senders write in the meantime.
THEOREM WholeTexts == ASSUME Steady, TextsApart PROVE Spec => []TextIntact
<1>1. Init => TextsKept
  BY DEF Init, TextsKept, Words
<1>2. IInv /\ TextsKept /\ [Next]_vars => TextsKept'
  BY TextsKeptStep DEF IInv, Frame
<1>3. IInv /\ TextsKept => TextIntact
  <2>1. ASSUME IInv, TextsKept, NEW r \in Readers, pc[r] = "callback",
               NEW w \in TextAt[own[r]]
        PROVE  text[w] = holds[at[r]]
    <3>1. own[r] \in Blocks
      BY <2>1 DEF IInv, Frame, Types, Owned, Working
    <3>2. carries[own[r]] = holds[at[r]]
      BY <2>1, ReadsHeld DEF IInv, Frame, Types
    <3> QED
      BY <2>1, <3>1, <3>2 DEF TextsKept
  <2> QED
    BY <2>1 DEF TextIntact
<1> QED
  BY <1>1, <1>2, <1>3, Invariant, PTL DEF Spec

-----------------------------------------------------------------------------
(* One reader. *)
LEMMA ReaderMarks ==
  ASSUME Places, Owned, Aimed, NEW r \in Readers, Reading(r)
  PROVE  \/ Callback(r) \/ MarkExists(r) \/ MarkLoad(r) \/ MarkStore(r)
         \/ ~Marking(r) /\ ~Marking(r)'
<1> USE DEF Goto, Set, shared, entries, locals, history
<1>1. CASE Poll(r)
  BY <1>1 DEF Poll, Marking, Threads, Places, Owned, Aimed
<1>2. CASE ScanEntry(r)
  BY <1>2 DEF ScanEntry, Seen, Marking, Threads, Places, Owned, Aimed
<1>3. CASE ScanEnd(r)
  BY <1>3 DEF ScanEnd, Rescan, Forget, Marking, Threads, Places, Owned, Aimed
<1>4. CASE GetMessage(r)
  BY <1>4 DEF GetMessage, Rescan, Forget, Marking, Threads, Places, Owned, Aimed
<1>5. CASE Callback(r)
  BY <1>5
<1>6. CASE MarkExists(r)
  BY <1>6
<1>7. CASE MarkLoad(r)
  BY <1>7
<1>8. CASE MarkStore(r)
  BY <1>8
<1>9. CASE MarkSub(r)
  BY <1>9 DEF MarkSub, Marking, Threads, Places, Owned, Aimed
<1>10. CASE FreeExists(r)
  BY <1>10 DEF FreeExists, Rescan, Forget, Marking, Threads, Places, Owned, Aimed
<1>11. CASE FreeRef(r)
  BY <1>11 DEF FreeRef, Rescan, Forget, Marking, Threads, Places, Owned, Aimed
<1>12. CASE FreeLock(r)
  BY <1>12 DEF FreeLock, Marking, Threads, Places, Owned, Aimed
<1>13. CASE FreeCheck(r)
  BY <1>13 DEF FreeCheck, Marking, Threads, Places, Owned, Aimed
<1>14. CASE FreeBlock(r)
  BY <1>14 DEF FreeBlock, Marking, Threads, Places, Owned, Aimed
<1>15. CASE FreeClear(r)
  BY <1>15 DEF FreeClear, Marking, Threads, Places, Owned, Aimed
<1>16. CASE FreeMask(r)
  BY <1>16 DEF FreeMask, Marking, Threads, Places, Owned, Aimed
<1>17. CASE FreeUnlock(r)
  BY <1>17 DEF FreeUnlock, Rescan, Forget, Marking, Threads, Places, Owned, Aimed
<1> QED
  BY <1>1, <1>2, <1>3, <1>4, <1>5, <1>6, <1>7, <1>8, <1>9, <1>10, <1>11, <1>12, <1>13,
     <1>14, <1>15, <1>16, <1>17 DEF Reading

LEMMA GotOnce ==
  ASSUME NEW q \in Seq(0 .. MaxMessages), IsInjective(q), NEW m, m \notin ToSet(q)
  PROVE  IsInjective(Append(q, m))
<1>1. /\ Len(q) \in Nat /\ DOMAIN q = 1 .. Len(q)
      /\ DOMAIN Append(q, m) = 1 .. Len(q) + 1 /\ Append(q, m)[Len(q) + 1] = m
      /\ \A k \in 1 .. Len(q) : Append(q, m)[k] = q[k]
  OBVIOUS
<1>2. \A j, k \in 1 .. Len(q) : q[j] = q[k] => j = k
  BY <1>1 DEF IsInjective
<1>3. \A k \in 1 .. Len(q) : q[k] # m
  BY <1>1 DEF ToSet
<1>4. \A k \in 1 .. Len(q) + 1 : k \in 1 .. Len(q) \/ k = Len(q) + 1
  BY <1>1
<1> QED
  BY <1>1, <1>2, <1>3, <1>4 DEF IsInjective

LEMMA UnseenStep ==
  ASSUME Alone, IInv, Unseen, [Next]_vars
  PROVE  Unseen'
<1> USE DEF IInv, Frame, Types
<1>1. Steady
  BY DEF Steady
<1>2. CASE UNCHANGED vars \/ Tick
  BY <1>2
  DEF vars, Tick, shared, entries, locals, history, Unseen, UnseenBy, Marking, Handed
<1>3. ASSUME NEW s \in Senders, SendAlloc(s) \/ Sending(s), NEW r \in Readers PROVE UnseenBy(r)'
  <2>1. UNCHANGED got /\ at'[r] = at[r] /\ (Marking(r)' <=> Marking(r))
    BY <1>3, SenderLeaves, SenderEffects DEF SenderChanges, Marking
  <2>2. CASE UNCHANGED <<mask, holds>>
    BY <2>1, <2>2 DEF Unseen, UnseenBy, Handed
  <2>3. CASE AddMask(s)
    <3>1. /\ at[s] \in Index /\ mask' = [mask EXCEPT ![at[s]] = old[s]]
          /\ holds' = [holds EXCEPT ![at[s]] = Message(s)]
      BY <2>3 DEF AddMask, Goto, Set, Aimed, Filling, Message
    <3>2. ~Handed(r, Message(s))
      BY <2>3 DEF AddMask, Goto, Fresh, Pending
    <3>3. /\ holds'[at[s]] = Message(s)
          /\ \A i \in Index : i # at[s] => mask'[i] = mask[i] /\ holds'[i] = holds[i]
      BY <3>1 DEF Values, Recorded
    <3> HIDE DEF Message
    <3> QED
      BY <2>1, <3>2, <3>3 DEF Unseen, UnseenBy, Handed
  <2> QED
    BY <1>3, <2>2, <2>3, SenderEffects DEF SenderChanges
<1>4. ASSUME NEW r \in Readers, Reading(r) PROVE UnseenBy(r)'
  <2>1. /\ IsInjective(got[r]) /\ got[r] \in Seq(0 .. MaxMessages)
        /\ \A i \in Index : holds[i] # 0 /\ r \in mask[i] /\ ~(at[r] = i /\ Marking(r)) =>
             holds[i] \notin ToSet(got[r])
    BY DEF Unseen, UnseenBy, Handed, Recorded
  <2>2. CASE Callback(r)
    <3>1. /\ got' = [got EXCEPT ![r] = Append(got[r], carries[own[r]])]
          /\ UNCHANGED <<mask, holds, at>> /\ Marking(r)' /\ ~Marking(r)
      BY <2>2 DEF Callback, Goto, Set, shared, entries, locals, Marking, Places, Threads
    <3>2. at[r] \in Index /\ holds[at[r]] # 0 /\ carries[own[r]] = holds[at[r]]
      BY <1>1, <2>2, ReadsHeld DEF Callback, Goto
    <3>3. r \in mask[at[r]]
      BY <2>2 DEF Callback, Goto, Cleared, SeesBit, Working, Given, Marked
    <3>4. holds[at[r]] \notin ToSet(got[r])
      BY <2>1, <3>1, <3>2, <3>3
    <3>5. got'[r] = Append(got[r], holds[at[r]])
      BY <3>1, <3>2 DEF Recorded
    <3>6. IsInjective(got'[r])
      BY <2>1, <3>4, <3>5, GotOnce
    <3>7. \A n : n \in ToSet(got'[r]) => n \in ToSet(got[r]) \/ n = holds[at[r]]
      BY <2>1, <3>5, GotMore
    <3>8. \A i \in Index : holds[i] # 0 /\ i # at[r] => holds[i] # holds[at[r]]
      BY <3>2 DEF Numbered
    <3> QED
      BY <2>1, <3>1, <3>6, <3>7, <3>8 DEF UnseenBy, Handed
  <2>3. CASE MarkExists(r)
    <3>1. block[at[r]] # NULL
      BY <2>3 DEF MarkExists, Goto, Aimed, Kept, KeptBy, Complete, Working, Given
    <3>2. UNCHANGED <<mask, holds, at, got>> /\ Marking(r) /\ Marking(r)'
      BY <2>3, <3>1
      DEF MarkExists, Goto, shared, entries, locals, history, Marking, Places, Threads
    <3> QED
      BY <2>1, <3>2 DEF UnseenBy, Handed
  <2>4. CASE MarkLoad(r)
    <3>1. /\ UNCHANGED <<mask, holds, at, got>>
          /\ Marking(r)' \/ r \notin mask[at[r]]
      BY <2>4 DEF MarkLoad, Goto, shared, entries, history, Marking, Places, Threads
    <3> QED
      BY <2>1, <3>1 DEF UnseenBy, Handed
  <2>5. CASE MarkStore(r)
    <3>1. /\ UNCHANGED <<holds, at, got>> /\ at[r] \in Index
          /\ mask' = [mask EXCEPT ![at[r]] = old[r] \ {r}]
      BY <2>5 DEF MarkStore, Goto, Set, locals, history, Aimed, Working, Given
    <3>2. r \notin mask'[at[r]] /\ \A i \in Index : i # at[r] => mask'[i] = mask[i]
      BY <3>1 DEF Values
    <3> QED
      BY <2>1, <3>1, <3>2 DEF UnseenBy, Handed
  <2>6. CASE ~Callback(r) /\ ~MarkExists(r) /\ ~MarkLoad(r) /\ ~MarkStore(r)
    <3>1. UNCHANGED got /\ ~Marking(r) /\ ~Marking(r)'
      BY <1>4, <2>6, ReaderMarks, ReaderEffects DEF ReaderChanges
    <3>2. \A i \in Index : holds'[i] # 0 /\ r \in mask'[i] => holds'[i] = holds[i] /\ r \in mask[i]
      <4>1. CASE FreeClear(r)
        BY <4>1 DEF FreeClear, Set, Recorded
      <4>2. CASE FreeMask(r)
        BY <4>2 DEF FreeMask, Set, Values, history
      <4>3. CASE ~FreeClear(r) /\ ~FreeMask(r)
        BY <1>4, <2>6, <4>3, ReaderEffects DEF ReaderChanges
      <4> QED
        BY <4>1, <4>2, <4>3
    <3> QED
      BY <2>1, <3>1, <3>2 DEF UnseenBy, Handed
  <2> QED
    BY <2>2, <2>3, <2>4, <2>5, <2>6
<1>5. ASSUME NEW r \in Readers, Reading(r) PROVE Unseen'
  BY <1>4, <1>5 DEF Unseen, Alone
<1> QED
  BY <1>2, <1>3, <1>5 DEF Unseen, Next

\* With one participant, process_new_messages hands it the block of no message
\* twice, nor that of another message in its place.
THEOREM Once == ASSUME Alone PROVE Spec => []ReadOnce
<1>1. Steady
  BY DEF Steady
<1>2. Init => Unseen
  BY DEF Init, Unseen, UnseenBy, IsInjective
<1>3. IInv /\ Unseen /\ [Next]_vars => Unseen'
  BY UnseenStep
<1>4. Unseen => ReadOnce
  BY DEF Unseen, UnseenBy, ReadOnce
<1>5. Spec => []IInv
  BY <1>1, Invariant
<1> QED
  BY <1>2, <1>3, <1>4, <1>5, PTL DEF Spec

-----------------------------------------------------------------------------
(* Two readers. *)
\* Who stores a mask, takes from the count or frees was there before.
StaysThere(r) == /\ pc'[r] \in {"mark_store", "mark_sub", "free_block"} =>
                      pc'[r] = pc[r] /\ at'[r] = at[r]
LEMMA ReaderStays ==
  ASSUME Places, Owned, Aimed, NEW r \in Readers, Reading(r)
  PROVE  \/ MarkLoad(r) \/ MarkStore(r) \/ FreeCheck(r)
         \/ StaysThere(r)
<1> USE DEF Goto, Set, shared, entries, locals, history
<1>1. CASE Poll(r)
  BY <1>1 DEF Poll, Threads, Places, Owned, Aimed, StaysThere
<1>2. CASE ScanEntry(r)
  BY <1>2 DEF ScanEntry, Seen, Threads, Places, Owned, Aimed, StaysThere
<1>3. CASE ScanEnd(r)
  BY <1>3 DEF ScanEnd, Rescan, Forget, Threads, Places, Owned, Aimed, StaysThere
<1>4. CASE GetMessage(r)
  BY <1>4 DEF GetMessage, Rescan, Forget, Threads, Places, Owned, Aimed, StaysThere
<1>5. CASE Callback(r)
  BY <1>5 DEF Callback, Threads, Places, Owned, Aimed, StaysThere
<1>6. CASE MarkExists(r)
  BY <1>6 DEF MarkExists, Threads, Places, Owned, Aimed, StaysThere
<1>7. CASE MarkLoad(r)
  BY <1>7
<1>8. CASE MarkStore(r)
  BY <1>8
<1>9. CASE MarkSub(r)
  BY <1>9 DEF MarkSub, Threads, Places, Owned, Aimed, StaysThere
<1>10. CASE FreeExists(r)
  BY <1>10 DEF FreeExists, Rescan, Forget, Threads, Places, Owned, Aimed, StaysThere
<1>11. CASE FreeRef(r)
  BY <1>11 DEF FreeRef, Rescan, Forget, Threads, Places, Owned, Aimed, StaysThere
<1>12. CASE FreeLock(r)
  BY <1>12 DEF FreeLock, Threads, Places, Owned, Aimed, StaysThere
<1>13. CASE FreeCheck(r)
  BY <1>13
<1>14. CASE FreeBlock(r)
  BY <1>14 DEF FreeBlock, Threads, Places, Owned, Aimed, StaysThere
<1>15. CASE FreeClear(r)
  BY <1>15 DEF FreeClear, Threads, Places, Owned, Aimed, StaysThere
<1>16. CASE FreeMask(r)
  BY <1>16 DEF FreeMask, Threads, Places, Owned, Aimed, StaysThere
<1>17. CASE FreeUnlock(r)
  BY <1>17 DEF FreeUnlock, Rescan, Forget, Threads, Places, Owned, Aimed, StaysThere
<1> QED
  BY <1>1, <1>2, <1>3, <1>4, <1>5, <1>6, <1>7, <1>8, <1>9, <1>10, <1>11, <1>12, <1>13,
     <1>14, <1>15, <1>16, <1>17 DEF Reading

\* A message is owed only from when it becomes visible.
LEMMA OwedSending ==
  ASSUME IInv, NEW s \in Senders, SendAlloc(s) \/ Sending(s), NEW i \in Index,
         ~(AddMask(s) /\ at[s] = i), NEW q, Owed(q, i)'
  PROVE  Owed(q, i) /\ mask'[i] = mask[i]
<1> USE DEF IInv, Frame, Types
<1>1. UNCHANGED got /\ (\A n \in 1 .. sent : due'[n] = due[n])
  <2>1. CASE SendWrite(s)
    <3>1. PICK m \in Masks : due' = Append(due, m)
      BY <2>1 DEF SendWrite
    <3>2. UNCHANGED got
      BY <2>1 DEF SendWrite
    <3> QED
      BY <3>1, <3>2 DEF Sent
  <2> QED
    BY <2>1, SenderEffects DEF SenderChanges
<1>2. holds'[i] = holds[i] /\ mask'[i] = mask[i]
  <2>1. CASE AddMask(s)
    BY <2>1 DEF AddMask, Set, Values, Recorded
  <2> QED
    BY <2>1, SenderEffects DEF SenderChanges
<1>3. holds[i] # 0 => holds[i] \in 1 .. sent
  BY DEF Numbered
<1> QED
  BY <1>1, <1>2, <1>3 DEF Owed, Handed

LEMMA OwedReading ==
  ASSUME IInv, NEW r \in Readers, Reading(r), NEW i \in Index, NEW q \in Readers, Owed(q,
         i)'
  PROVE  Owed(q, i)
<1> USE DEF IInv, Frame, Types
<1>1. \A m : m \in ToSet(got[q]) => m \in ToSet(got'[q])
  BY GotGrows
<1>2. UNCHANGED due
  BY ReaderEffects DEF ReaderChanges
<1>3. holds'[i] # 0 => holds'[i] = holds[i]
  <2>1. CASE FreeClear(r)
    BY <2>1 DEF FreeClear, Set, Recorded
  <2> QED
    BY <2>1, ReaderEffects DEF ReaderChanges
<1> QED
  BY <1>1, <1>2, <1>3 DEF Owed, Handed

\* The count of a message that is becoming visible is that of its readers.
LEMMA CardinalityParts ==
  ASSUME NEW m \in SUBSET Readers, NEW q \in m
  PROVE  Cardinality(m) >= 1 /\ \A r \in m \ {q} : Cardinality(m) >= 2
<1>1. IsFiniteSet(m) /\ Cardinality(m) \in Nat
  BY Constants
<1>2. IsFiniteSet(m \ {q}) /\ Cardinality(m \ {q}) = Cardinality(m) - 1
      /\ Cardinality(m \ {q}) \in Nat
  BY <1>1, FS_RemoveElement, FS_CardinalityType
<1>3. ASSUME NEW r \in m \ {q} PROVE Cardinality(m) >= 2
  <2>1. /\ Cardinality((m \ {q}) \ {r}) = Cardinality(m \ {q}) - 1
        /\ Cardinality((m \ {q}) \ {r}) \in Nat
    BY <1>2, FS_RemoveElement, FS_CardinalityType
  <2> QED
    BY <1>1, <1>2, <2>1
<1> QED
  BY <1>1, <1>2, <1>3

LEMMA ReferredSending ==
  ASSUME IInv, Referred, NEW s \in Senders, SendAlloc(s) \/ Sending(s)
  PROVE  Referred'
<1> USE DEF IInv, Frame, Types
<1>1. \A r \in Readers : pc'[r] = pc[r] /\ at'[r] = at[r]
  BY SenderLeaves
<1>2. \A u \in Senders : u # s => pc'[u] = pc[u] /\ at'[u] = at[u] /\ old'[u] = old[u]
  BY SenderActs DEF Others, Threads
<1>3. \A r \in Readers : Working(r) => at[r] \in Index /\ holds[at[r]] # 0
  BY DEF Aimed, Kept, KeptBy
<1>4. ASSUME NEW u \in Senders, pc'[u] = "add_mask" PROVE ref'[at'[u]] = Cardinality(old'[u])
  <2>1. CASE AddRef(s)
    <3>1. u = s
      BY <1>2, <1>4, <2>1, LockExcludes DEF AddRef, Goto, Holder, Adding, Threads
    <3> QED
      BY <2>1, <3>1 DEF AddRef, Goto, Set, Aimed, Filling, Values, locals
  <2>2. CASE ~AddRef(s)
    <3>1. UNCHANGED ref
      BY <2>2, SenderEffects DEF SenderChanges
    <3>2. u # s
      BY <1>4, <2>2
      DEF Sending, Goto, Places, Threads, SendAlloc, SendWrite, AddLock, AddFind,
         AddBlock, AddMask, AddCount, AddUnlock, AddRefuse, SendFree
    <3> QED
      BY <1>2, <1>4, <3>1, <3>2 DEF Referred
  <2> QED
    BY <2>1, <2>2
<1>5. ASSUME NEW q \in Readers, NEW i \in Index, Owed(q, i)' PROVE CountsFor(q, i)'
  <2>1. CASE AddMask(s) /\ at[s] = i
    <3>1. /\ UNCHANGED <<ref, due>> /\ mask' = [mask EXCEPT ![i] = old[s]]
          /\ holds' = [holds EXCEPT ![i] = Message(s)] /\ holds[i] = 0
          /\ ref[i] = Cardinality(old[s])
      BY <2>1 DEF AddMask, Goto, Set, Filled, Message, Referred
    <3>2. due[Message(s)] = old[s] /\ old[s] \in SUBSET Readers
      BY <2>1 DEF AddMask, Goto, Fresh, Pending, Values, Threads
    <3>3. q \in old[s] /\ mask'[i] = old[s]
      BY <1>5, <3>1, <3>2 DEF Owed, Values, Recorded
    <3>4. \A r \in Readers : ~InMark(r, i)' /\ ~(pc'[r] = "mark_store" /\ at'[r] = i)
      BY <1>1, <1>3, <3>1 DEF InMark, Working, Given, Marked
    <3> QED
      BY <3>1, <3>2, <3>3, <3>4, CardinalityParts DEF CountsFor
  <2>2. CASE ~(AddMask(s) /\ at[s] = i)
    <3>1. Owed(q, i) /\ mask'[i] = mask[i]
      BY <1>5, <2>2, OwedSending
    <3>2. ref'[i] = ref[i]
      <4>1. CASE AddRef(s)
        <5>1. at[s] \in Index /\ holds[at[s]] = 0 /\ ref' = [ref EXCEPT ![at[s]] = Cardinality(old[s])]
          BY <4>1 DEF AddRef, Goto, Set, Aimed, Filled, Filling
        <5> QED
          BY <3>1, <5>1 DEF Owed, Values
      <4> QED
        BY <4>1, SenderEffects DEF SenderChanges
    <3>3. CountsFor(q, i)
      BY <3>1 DEF Referred
    <3> QED
      BY <1>1, <3>1, <3>2, <3>3 DEF CountsFor, InMark
  <2> QED
    BY <2>1, <2>2
<1>6. ASSUME NEW r \in Readers, NEW q \in Readers, pc'[r] = "free_block", Owed(q, at[r])'
      PROVE  FALSE
  <2>1. pc[r] = "free_block" /\ at'[r] = at[r]
    BY <1>1, <1>6
  <2>2. at[r] \in Index /\ holds[at[r]] # 0
    BY <1>3, <2>1 DEF Working, Given, Marked
  <2>3. ~(AddMask(s) /\ at[s] = at[r])
    BY <2>2 DEF AddMask, Goto, Filled
  <2> DEFINE i == at[r]
  <2>4. Owed(q, i)
    <3>1. \A j \in Index : j = at'[r] => Owed(q, j)'
      BY <1>6 DEF Owed, Handed
    <3> QED
      BY <2>1, <2>2, <2>3, <3>1, OwedSending
  <2> QED
    BY <2>1, <2>4 DEF Referred
<1> QED
  BY <1>4, <1>5, <1>6 DEF Referred

LEMMA ReferredReading ==
  ASSUME IInv, Pair, Referred, NEW r \in Readers, Reading(r)
  PROVE  Referred'
<1> USE DEF IInv, Frame, Types
<1>1. \A q \in Readers : q # r => pc'[q] = pc[q] /\ at'[q] = at[q]
  BY ReaderLeaves
<1>2. \A s \in Senders : pc'[s] = pc[s] /\ at'[s] = at[s] /\ old'[s] = old[s]
  BY ReaderLeaves
<1>3. \A q \in Readers : Given(q) =>
         at[q] \in Index /\ holds[at[q]] # 0 /\ Handed(q, holds[at[q]])
  BY DEF Aimed, Kept, KeptBy, Working, Visible, GivenBy
<1>4. ASSUME NEW s \in Senders, pc'[s] = "add_mask" PROVE ref'[at'[s]] = Cardinality(old'[s])
  <2>1. at[s] \in Index /\ holds[at[s]] = 0 /\ ref[at[s]] = Cardinality(old[s])
    BY <1>2, <1>4 DEF Referred, Aimed, Filled, Filling
  <2>2. ref'[at[s]] = ref[at[s]]
    <3>1. CASE MarkSub(r)
      <4>1. at[r] # at[s]
        BY <1>3, <2>1, <3>1 DEF MarkSub, Goto, Given, Marked
      <4> QED
        BY <2>1, <3>1, <4>1 DEF MarkSub, Set, Values
    <3> QED
      BY <3>1, ReaderEffects DEF ReaderChanges
  <2> QED
    BY <1>2, <2>1, <2>2
<1>5. ASSUME NEW q \in Readers, NEW i \in Index, Owed(q, i)' PROVE CountsFor(q, i)'
  <2>1. Owed(q, i) /\ CountsFor(q, i)
    BY <1>5, OwedReading DEF Referred
  <2>2. holds[i] # 0 /\ ~Handed(q, holds[i]) /\ ref[i] \in 0 .. Word - 1 /\ ref[i] >= 1
    BY <2>1 DEF Owed, Values, CountsFor
  <2>3. \A p \in Readers : Given(p) /\ at[p] = i => p # q
    BY <1>3, <2>2
  <2>4. \A p \in Readers \ {q} : p # r => r = q
    BY DEF Pair
  <2>5. CASE MarkStore(r)
    <3>1. /\ Given(r) /\ pc[r] = "mark_store" /\ pc'[r] = "mark_sub" /\ at[r] \in Index
          /\ UNCHANGED <<at, ref>> /\ mask' = [mask EXCEPT ![at[r]] = old[r] \ {r}]
      BY <1>3, <2>5 DEF MarkStore, Goto, Set, Given, locals, Places, Threads
    <3>2. CASE at[r] = i
      <4>1. r # q /\ r \in mask[i]
        BY <2>1, <2>3, <3>1, <3>2 DEF CountsFor
      <4>2. ref[i] >= 2 /\ mask'[i] = old[r] \ {r}
        BY <2>1, <3>1, <3>2, <4>1 DEF CountsFor, Values
      <4>3. \A p \in Readers \ {q} : p = r
        BY <2>4, <4>1
      <4> QED
        BY <2>2, <3>1, <4>2, <4>3 DEF CountsFor, InMark
    <3>3. CASE at[r] # i
      <4>1. mask'[i] = mask[i]
        BY <3>1, <3>3 DEF Values
      <4>2. \A p \in Readers : at'[p] = i => pc'[p] = pc[p]
        BY <1>1, <3>1, <3>3
      <4> QED
        BY <2>1, <3>1, <4>1, <4>2 DEF CountsFor, InMark
    <3> QED
      BY <3>2, <3>3
  <2>6. CASE MarkSub(r)
    <3>1. /\ Given(r) /\ pc[r] = "mark_sub" /\ pc'[r] = "free" /\ at[r] \in Index
          /\ UNCHANGED <<at, mask>>
          /\ ref' = [ref EXCEPT ![at[r]] = (ref[at[r]] + Word - 1) % Word]
      BY <1>3, <2>6 DEF MarkSub, Goto, Set, Given, Marked, locals, Places, Threads
    <3>2. CASE at[r] = i
      <4>1. r # q /\ InMark(r, i) /\ r \notin mask[i] /\ ref[i] >= 2
        BY <2>1, <2>3, <3>1, <3>2 DEF CountsFor, InMark
      <4>2. ref'[i] = (ref[i] + Word - 1) % Word
        BY <3>1, <3>2 DEF Values
      <4>3. ref'[i] >= 1
        <5>1. Word \in Nat /\ ref[i] \in Nat /\ ref[i] >= 2 /\ ref[i] < Word
          BY <2>2, <4>1, Constants
        <5>2. ref[i] + Word - 1 = Word + (ref[i] - 1) /\ ref[i] - 1 \in 0 .. Word - 1
          BY <5>1
        <5>3. (Word + (ref[i] - 1)) % Word = ref[i] - 1
          BY <5>1, <5>2
        <5> QED
          BY <4>2, <5>1, <5>2, <5>3
      <4>4. \A p \in Readers \ {q} : p = r
        BY <2>4, <4>1
      <4> QED
        BY <3>1, <4>1, <4>3, <4>4 DEF CountsFor, InMark
    <3>3. CASE at[r] # i
      <4>1. ref'[i] = ref[i]
        BY <3>1, <3>3 DEF Values
      <4>2. \A p \in Readers : at'[p] = i => pc'[p] = pc[p]
        BY <1>1, <3>1, <3>3
      <4> QED
        BY <2>1, <3>1, <4>1, <4>2 DEF CountsFor, InMark
    <3> QED
      BY <3>2, <3>3
  <2>7. CASE ~MarkStore(r) /\ ~MarkSub(r)
    <3>1. UNCHANGED ref
      BY <2>7, ReaderEffects DEF ReaderChanges
    <3>2. mask'[i] = mask[i]
      <4>1. CASE FreeMask(r)
        <5>1. at[r] \in Index /\ at[r] # i /\ mask' = [mask EXCEPT ![at[r]] = {}]
          BY <2>2, <4>1 DEF FreeMask, Goto, Set, Emptied
        <5> QED
          BY <5>1 DEF Values
      <4> QED
        BY <2>7, <4>1, ReaderEffects DEF ReaderChanges
    <3>3. ASSUME NEW p \in Readers \ {q}
          PROVE  /\ InMark(p, i)' => InMark(p, i)
                 /\ pc'[p] = "mark_store" /\ at'[p] = i =>
                       (pc[p] = "mark_store" /\ at[p] = i) \/ p \in mask[i]
      <4>1. CASE p # r
        BY <1>1, <4>1 DEF InMark
      <4>2. CASE p = r
        <5>1. CASE MarkLoad(r)
          BY <4>2, <5>1 DEF MarkLoad, Goto, InMark, Places, Threads
        <5>2. CASE FreeCheck(r)
          BY <4>2, <5>2 DEF FreeCheck, Goto, InMark, Places, Threads
        <5>3. CASE StaysThere(r)
          BY <4>2, <5>3 DEF StaysThere, InMark
        <5> QED
          BY <2>7, <5>1, <5>2, <5>3, ReaderStays
      <4> QED
        BY <4>1, <4>2
    <3> QED
      BY <2>1, <3>1, <3>2, <3>3 DEF CountsFor, InMark
  <2> QED
    BY <2>5, <2>6, <2>7
<1>6. ASSUME NEW p \in Readers, NEW q \in Readers, pc'[p] = "free_block", Owed(q, at[p])'
      PROVE  FALSE
  <2>1. \/ pc[p] = "free_block" /\ at'[p] = at[p]
        \/ p = r /\ FreeCheck(r)
    BY <1>1, <1>6, ReaderStays DEF StaysThere, MarkLoad, MarkStore, Goto, Places, Threads
  <2>2. at'[p] = at[p] /\ Given(p)
    BY <2>1 DEF FreeCheck, Goto, locals, Given, Marked
  <2>3. at[p] \in Index
    BY <1>3, <2>2
  <2> DEFINE i == at[p]
  <2>4. Owed(q, i)
    <3>1. \A j \in Index : j = at'[p] => Owed(q, j)'
      BY <1>6 DEF Owed, Handed
    <3> QED
      BY <2>2, <2>3, <3>1, OwedReading
  <2>5. CASE pc[p] = "free_block"
    BY <2>4, <2>5 DEF Referred
  <2>6. CASE p = r /\ FreeCheck(r)
    <3>1. ref[at[p]] = 0
      BY <1>6, <2>6 DEF FreeCheck, Goto, Places, Threads
    <3> QED
      BY <2>3, <2>4, <3>1 DEF Referred, CountsFor
  <2> QED
    BY <2>1, <2>5, <2>6
<1> QED
  BY <1>4, <1>5, <1>6 DEF Referred

LEMMA ReferredStep ==
  ASSUME IInv, Pair, Referred, [Next]_vars
  PROVE  Referred'
<1>1. CASE UNCHANGED vars \/ Tick
  BY <1>1
  DEF vars, Tick, shared, entries, locals, history, Referred, Owed, CountsFor, InMark,
     Handed
<1> QED
  BY <1>1, ReferredSending, ReferredReading DEF Next

\* With at most two participants, process_new_messages calls memory_pool_free
\* for no message whose block some participant of its mask was not handed, though
\* marks are lost and only the reference count is checked under the lock.
THEOREM FreedAfterRead == ASSUME Steady, Pair PROVE Spec => []ReadBeforeFree
<1>1. Init => Referred
  BY DEF Init, Referred, Owed, Threads
<1>2. IInv /\ Referred /\ [Next]_vars => Referred'
  BY ReferredStep
<1>3. IInv /\ Referred => ReadBeforeFree
  <2>1. ASSUME IInv, Referred, NEW r \in Readers, pc[r] = "free_block", holds[at[r]] # 0,
               NEW q \in due[holds[at[r]]]
        PROVE  Handed(q, holds[at[r]])
    <3>1. at[r] \in Index
      BY <2>1 DEF IInv, Frame, Types, Aimed, Working, Given, Marked
    <3>2. q \in Readers
      BY <2>1, <3>1, Constants DEF IInv, Frame, Types, Sent, Numbered
    <3> QED
      BY <2>1, <3>2 DEF Referred, Owed
  <2> QED
    BY <2>1 DEF ReadBeforeFree
<1>4. Spec => []IInv
  BY Invariant
<1> QED
  BY <1>1, <1>2, <1>3, <1>4, PTL DEF Spec

-----------------------------------------------------------------------------
(* What a step does to the entries, as the tracker is built: an entry that is
   taken stays so, and one whose message is visible keeps it and its block. *)
EntriesStay ==
  \A i \in Index : /\ block[i] # NULL => block'[i] = block[i]
                   /\ holds[i] # 0 => /\ holds'[i] = holds[i]
                                      /\ carries'[block'[i]] = holds[i]

(* Where the pool refuses what is given back, no step of any sender or reader
   empties an entry or gives its block to another message: a reader that looks
   at an entry again, however late, finds the message it found before.  ChatRoom
   rests on this where it lets a poll read all messages at once, and it is why
   the tracker is full after as many messages as it has entries. *)
THEOREM EntriesUsedOnce == ASSUME ~PoolAccepts PROVE Spec => [][EntriesStay]_vars
<1>1. IInv /\ [Next]_vars => EntriesStay
  <2> SUFFICES ASSUME IInv, [Next]_vars, NEW i \in Index
               PROVE  /\ block[i] # NULL => block'[i] = block[i]
                      /\ holds[i] # 0 => holds'[i] = holds[i] /\ carries'[block'[i]] = holds[i]
    BY DEF EntriesStay
  <2>1. Places /\ Owned /\ Aimed /\ Values /\ Recorded
    BY DEF IInv, Frame, Types
  <2>2. ~Leaving(i)
    BY DEF IInv, Frame, Cleared, Leaving
  <2>3. /\ holds[i] # 0 => block[i] # NULL /\ carries[block[i]] = holds[i]
        /\ block[i] # NULL => block[i] \in Blocks
    BY <2>1, <2>2 DEF IInv, Frame, Complete, Numbered, Values
  <2>4. CASE block' = block /\ holds' = holds /\ carries' = carries
    BY <2>3, <2>4
  <2>5. ASSUME NEW s \in Senders, SendAlloc(s) \/ Sending(s)
        PROVE  /\ block[i] # NULL => block'[i] = block[i]
               /\ holds[i] # 0 => holds'[i] = holds[i] /\ carries'[block'[i]] = holds[i]
    <3>1. SenderChanges(s)
      BY <2>5, SenderEffects
    <3>2. CASE AddBlock(s)
      <4>1. block' = [block EXCEPT ![at[s]] = own[s]] /\ pc[s] = "add_block"
            /\ holds' = holds /\ carries' = carries
        BY <3>2 DEF AddBlock, Goto, Set, history
      <4>2. block[at[s]] = NULL
        BY <4>1 DEF IInv, Frame, Filled
      <4>3. block[i] # NULL => block'[i] = block[i]
        BY <2>1, <4>1, <4>2 DEF Values
      <4> QED
        BY <2>3, <4>1, <4>3
    <3>3. CASE AddMask(s)
      <4>1. holds' = [holds EXCEPT ![at[s]] = carries[own[s]]] /\ pc[s] = "add_mask"
            /\ block' = block /\ carries' = carries
        BY <3>3 DEF AddMask, Goto, Set
      <4>2. holds[at[s]] = 0
        BY <4>1 DEF IInv, Frame, Filled
      <4>3. holds[i] # 0 => holds'[i] = holds[i]
        BY <2>1, <4>1, <4>2 DEF Recorded
      <4> QED
        BY <2>3, <4>1, <4>3
    <3>4. CASE SendWrite(s)
      <4>1. carries' = [carries EXCEPT ![own[s]] = sent + 1] /\ pc[s] = "send_write"
            /\ block' = block /\ holds' = holds
        BY <3>4 DEF SendWrite, Goto, Set, entries
      <4>2. own[s] # block[i]
        BY <2>2, <4>1 DEF IInv, Shared, Owns
      <4> QED
        BY <2>1, <2>3, <4>1, <4>2 DEF Recorded
    <3>5. CASE ~AddBlock(s) /\ ~AddMask(s) /\ ~SendWrite(s)
      BY <2>4, <3>1, <3>5 DEF SenderChanges
    <3> QED
      BY <3>2, <3>3, <3>4, <3>5
  <2>6. ASSUME NEW r \in Readers, Reading(r)
        PROVE  block' = block /\ holds' = holds /\ carries' = carries
    <3>1. ~FreeClear(r)
      BY DEF IInv, Frame, Cleared, FreeClear, Goto
    <3> QED
      BY <2>6, <3>1, ReaderEffects DEF ReaderChanges
  <2>7. ASSUME Tick \/ UNCHANGED vars
        PROVE  block' = block /\ holds' = holds /\ carries' = carries
    BY <2>7 DEF Tick, vars, shared, entries, history
  <2> QED
    BY <2>4, <2>5, <2>6, <2>7 DEF Next
<1>2. Spec => []IInv
  BY Invariant DEF Steady
<1> QED
  BY <1>1, <1>2, PTL DEF Spec
====
