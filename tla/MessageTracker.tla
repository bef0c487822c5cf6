--------------------------- MODULE MessageTracker ---------------------------
(***************************************************************************)
(* 05_chat_room: message_tracker.c, with the two loops of shm_manager.c    *)
(* that drive it.  A sender allocates a block, writes the message into it  *)
(* and adds it to the tracker with the mask of the participants that shall *)
(* read it (send_message).  A reader looks for the oldest message whose    *)
(* mask has its bit, hands it to the callback, clears its bit, decrements  *)
(* the reference count and frees the block when the count is 0             *)
(* (process_new_messages).  Adding and freeing take tracker_lock; reading  *)
(* and marking take no lock.  An access outside the lock is an action of   *)
(* its own, but for the scan, whose look at one entry is one action: its   *)
(* outcome is looked at again, field by field, by the actions that follow. *)
(***************************************************************************)
EXTENDS Naturals, Sequences, FiniteSets, FiniteSetsExt, SequencesExt

CONSTANTS Readers,      \* the participants, one reading thread each
          Senders,      \* the threads that send
          Blocks,       \* the blocks of the message pool
          TextAt,       \* the words that the text of a message takes, by block
          Slots,        \* MAX_TRACKED_MESSAGES
          Masks,        \* what calculate_active_mask may answer
          Word,         \* the number of values of a uint32_t
          PoolAccepts,  \* whether memory_pool_free takes a handed-out block
          NULL,
          MaxMessages,  \* bound: messages sent
          MaxTime       \* bound: seconds that pass

ASSUME TrackerAssumption == /\ Slots \in Nat \ {0}
                            /\ IsFiniteSet(Readers) /\ IsFiniteSet(Senders)
                            /\ Readers \cap Senders = {}
                            /\ Masks \subseteq SUBSET Readers
                            /\ Word \in Nat /\ Word > Cardinality(Readers)
                            /\ Word > Slots
                            /\ PoolAccepts \in BOOLEAN
                            /\ IsFiniteSet(Blocks) /\ NULL \notin Blocks
                            /\ DOMAIN TextAt = Blocks
                            /\ MaxMessages \in Nat /\ MaxTime \in Nat

VARIABLES block, ref, mask, ts,  \* messages[i] of the tracker, by field
          count, next, lock,     \* next_index, tracker_lock
          pool,                  \* the free blocks, in the pool's order
          carries,               \* history: the message sent through each block
          text,                  \* the message whose text was last written
                                 \* to a word
          now,                   \* time(NULL)
          pc,
          own,                   \* the block a thread is working on
          at,                    \* the entry it is working on
          old,                   \* the mask it has loaded or is adding
          best,                  \* the oldest unread entry of a scan so far
          sent, due, got, holds  \* history: messages numbered from 1, the
                                 \* readers of each, those handed to each, and
                                 \* the message each entry tracks (0: none)

entries == <<block, ref, mask, ts>>
shared  == <<entries, count, next, lock, pool, carries, text>>
locals  == <<own, at, old, best>>
history == <<sent, due, got, holds>>
vars    == <<shared, now, pc, locals, history>>

Threads == Readers \cup Senders
Words   == UNION {TextAt[b] : b \in Blocks}
Index   == 0 .. Slots - 1
None    == [entry |-> Slots, ts |-> MaxTime + 1]

Goto(t, from, to) == pc[t] = from /\ pc' = [pc EXCEPT ![t] = to]
Set(f, t, v) == [f EXCEPT ![t] = v]

Init == /\ block = [i \in Index |-> NULL]
        /\ ref = [i \in Index |-> 0]
        /\ mask = [i \in Index |-> {}]
        /\ ts = [i \in Index |-> 0]
        /\ count = 0 /\ next = 0 /\ lock = 0
        /\ pool = SetToSeq(Blocks)
        /\ carries = [b \in Blocks |-> 0] /\ text = [w \in Words |-> 0]
        /\ now = 0
        /\ pc = [t \in Threads |-> "idle"]
        /\ own = [t \in Threads |-> NULL]
        /\ at = [t \in Threads |-> 0]
        /\ old = [t \in Threads |-> {}]
        /\ best = [r \in Readers |-> None]
        /\ sent = 0 /\ due = << >>
        /\ got = [r \in Readers |-> << >>]
        /\ holds = [i \in Index |-> 0]

Tick == /\ now < MaxTime /\ now' = now + 1
        /\ UNCHANGED <<shared, pc, locals, history>>

\* memory_pool_free, as it answers in the pool this tracker is linked with.
FreeSucceeds == PoolAccepts /\ Len(pool) < Cardinality(Blocks)

-----------------------------------------------------------------------------
(* send_message.  Without a free block it returns and changes nothing. *)
SendAlloc(s) == /\ Goto(s, "idle", "send_write")
                /\ sent + Cardinality({u \in Senders : pc[u] = "send_write"}) < MaxMessages
                /\ pool # << >>
                /\ own' = Set(own, s, Head(pool))
                /\ pool' = Tail(pool)
                /\ UNCHANGED <<entries, count, next, lock, carries, text, now,
                               at, old, best, history>>

\* The text is written, to all the words it takes from the block on, and the
\* mask is computed.  As built, a block is the address of a slot of the pool's
\* ring (ring_buffer.c:121): the next block is one word on, and their texts
\* overlap.  The header goes elsewhere (shm_manager.c:416) and is left out.
SendWrite(s) == /\ Goto(s, "send_write", "add_lock")
                /\ sent' = sent + 1
                /\ carries' = Set(carries, own[s], sent + 1)
                /\ text' = [w \in Words |-> IF w \in TextAt[own[s]] THEN sent + 1 ELSE text[w]]
                /\ \E m \in Masks : old' = Set(old, s, m) /\ due' = Append(due, m)
                /\ UNCHANGED <<entries, count, next, lock, pool, now,
                               own, at, best, got, holds>>

\* Mutant of AddLock: the exchange of the spinlock ignores the old value.
AddLockIgnoresHolder(s) ==
  /\ Goto(s, "add_lock", "add_find")
  /\ lock' = 1
  /\ UNCHANGED <<entries, count, next, pool, carries, text, now, locals, history>>

(* tracker_add_message *)
AddLock(s) == /\ Goto(s, "add_lock", "add_find")
              /\ lock = 0 /\ lock' = 1
              /\ UNCHANGED <<entries, count, next, pool, carries, text, now,
                             locals, history>>

\* The entries in the order of the search, and where it meets an available one.
Searched(k) == (next + k) % Slots
Available == {k \in Index : block[Searched(k)] = NULL}

\* The search runs under the lock, which every writer of block_ptr holds, and
\* takes the first.
AddFind(s) == /\ \/ /\ count < Slots
                    /\ Goto(s, "add_find", "add_block")
                    /\ \E k \in Available : /\ \A j \in Available : k <= j
                                            /\ at' = Set(at, s, Searched(k))
                 \/ /\ count >= Slots \/ Available = {}
                    /\ Goto(s, "add_find", "add_refuse")
                    /\ UNCHANGED at
              /\ UNCHANGED <<shared, now, own, old, best, history>>

AddBlock(s) == /\ Goto(s, "add_block", "add_ref")
               /\ block' = Set(block, at[s], own[s])
               /\ ts' = Set(ts, at[s], now)
               /\ UNCHANGED <<ref, mask, count, next, lock, pool, carries, text,
                              now, locals, history>>

\* Mutant of AddRef: the sender is not counted among the readers.
AddRefShort(s) ==
  /\ Goto(s, "add_ref", "add_mask")
  /\ ref' = Set(ref, at[s], Cardinality(old[s]) - 1)
  /\ UNCHANGED <<block, mask, ts, count, next, lock, pool, carries, text, now,
                 locals, history>>

AddRef(s) == /\ Goto(s, "add_ref", "add_mask")
             /\ ref' = Set(ref, at[s], Cardinality(old[s]))
             /\ UNCHANGED <<block, mask, ts, count, next, lock, pool, carries,
                            text, now, locals, history>>

\* The mask makes the message visible to its readers.
AddMask(s) == /\ Goto(s, "add_mask", "add_count")
              /\ mask' = Set(mask, at[s], old[s])
              /\ holds' = Set(holds, at[s], carries[own[s]])
              /\ UNCHANGED <<block, ref, ts, count, next, lock, pool, carries,
                             text, now,
                             locals, sent, due, got>>

\* Mutant of AddCount: the next index is not wrapped.
AddCountUnwrapped(s) ==
  /\ Goto(s, "add_count", "add_unlock")
  /\ count' = (count + 1) % Word
  /\ next' = at[s] + 1
  /\ UNCHANGED <<entries, lock, pool, carries, text, now, locals, history>>

AddCount(s) == /\ Goto(s, "add_count", "add_unlock")
               /\ count' = (count + 1) % Word
               /\ next' = (at[s] + 1) % Slots
               /\ UNCHANGED <<entries, lock, pool, carries, text, now, locals,
                              history>>

\* The locals of a call end with it.
Forget(t) == /\ own' = Set(own, t, NULL)
             /\ at' = Set(at, t, 0)
             /\ old' = Set(old, t, {})

AddUnlock(s) == /\ Goto(s, "add_unlock", "idle")
                /\ lock' = 0
                /\ Forget(s)
                /\ UNCHANGED <<entries, count, next, pool, carries, text, now,
                               best, history>>

AddRefuse(s) == /\ Goto(s, "add_refuse", "send_free")
                /\ lock' = 0
                /\ UNCHANGED <<entries, count, next, pool, carries, text, now,
                               locals, history>>

\* send_message gives the block of an untracked message back.
SendFree(s) == /\ Goto(s, "send_free", "idle")
               /\ pool' = IF FreeSucceeds THEN Append(pool, own[s]) ELSE pool
               /\ Forget(s)
               /\ UNCHANGED <<entries, count, next, lock, carries, text, now, best,
                              history>>

-----------------------------------------------------------------------------
(* process_new_messages: its loop starts over with another scan. *)
Rescan(r) == Forget(r) /\ best' = Set(best, r, None)

Poll(r) == /\ Goto(r, "idle", "scan")
           /\ UNCHANGED <<shared, now, locals, history>>

(* tracker_get_next_unread, one entry at a time. *)
Seen(r) == LET i == at[r] IN
  IF block[i] # NULL /\ r \in mask[i] /\ ts[i] < best[r].ts
  THEN [entry |-> i, ts |-> ts[i]] ELSE best[r]

ScanEntry(r) == /\ at[r] < Slots
                /\ Goto(r, "scan", "scan")
                /\ best' = Set(best, r, Seen(r))
                /\ at' = Set(at, r, at[r] + 1)
                /\ UNCHANGED <<shared, now, own, old, history>>

\* Mutant of ScanEnd: the last entry is left out of the scan.
ScanEndShort(r) ==
  /\ at[r] = Slots
  /\ \/ /\ best[r].entry >= Slots - 1
        /\ Goto(r, "scan", "idle")
        /\ Rescan(r)
     \/ /\ best[r].entry < Slots - 1
        /\ Goto(r, "scan", "message")
        /\ at' = Set(at, r, best[r].entry)
        /\ UNCHANGED <<own, old, best>>
  /\ UNCHANGED <<shared, now, history>>

ScanEnd(r) == /\ at[r] = Slots
              /\ \/ /\ best[r] = None
                    /\ Goto(r, "scan", "idle")
                    /\ Rescan(r)
                 \/ /\ best[r] # None
                    /\ Goto(r, "scan", "message")
                    /\ at' = Set(at, r, best[r].entry)
                    /\ UNCHANGED <<own, old, best>>
              /\ UNCHANGED <<shared, now, history>>

(* tracker_get_message *)
GetMessage(r) == /\ \/ /\ Goto(r, "message", "scan")
                       /\ block[at[r]] = NULL
                       /\ Rescan(r)
                    \/ /\ Goto(r, "message", "callback")
                       /\ block[at[r]] # NULL
                       /\ own' = Set(own, r, block[at[r]])
                       /\ UNCHANGED <<at, old, best>>
                 /\ UNCHANGED <<shared, now, history>>

\* The callback is handed the block: its text is whatever is there by then.
Callback(r) == /\ Goto(r, "callback", "mark")
               /\ got' = Set(got, r, Append(got[r], carries[own[r]]))
               /\ UNCHANGED <<shared, now, locals, sent, due, holds>>

(* tracker_mark_read *)
MarkExists(r) == /\ \/ Goto(r, "mark", "free") /\ block[at[r]] = NULL
                    \/ Goto(r, "mark", "mark_load") /\ block[at[r]] # NULL
                 /\ UNCHANGED <<shared, now, locals, history>>

MarkLoad(r) == /\ \/ Goto(r, "mark_load", "free") /\ r \notin mask[at[r]]
                  \/ Goto(r, "mark_load", "mark_store") /\ r \in mask[at[r]]
               /\ old' = Set(old, r, mask[at[r]])
               /\ UNCHANGED <<shared, now, own, at, best, history>>

\* Mutant of MarkStore: every participant's bit is cleared.
MarkStoreAll(r) ==
  /\ Goto(r, "mark_store", "mark_sub")
  /\ mask' = Set(mask, at[r], {})
  /\ UNCHANGED <<block, ref, ts, count, next, lock, pool, carries, text, now,
                 locals, history>>

MarkStore(r) == /\ Goto(r, "mark_store", "mark_sub")
                /\ mask' = Set(mask, at[r], old[r] \ {r})
                /\ UNCHANGED <<block, ref, ts, count, next, lock, pool, carries,
                               text, now, locals, history>>

\* Mutant of MarkSub: the reference count is not decremented.
MarkSubForgotten(r) ==
  /\ Goto(r, "mark_sub", "free")
  /\ UNCHANGED <<shared, now, locals, history>>

MarkSub(r) == /\ Goto(r, "mark_sub", "free")
              /\ ref' = Set(ref, at[r], (ref[at[r]] + Word - 1) % Word)
              /\ UNCHANGED <<block, mask, ts, count, next, lock, pool, carries,
                             text, now, locals, history>>

(* tracker_try_free_message.  The block is read before the lock is taken. *)
FreeExists(r) == /\ \/ /\ Goto(r, "free", "scan")
                       /\ block[at[r]] = NULL
                       /\ Rescan(r)
                    \/ /\ Goto(r, "free", "free_ref")
                       /\ block[at[r]] # NULL
                       /\ own' = Set(own, r, block[at[r]])
                       /\ UNCHANGED <<at, old, best>>
                 /\ UNCHANGED <<shared, now, history>>

FreeRef(r) == /\ \/ /\ Goto(r, "free_ref", "scan")
                    /\ ref[at[r]] > 0
                    /\ Rescan(r)
                 \/ /\ Goto(r, "free_ref", "free_lock")
                    /\ ref[at[r]] = 0
                    /\ UNCHANGED locals
              /\ UNCHANGED <<shared, now, history>>

FreeLock(r) == /\ Goto(r, "free_lock", "free_check")
               /\ lock = 0 /\ lock' = 1
               /\ UNCHANGED <<entries, count, next, pool, carries, text, now,
                              locals, history>>

\* Only the reference count is checked again.
FreeCheck(r) == /\ \/ Goto(r, "free_check", "free_unlock") /\ ref[at[r]] > 0
                   \/ Goto(r, "free_check", "free_block") /\ ref[at[r]] = 0
                /\ UNCHANGED <<shared, now, locals, history>>

FreeBlock(r) == /\ \/ /\ FreeSucceeds
                      /\ Goto(r, "free_block", "free_clear")
                      /\ pool' = Append(pool, own[r])
                   \/ /\ ~FreeSucceeds
                      /\ Goto(r, "free_block", "free_unlock")
                      /\ UNCHANGED pool
                /\ UNCHANGED <<entries, count, next, lock, carries, text, now,
                               locals, history>>

\* Mutant of FreeClear: the entry keeps its block pointer.
FreeClearKept(r) ==
  /\ Goto(r, "free_clear", "free_mask")
  /\ ts' = Set(ts, at[r], 0)
  /\ holds' = Set(holds, at[r], 0)
  /\ UNCHANGED <<block, ref, mask, count, next, lock, pool, carries, text, now,
                 locals, sent, due, got>>

FreeClear(r) == /\ Goto(r, "free_clear", "free_mask")
                /\ block' = Set(block, at[r], NULL)
                /\ ts' = Set(ts, at[r], 0)
                /\ holds' = Set(holds, at[r], 0)
                /\ UNCHANGED <<ref, mask, count, next, lock, pool, carries, text, now,
                               locals, sent, due, got>>

FreeMask(r) == /\ Goto(r, "free_mask", "free_unlock")
               /\ mask' = Set(mask, at[r], {})
               /\ count' = (count + Word - 1) % Word
               /\ UNCHANGED <<block, ref, ts, next, lock, pool, carries, text, now,
                              locals, history>>

FreeUnlock(r) == /\ Goto(r, "free_unlock", "scan")
                 /\ Rescan(r)
                 /\ lock' = 0
                 /\ UNCHANGED <<entries, count, next, pool, carries, text, now,
                                history>>

-----------------------------------------------------------------------------
Sending(s) == \/ SendWrite(s) \/ AddLock(s) \/ AddFind(s) \/ AddBlock(s)
              \/ AddRef(s) \/ AddMask(s) \/ AddCount(s) \/ AddUnlock(s)
              \/ AddRefuse(s) \/ SendFree(s)

Reading(r) == \/ Poll(r) \/ ScanEntry(r) \/ ScanEnd(r) \/ GetMessage(r)
              \/ Callback(r) \/ MarkExists(r) \/ MarkLoad(r) \/ MarkStore(r)
              \/ MarkSub(r) \/ FreeExists(r) \/ FreeRef(r) \/ FreeLock(r)
              \/ FreeCheck(r) \/ FreeBlock(r) \/ FreeClear(r) \/ FreeMask(r)
              \/ FreeUnlock(r)

Next == \/ Tick
        \/ \E s \in Senders : SendAlloc(s) \/ Sending(s)
        \/ \E r \in Readers : Reading(r)

Spec == Init /\ [][Next]_vars

\* Participants keep polling (chat_client.c:25, chat_server.c:41) and a send
\* that has begun goes on; nothing makes anybody send, and time need not pass.
Fairness == /\ \A s \in Senders : WF_vars(Sending(s))
            /\ \A r \in Readers : WF_vars(Reading(r))
FairSpec == Spec /\ Fairness

-----------------------------------------------------------------------------
SenderPCs == {"idle", "send_write", "add_lock", "add_find", "add_block",
              "add_ref", "add_mask", "add_count", "add_unlock", "add_refuse",
              "send_free"}
ReaderPCs == {"idle", "scan", "message", "callback", "mark", "mark_load",
              "mark_store", "mark_sub", "free", "free_ref", "free_lock",
              "free_check", "free_block", "free_clear", "free_mask",
              "free_unlock"}

TypeOK == /\ block \in [Index -> Blocks \cup {NULL}]
          /\ ref \in [Index -> 0 .. Word - 1]
          /\ mask \in [Index -> SUBSET Readers]
          /\ ts \in [Index -> 0 .. MaxTime] /\ now \in 0 .. MaxTime
          /\ count \in 0 .. Word - 1 /\ next \in Index /\ lock \in {0, 1}
          /\ pool \in Seq(Blocks)
          /\ carries \in [Blocks -> 0 .. MaxMessages]
          /\ text \in [Words -> 0 .. MaxMessages]
          /\ \A s \in Senders : pc[s] \in SenderPCs
          /\ \A r \in Readers : pc[r] \in ReaderPCs
          /\ own \in [Threads -> Blocks \cup {NULL}]
          /\ at \in [Threads -> 0 .. Slots]
          /\ old \in [Threads -> SUBSET Readers]
          /\ sent \in 0 .. MaxMessages /\ due \in Seq(Masks)
          /\ \A r \in Readers : got[r] \in Seq(0 .. MaxMessages)
          /\ holds \in [Index -> 0 .. MaxMessages]

(* message_tracker.h:23: count is the number of active tracked messages,
   whenever nobody is inside the lock. *)
CountExact == lock = 0 => count = Cardinality({i \in Index : block[i] # NULL})

(* Once a participant has marked a message as read it is not given to it
   again (shm_manager.c:467-468), nor another message in its block. *)
ReadOnce == \A r \in Readers : IsInjective(got[r])

\* r's callback was called with the block of m.
Handed(r, m) == m \in ToSet(got[r])

(* The text a callback is given is that of the message the reader found, and
   all of it: nobody has written another to any of its words
   ("Send a message to all participants", shm_manager.c:395; 423-425, 464). *)
TextIntact == \A r \in Readers : pc[r] = "callback" =>
                 \A w \in TextAt[own[r]] : text[w] = holds[at[r]]

(* memory_pool_free is called for a message only when all participants in its
   mask have been handed its block (message_tracker.h:46). *)
ReadBeforeFree ==
  \A r \in Readers : pc[r] = "free_block" /\ holds[at[r]] # 0 =>
     LET m == holds[at[r]] IN \A q \in due[m] : Handed(q, m)

(* A block is in the pool at most once, and not while it is tracked: a sender
   is never given a block that still carries a message. *)
BlocksUnshared ==
  /\ IsInjective(pool)
  /\ lock = 0 => \A i \in Index : block[i] \notin ToSet(pool)
  /\ \A i, j \in Index : i # j /\ block[i] # NULL => block[i] # block[j]

(* The bit of a participant is cleared only after the participant was handed
   the message's block: until then the message stays visible to it, whatever
   the marks of the others do to the mask. *)
UnreadStaysVisible ==
  \A i \in Index : holds[i] # 0 =>
     \A r \in due[holds[i]] : r \in mask[i] \/ Handed(r, holds[i])

Tracked(m) == \E i \in Index : holds[i] = m

(* Every message that is tracked has its block handed to every participant of
   its mask; what is read there is TextIntact's concern. *)
ReadEventually ==
  \A m \in 1 .. MaxMessages, r \in Readers :
     Tracked(m) /\ r \in due[m] ~> Handed(r, m)

(* A message handed to all its participants is freed (message_tracker.h:46,
   shm_manager.c:470): its entry becomes available. *)
FreedEventually ==
  \A m \in 1 .. MaxMessages :
     Tracked(m) /\ (\A r \in due[m] : Handed(r, m)) ~> ~Tracked(m)
=============================================================================
