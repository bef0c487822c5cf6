--------------------------- MODULE ChatRoom_proofs ---------------------------
(***************************************************************************)
(* Theorems about ChatRoom, for any number of clients, places, names and   *)
(* seconds, however many register at one time and however slow they are:   *)
(* the bounds MaxJoining, Quick and Slow are not assumed to be anything.   *)
(*                                                                         *)
(* The history variables say where two processes met or shared a place.    *)
(* SeatInv relates them to what each process is doing: who registers along *)
(* with another has met it (Meets), who sits where another sits is robbed  *)
(* (Shares), and who is not robbed has what it stored (Holding).  NamesInv *)
(* adds that the name about to enter is new but to those it met (NameNew), *)
(* CountInv that a server that met nobody is alone (Opening).              *)
(***************************************************************************)
EXTENDS ChatRoom, FiniteSetTheorems, WellFoundedInduction, TLAPS

ServerPCs == {"enter", "status", "stamp", "count", "send", "mask", "add", "live",
              "scan", "uncount"}
ClientPCs == PCs \ {"scan", "uncount"}
Placeless == {"out", "gone", "killed", "torn"}

(* A client has a place from the search for it until it has left; the
   server's is 0.  What follows a message is known. *)
Places(p) ==
  /\ p = Server => pc[p] \in ServerPCs /\ slot[p] = 0
  /\ p # Server => pc[p] \in ClientPCs /\ (slot[p] = None <=> pc[p] \in Placeless)
  /\ pc[p] \in {"send", "mask", "add"} =>
        next[p] \in IF p = Server THEN {"live", "scan"} ELSE {"live", "leave"}

(* Two that register met; two that sit in one place are robbed. *)
Meets  == \A p, q \in Procs : p # q /\ Registering(p) /\ Registering(q) => {p, q} \in met
Shares == \A p, q \in Procs : p # q /\ Sits(p) /\ Sits(q) /\ slot[p] = slot[q] => p \in robbed

(* A place has its status, and its entry, once they are stored. *)
Nameless(p) == pc[p] \in {"check", "enter"}
Inactive(p) == pc[p] \in {"check", "enter", "status"}
Holding(p) == p \notin robbed /\ Sits(p) =>
                 /\ status[slot[p]] <=> ~Inactive(p)
                 /\ ~Nameless(p) => who[slot[p]] = p

SeatInv == /\ TypeOK /\ Meets /\ Shares
           /\ \A p \in Procs : Places(p) /\ Holding(p)

(* Where somebody sits is its own entry, or that of one that is robbed; each
   has one entry at most, and who has not entered has none. *)
Written(p)  == Sits(p) /\ ~Nameless(p) => who[slot[p]] = p \/ who[slot[p]] \in robbed
NoEntry(p)  == pc[p] \in {"out", "check", "enter"} => \A s \in Slots : who[s] # p
OneEntry    == \A s, t \in Slots : who[s] = who[t] /\ who[s] # NULL => s = t
Occupied    == \A s \in Slots : status[s] => who[s] \in Procs

(* The name that is about to enter is that of nobody it has not met. *)
NameNew(p) == pc[p] \in {"enter", "status"} /\ p \notin robbed =>
                 \A t \in Slots : status[t] /\ who[t] \notin robbed /\ {who[t], p} \notin met =>
                    NameOf(who[t]) # NameOf(p)

NamesInv == /\ SeatInv /\ OneEntry /\ Occupied /\ NamesApart
            /\ \A p \in Procs : Written(p) /\ NoEntry(p) /\ NameNew(p)

(* The server registers before any client, unless they meet. *)
Unmet == \A c \in Clients : {c, Server} \notin met
Opening == Registering(Server) /\ Unmet =>
             /\ \A c \in Clients : pc[c] = "out"
             /\ \A s \in Slots : status[s] => s = 0
             /\ count = 0

CountInv == SeatInv /\ Opening /\ CountKept

-----------------------------------------------------------------------------
LEMMA Constants ==
  /\ Participants \in Nat \ {0} /\ Slots \subseteq Nat /\ 0 \in Slots
  /\ None \notin Slots /\ None = Participants
  /\ \A s \in Slots : s < Participants /\ s + 1 \in 0 .. Participants
  /\ NULL \notin Procs /\ Clients \subseteq Procs /\ Server \in Procs /\ Server \notin Clients
  /\ \A p \in Procs : p \in Clients <=> p # Server
  /\ MaxTime \in Nat /\ Timeout \in Nat /\ Word \in Nat /\ Word > 0 /\ Entries \in Nat
  /\ Word > MaxTime + Timeout /\ Timeout < Word
  /\ Cardinality(Clients) \in Nat /\ Word > Participants + Cardinality(Clients) + 1
  /\ Word > 1
BY RoomAssumption, FS_CardinalityType DEF Slots, None, Procs

LEMMA Remainders ==
  ASSUME NEW k \in Nat
  PROVE  /\ k % Word \in 0 .. Word - 1
         /\ k < Word => k % Word = k /\ (k + Word) % Word = k
<1>1. Word \in Nat /\ Word > 0
  BY Constants
<1> QED
  BY <1>1

LEMMA MinIsIn ==
  ASSUME NEW S \in SUBSET Nat, S # {}
  PROVE  Min(S) \in S /\ \A y \in S : Min(S) <= y
<1>1. PICK x \in S : \A y \in S : <<y, x>> \notin OpToRel(<, Nat)
  BY NatLessThanWellFounded, WFMin, Zenon
<1>2. \A y \in S : x <= y
  <2> TAKE y \in S
  <2>1. <<y, x>> \in Nat \X Nat /\ <<y, x>>[1] = y /\ <<y, x>>[2] = x
    OBVIOUS
  <2>2. ~ (y < x)
    BY <1>1, <2>1 DEF OpToRel
  <2> QED
    BY <2>2
<1> QED
  BY <1>2 DEF Min

LEMMA MinSlot ==
  /\ Free # {} => Min(Free) \in Slots /\ ~status[Min(Free)]
  /\ Gone # {} => Min(Gone) \in Slots /\ status[Min(Gone)] /\ Silent(Min(Gone))
<1>1. Free \in SUBSET Nat /\ Gone \in SUBSET Nat
  BY Constants DEF Free, Gone
<1>2. /\ Free # {} => Min(Free) \in Free
      /\ Gone # {} => Min(Gone) \in Gone
  BY <1>1, MinIsIn
<1> QED
  BY <1>2 DEF Free, Gone

-----------------------------------------------------------------------------
(* The types. *)
TableOK == /\ status \in [Slots -> BOOLEAN]
           /\ who \in [Slots -> Procs \cup {NULL}]
           /\ last \in [Slots -> 0 .. MaxTime] /\ now \in 0 .. MaxTime
           /\ count \in 0 .. Word - 1
           /\ i \in 0 .. Participants /\ mark \in 0 .. MaxTime

ThreadsOK == /\ pc \in [Procs -> PCs]
             /\ next \in [Procs -> {"out", "live", "leave", "scan"}]
             /\ slot \in [Procs -> Slots \cup {None}]
             /\ nick \in Nicks
             /\ reader \in [Procs -> {"off", "idle", "ended", "done"}]

Msgs == [unread : SUBSET Slots, due : SUBSET Procs]
MsgsOK == msgs \in Seq(Msgs) /\ Len(msgs) <= Entries
DraftOK == draft \in [Procs -> Msgs]
HistoryOK == met \subseteq SUBSET Procs /\ robbed \subseteq Procs

LEMMA TypeParts == TypeOK <=> TableOK /\ ThreadsOK /\ MsgsOK /\ DraftOK /\ HistoryOK
BY DEF TypeOK, TableOK, ThreadsOK, MsgsOK, DraftOK, HistoryOK, Msgs

(* A function over the same indices is a sequence of the same length. *)
LEMMA SameLength ==
  ASSUME NEW S, NEW q \in Seq(S), NEW r \in [DOMAIN q -> S]
  PROVE  r \in Seq(S) /\ Len(r) = Len(q)
<1>1. DOMAIN q = 1 .. Len(q) /\ Len(q) \in Nat
  OBVIOUS
<1>2. r \in [1 .. Len(q) -> S]
  BY <1>1
<1>3. r \in Seq(S)
  BY <1>1, <1>2
<1>4. DOMAIN r = 1 .. Len(r) /\ Len(r) \in Nat
  BY <1>3
<1>5. 1 .. Len(r) = 1 .. Len(q)
  BY <1>2, <1>4
<1>6. Len(r) = Len(q)
  <2>1. ASSUME Len(r) < Len(q) PROVE FALSE
    BY <1>1, <1>4, <1>5, <2>1, Len(q) \in 1 .. Len(q)
  <2>2. ASSUME Len(r) > Len(q) PROVE FALSE
    BY <1>1, <1>4, <1>5, <2>2, Len(r) \in 1 .. Len(r)
  <2> QED
    BY <2>1, <2>2, <1>1, <1>4
<1> QED
  BY <1>3, <1>6

LEMMA MsgIn == ASSUME MsgsOK, NEW m \in DOMAIN msgs PROVE msgs[m] \in Msgs
BY DEF MsgsOK

LEMMA MsgsMapped ==
  ASSUME MsgsOK, msgs' \in [DOMAIN msgs -> Msgs]
  PROVE  MsgsOK'
BY SameLength DEF MsgsOK

LEMMA WithoutType == ASSUME NEW x \in Msgs, NEW c PROVE Without(x, c) \in Msgs
BY DEF Without, Msgs

LEMMA ForgiveType ==
  ASSUME MsgsOK, DraftOK, NEW c, Forgive(c) PROVE MsgsOK' /\ DraftOK'
<1>1. msgs' \in [DOMAIN msgs -> Msgs]
  BY WithoutType, MsgIn DEF Forgive
<1>2. NoDraft \in Msgs
  BY DEF NoDraft, Msgs
<1>3. draft' \in [Procs -> Msgs]
  BY <1>2, WithoutType DEF Forgive, DraftOK
<1> QED
  BY <1>1, <1>3, MsgsMapped DEF DraftOK

LEMMA PollType == ASSUME MsgsOK, NEW p \in Procs, Poll(p) PROVE MsgsOK'
<1>1. \A x \in Msgs : [unread |-> x.unread \ {slot[p]}, due |-> x.due \ {p}] \in Msgs
  BY DEF Msgs
<1>2. msgs' \in [DOMAIN msgs -> Msgs]
  BY <1>1, MsgIn DEF Poll
<1> QED
  BY <1>2, MsgsMapped

LEMMA DraftType ==
  ASSUME DraftOK, NEW p \in Procs, Mask(p) \/ Add(p) PROVE DraftOK'
<1>1. NoDraft \in Msgs
  BY DEF NoDraft, Msgs
<1>2. [unread |-> Active, due |-> {q \in Procs : Member(q)}] \in Msgs
  BY DEF Active, Msgs
<1> QED
  BY <1>1, <1>2 DEF DraftOK, Mask, Add, Set

LEMMA AddType == ASSUME MsgsOK, DraftOK, NEW p \in Procs, Add(p) PROVE MsgsOK'
<1>1. Entries \in Nat /\ Len(msgs) \in Nat
  BY Constants DEF MsgsOK
<1>2. CASE Len(msgs) < Entries
  <2>1. msgs' = Append(msgs, draft[p]) /\ draft[p] \in Msgs
    BY <1>2 DEF Add, DraftOK
  <2>2. msgs' \in Seq(Msgs) /\ Len(msgs') = Len(msgs) + 1
    BY <2>1 DEF MsgsOK
  <2> QED
    BY <1>1, <1>2, <2>2 DEF MsgsOK
<1>3. CASE ~ (Len(msgs) < Entries)
  BY <1>3 DEF Add, MsgsOK
<1> QED
  BY <1>2, <1>3

LEMMA TableStep ==
  ASSUME TypeOK, [Next]_vars
  PROVE  TableOK'
<1>0. TableOK /\ ThreadsOK
  BY TypeParts
<1> USE DEF Goto, Set, directory, check, locals, TableOK
<1>1. ASSUME UNCHANGED vars PROVE TableOK'
  BY <1>1, <1>0, Constants DEF vars
<1>2. ASSUME Tick PROVE TableOK'
  BY <1>2, <1>0, Constants DEF Tick
<1>3. ASSUME NEW p \in Procs, Enter(p) PROVE TableOK'
  BY <1>3, <1>0, Constants DEF Enter
<1>4. ASSUME NEW p \in Procs, SetStatus(p) PROVE TableOK'
  BY <1>4, <1>0, Constants DEF SetStatus
<1>5. ASSUME NEW p \in Procs, Stamp(p) PROVE TableOK'
  BY <1>5, <1>0, Constants DEF Stamp
<1>6. ASSUME NEW p \in Procs, Joined(p) PROVE TableOK'
  <2>1. 1 \in 0 .. Word - 1
    BY <1>0, Constants
  <2>2. count + 1 \in Nat
    BY <1>0, Constants
  <2>3. (count + 1) % Word \in 0 .. Word - 1
    BY <2>2, Remainders
  <2> QED
    BY <1>6, <1>0, <2>1, <2>3 DEF Joined
<1>7. ASSUME NEW p \in Procs, Send(p) PROVE TableOK'
  BY <1>7, <1>0, Constants DEF Send
<1>8. ASSUME NEW p \in Procs, Add(p) PROVE TableOK'
  BY <1>8, <1>0, Constants DEF Add
<1>9. ASSUME NEW p \in Procs, Poll(p) PROVE TableOK'
  BY <1>9, <1>0, Constants DEF Poll
<1>10. ASSUME NEW c \in Clients, FindSlot(c) PROVE TableOK'
  BY <1>10, <1>0, Constants DEF FindSlot
<1>11. ASSUME NEW c \in Clients, CheckName(c) PROVE TableOK'
  BY <1>11, <1>0, Constants DEF CheckName
<1>12. ASSUME NEW c \in Clients, Leave(c) PROVE TableOK'
  BY <1>12, <1>0, Constants DEF Leave, Forgive
<1>13. ASSUME NEW c \in Clients, LeaveCount(c) PROVE TableOK'
  BY <1>13, <1>0, Constants, Remainders DEF LeaveCount
<1>14. ASSUME NEW c \in Clients, Interrupt(c) PROVE TableOK'
  BY <1>14, <1>0, Constants DEF Interrupt, Forgive
<1>15. ASSUME NEW c \in Clients, Kill(c) PROVE TableOK'
  BY <1>15, <1>0, Constants DEF Kill, Forgive, Dead
<1>16. ASSUME NEW c \in Clients, NEW to \in {"live", "leave"}, Say(c, to) PROVE TableOK'
  BY <1>16, <1>0, Constants DEF Say
<1>17. ASSUME CheckStart PROVE TableOK'
  BY <1>17, <1>0, Constants DEF CheckStart
<1>18. ASSUME Disconnect PROVE TableOK'
  BY <1>18, <1>0, Constants, MinSlot DEF Disconnect
<1>19. ASSUME CheckEnd PROVE TableOK'
  BY <1>19, <1>0, Constants DEF CheckEnd
<1>20. ASSUME Uncount PROVE TableOK'
  BY <1>20, <1>0, Constants, Remainders DEF Uncount
<1>21. ASSUME NEW p \in Procs, Mask(p) PROVE TableOK'
  BY <1>21, <1>0, Constants DEF Mask
<1> QED
  BY <1>1, <1>2, <1>3, <1>4, <1>5, <1>6, <1>7, <1>8, <1>9, <1>10, <1>11, <1>12, <1>13,
     <1>14, <1>15, <1>16, <1>17, <1>18, <1>19, <1>20, <1>21 DEF Next, Going, Leaving, Checking

LEMMA ThreadsStep ==
  ASSUME TypeOK, [Next]_vars
  PROVE  ThreadsOK'
<1>0. ThreadsOK
  BY TypeParts
<1> USE DEF Goto, Set, directory, check, locals, ThreadsOK, PCs
<1>1. ASSUME UNCHANGED vars PROVE ThreadsOK'
  BY <1>1, <1>0, Constants DEF vars
<1>2. ASSUME Tick PROVE ThreadsOK'
  BY <1>2, <1>0, Constants DEF Tick
<1>3. ASSUME NEW p \in Procs, Enter(p) PROVE ThreadsOK'
  BY <1>3, <1>0, Constants DEF Enter
<1>4. ASSUME NEW p \in Procs, SetStatus(p) PROVE ThreadsOK'
  BY <1>4, <1>0, Constants DEF SetStatus
<1>5. ASSUME NEW p \in Procs, Stamp(p) PROVE ThreadsOK'
  BY <1>5, <1>0, Constants DEF Stamp
<1>6. ASSUME NEW p \in Procs, Joined(p) PROVE ThreadsOK'
  BY <1>6, <1>0, Constants DEF Joined
<1>7. ASSUME NEW p \in Procs, Send(p) PROVE ThreadsOK'
  BY <1>7, <1>0, Constants DEF Send
<1>8. ASSUME NEW p \in Procs, Add(p) PROVE ThreadsOK'
  BY <1>8, <1>0, Constants DEF Add
<1>9. ASSUME NEW p \in Procs, Poll(p) PROVE ThreadsOK'
  BY <1>9, <1>0, Constants DEF Poll
<1>10. ASSUME NEW c \in Clients, FindSlot(c) PROVE ThreadsOK'
  BY <1>10, <1>0, Constants, MinSlot DEF FindSlot
<1>11. ASSUME NEW c \in Clients, CheckName(c) PROVE ThreadsOK'
  BY <1>11, <1>0, Constants DEF CheckName
<1>12. ASSUME NEW c \in Clients, Leave(c) PROVE ThreadsOK'
  BY <1>12, <1>0, Constants DEF Leave, Forgive
<1>13. ASSUME NEW c \in Clients, LeaveCount(c) PROVE ThreadsOK'
  BY <1>13, <1>0, Constants DEF LeaveCount
<1>14. ASSUME NEW c \in Clients, Interrupt(c) PROVE ThreadsOK'
  BY <1>14, <1>0, Constants DEF Interrupt, Forgive
<1>15. ASSUME NEW c \in Clients, Kill(c) PROVE ThreadsOK'
  BY <1>15, <1>0, Constants DEF Kill, Forgive, Dead
<1>16. ASSUME NEW c \in Clients, NEW to \in {"live", "leave"}, Say(c, to) PROVE ThreadsOK'
  BY <1>16, <1>0, Constants DEF Say
<1>17. ASSUME CheckStart PROVE ThreadsOK'
  BY <1>17, <1>0, Constants DEF CheckStart
<1>18. ASSUME Disconnect PROVE ThreadsOK'
  BY <1>18, <1>0, Constants DEF Disconnect
<1>19. ASSUME CheckEnd PROVE ThreadsOK'
  BY <1>19, <1>0, Constants DEF CheckEnd
<1>20. ASSUME Uncount PROVE ThreadsOK'
  BY <1>20, <1>0, Constants DEF Uncount
<1>21. ASSUME NEW p \in Procs, Mask(p) PROVE ThreadsOK'
  BY <1>21, <1>0, Constants DEF Mask
<1> QED
  BY <1>1, <1>2, <1>3, <1>4, <1>5, <1>6, <1>7, <1>8, <1>9, <1>10, <1>11, <1>12, <1>13,
     <1>14, <1>15, <1>16, <1>17, <1>18, <1>19, <1>20, <1>21 DEF Next, Going, Leaving, Checking

LEMMA MsgsStep ==
  ASSUME TypeOK, [Next]_vars PROVE MsgsOK' /\ DraftOK'
<1>1. MsgsOK /\ DraftOK
  BY TypeParts
<1>2. ASSUME NEW c, Forgive(c) PROVE MsgsOK' /\ DraftOK'
  BY <1>1, <1>2, ForgiveType
<1>3. ASSUME NEW p \in Procs, Poll(p) PROVE MsgsOK' /\ DraftOK'
  BY <1>1, <1>3, PollType DEF Poll, DraftOK
<1>4. ASSUME NEW p \in Procs, Add(p) PROVE MsgsOK' /\ DraftOK'
  BY <1>1, <1>4, AddType, DraftType
<1>5. ASSUME NEW p \in Procs, Mask(p) PROVE MsgsOK' /\ DraftOK'
  BY <1>1, <1>5, DraftType DEF Mask, MsgsOK
<1>6. ASSUME UNCHANGED messages PROVE MsgsOK' /\ DraftOK'
  BY <1>1, <1>6 DEF MsgsOK, DraftOK, messages
<1>7. \/ UNCHANGED messages
      \/ \E c \in Clients : Forgive(c)
      \/ \E p \in Procs : Poll(p) \/ Add(p) \/ Mask(p)
  BY DEF vars, directory, locals, check, messages, Next, Going, Leaving, Checking, Tick,
     Enter, SetStatus, Stamp, Joined, Send, FindSlot, CheckName, Leave, LeaveCount,
     Interrupt, Kill, Say, CheckStart, Disconnect, CheckEnd, Uncount
<1> QED
  BY <1>2, <1>3, <1>4, <1>5, <1>6, <1>7

\* What has met has, and who is robbed stays so.
LEMMA HistorySteps ==
  ASSUME [Next]_vars
  PROVE  \/ met' = met /\ robbed' = robbed
         \/ \E c \in Clients : FindSlot(c)
         \/ Disconnect /\ met' = met
BY DEF vars, history, Next, Going, Leaving, Checking, Tick, Enter, SetStatus, Stamp,
   Joined, Send, Mask, Add, Poll, CheckName, Leave, LeaveCount, Interrupt, Kill, Say,
   CheckStart, Disconnect, CheckEnd, Uncount

LEMMA HistoryGrows ==
  ASSUME [Next]_vars PROVE met \subseteq met' /\ robbed \subseteq robbed'
<1>1. ASSUME NEW c \in Clients, FindSlot(c) PROVE met \subseteq met' /\ robbed \subseteq robbed'
  BY <1>1 DEF FindSlot
<1>2. ASSUME Disconnect PROVE robbed \subseteq robbed'
  BY <1>2 DEF Disconnect
<1> QED
  BY <1>1, <1>2, HistorySteps

LEMMA HistoryStep ==
  ASSUME HistoryOK, [Next]_vars PROVE HistoryOK'
<1>1. ASSUME NEW c \in Clients, FindSlot(c) PROVE HistoryOK'
  <2>1. c \in Procs
    BY Constants
  <2>2. {{c, p} : p \in {q \in Procs : Registering(q)}} \subseteq SUBSET Procs
    BY <2>1
  <2>3. Sharing(Min(Free)) \subseteq Procs
    BY DEF Sharing
  <2>4. met' \subseteq SUBSET Procs
    BY <1>1, <2>2 DEF FindSlot, HistoryOK
  <2>5. robbed' \subseteq Procs
    BY <1>1, <2>1, <2>3 DEF FindSlot, HistoryOK
  <2> QED
    BY <2>4, <2>5 DEF HistoryOK
<1>2. ASSUME Disconnect PROVE robbed' \subseteq Procs
  BY <1>2 DEF Disconnect, HistoryOK
<1> QED
  BY <1>1, <1>2, HistorySteps DEF HistoryOK

LEMMA TypeStep == ASSUME TypeOK, [Next]_vars PROVE TypeOK'
BY TypeParts, TableStep, ThreadsStep, MsgsStep, HistoryStep
DEF TableOK, ThreadsOK, MsgsOK, DraftOK, HistoryOK, Msgs, TypeOK

LEMMA TypeInit == Init => TypeOK
<1> SUFFICES ASSUME Init PROVE TypeOK
  OBVIOUS
<1>1. TableOK
  BY Constants DEF Init, TableOK
<1>2. ThreadsOK
  BY Constants DEF Init, ThreadsOK, PCs
<1>3. MsgsOK /\ DraftOK /\ HistoryOK
  BY Constants DEF Init, MsgsOK, DraftOK, HistoryOK, NoDraft, Msgs
<1> QED
  BY <1>1, <1>2, <1>3, TypeParts

(* Every variable stays within the values its C type, or its part in the
   program, admits. *)
THEOREM TypeCorrect == Spec => []TypeOK
<1>1. TypeOK /\ [Next]_vars => TypeOK'
  BY TypeStep
<1> QED
  BY <1>1, TypeInit, PTL DEF Spec

-----------------------------------------------------------------------------
(* Which action changes what. *)
LEMMA TableEffects ==
  ASSUME [Next]_vars
  PROVE  /\ nick' = nick
         /\ who' = who \/ \E p \in Procs : Enter(p)
         /\ \/ status' = status
            \/ \E p \in Procs : SetStatus(p)
            \/ \E c \in Clients : Leave(c)
            \/ Disconnect
         /\ last' = last \/ \E p \in Procs : Stamp(p) \/ Send(p) \/ Poll(p)
         /\ \/ count' = count
            \/ \E p \in Procs : Joined(p)
            \/ \E c \in Clients : LeaveCount(c)
            \/ Uncount
         /\ now' = now \/ Tick
         /\ mark' = mark \/ CheckStart \/ CheckEnd
BY DEF vars, directory, locals, check, Next, Going, Leaving, Checking, Tick, Enter,
   SetStatus, Stamp, Joined, Send, Mask, Add, Poll, FindSlot, CheckName, Leave, LeaveCount,
   Interrupt, Kill, Say, CheckStart, Disconnect, CheckEnd, Uncount

(* How a process comes to a state, with the place it had or another one. *)
Stays(p, x) == pc[p] = x /\ slot'[p] = slot[p]
Arrives(p) ==
  /\ pc'[p] = "check" => Stays(p, "check") \/ (p \in Clients /\ FindSlot(p))
  /\ pc'[p] = "enter" => Stays(p, "enter") \/ (p \in Clients /\ CheckName(p))
  /\ pc'[p] = "status" => Stays(p, "status") \/ Enter(p)
  /\ pc'[p] = "stamp" => Stays(p, "stamp") \/ SetStatus(p)
  /\ pc'[p] = "count" => Stays(p, "count") \/ Stamp(p)
  /\ pc'[p] = "leave_count" => Stays(p, "leave_count") \/ (p \in Clients /\ Leave(p))
  /\ pc'[p] = "uncount" => Stays(p, "uncount") \/ (p = Server /\ Disconnect)
  /\ Member(p)' => slot'[p] = slot[p] /\ (Member(p) \/ Joined(p))
  /\ pc[p] = "torn" => pc'[p] = "torn"
  /\ pc[p] = "out" => pc'[p] = "out" \/ FindSlot(p)
  /\ pc'[p] = "out" => pc[p] = "out" \/ (Add(p) /\ next[p] = "out")

(* The parts of TypeOK that follow the processes. *)
Typed == /\ pc \in [Procs -> PCs] /\ slot \in [Procs -> Slots \cup {None}]
         /\ next \in [Procs -> {"out", "live", "leave", "scan"}]

LEMMA ArrivesStep ==
  ASSUME Typed, NEW q \in Procs, [Next]_vars
  PROVE  Arrives(q)
<1> USE DEF Goto, Set, directory, check, locals, Typed, Arrives, Stays, Member, Registering,
    vars
<1>1. ASSUME UNCHANGED vars PROVE Arrives(q)
  BY <1>1, Constants DEF vars
<1>2. ASSUME Tick PROVE Arrives(q)
  BY <1>2, Constants DEF Tick
<1>3. ASSUME NEW p \in Procs, Enter(p) PROVE Arrives(q)
  BY <1>3, Constants DEF Enter
<1>4. ASSUME NEW p \in Procs, SetStatus(p) PROVE Arrives(q)
  BY <1>4, Constants DEF SetStatus
<1>5. ASSUME NEW p \in Procs, Stamp(p) PROVE Arrives(q)
  BY <1>5, Constants DEF Stamp
<1>6. ASSUME NEW p \in Procs, Joined(p) PROVE Arrives(q)
  BY <1>6, Constants DEF Joined
<1>7. ASSUME NEW p \in Procs, Send(p) PROVE Arrives(q)
  BY <1>7, Constants DEF Send
<1>8. ASSUME NEW p \in Procs, Add(p) PROVE Arrives(q)
  BY <1>8, Constants DEF Add
<1>9. ASSUME NEW p \in Procs, Poll(p) PROVE Arrives(q)
  BY <1>9, Constants DEF Poll
<1>10. ASSUME NEW c \in Clients, FindSlot(c) PROVE Arrives(q)
  <2>1. /\ pc[c] = "out" /\ pc' = [pc EXCEPT ![c] = "check"]
        /\ slot' = [slot EXCEPT ![c] = Min(Free)]
    BY <1>10 DEF FindSlot
  <2>2. CASE q = c
    BY <1>10, <2>1, <2>2
  <2>3. CASE q # c
    BY <2>1, <2>3
  <2> QED
    BY <2>2, <2>3
<1>11. ASSUME NEW c \in Clients, CheckName(c) PROVE Arrives(q)
  BY <1>11, Constants DEF CheckName
<1>12. ASSUME NEW c \in Clients, Leave(c) PROVE Arrives(q)
  BY <1>12, Constants DEF Leave, Forgive
<1>13. ASSUME NEW c \in Clients, LeaveCount(c) PROVE Arrives(q)
  BY <1>13, Constants DEF LeaveCount
<1>14. ASSUME NEW c \in Clients, Interrupt(c) PROVE Arrives(q)
  BY <1>14, Constants DEF Interrupt, Forgive
<1>15. ASSUME NEW c \in Clients, Kill(c) PROVE Arrives(q)
  BY <1>15, Constants DEF Kill, Forgive, Dead
<1>16. ASSUME NEW c \in Clients, NEW to \in {"live", "leave"}, Say(c, to) PROVE Arrives(q)
  BY <1>16, Constants DEF Say
<1>17. ASSUME CheckStart PROVE Arrives(q)
  BY <1>17, Constants DEF CheckStart
<1>18. ASSUME Disconnect PROVE Arrives(q)
  BY <1>18, Constants DEF Disconnect
<1>19. ASSUME CheckEnd PROVE Arrives(q)
  BY <1>19, Constants DEF CheckEnd
<1>20. ASSUME Uncount PROVE Arrives(q)
  BY <1>20, Constants DEF Uncount
<1>21. ASSUME NEW p \in Procs, Mask(p) PROVE Arrives(q)
  BY <1>21, Constants DEF Mask
<1> QED
  BY <1>1, <1>2, <1>3, <1>4, <1>5, <1>6, <1>7, <1>8, <1>9, <1>10, <1>11, <1>12, <1>13,
     <1>14, <1>15, <1>16, <1>17, <1>18, <1>19, <1>20, <1>21 DEF Next, Going, Leaving, Checking

LEMMA PlacesStep ==
  ASSUME Typed, NEW q \in Procs, Places(q), [Next]_vars
  PROVE  Places(q)'
<1> USE DEF Goto, Set, directory, check, locals, Typed, Places, ServerPCs, ClientPCs,
    Placeless, PCs, vars
<1>1. ASSUME UNCHANGED vars PROVE Places(q)'
  BY <1>1, Constants DEF vars
<1>2. ASSUME Tick PROVE Places(q)'
  BY <1>2, Constants DEF Tick
<1>3. ASSUME NEW p \in Procs, Enter(p) PROVE Places(q)'
  BY <1>3, Constants DEF Enter
<1>4. ASSUME NEW p \in Procs, SetStatus(p) PROVE Places(q)'
  BY <1>4, Constants DEF SetStatus
<1>5. ASSUME NEW p \in Procs, Stamp(p) PROVE Places(q)'
  BY <1>5, Constants DEF Stamp
<1>6. ASSUME NEW p \in Procs, Joined(p) PROVE Places(q)'
  BY <1>6, Constants DEF Joined
<1>7. ASSUME NEW p \in Procs, Send(p) PROVE Places(q)'
  BY <1>7, Constants DEF Send
<1>8. ASSUME NEW p \in Procs, Add(p) PROVE Places(q)'
  BY <1>8, Constants DEF Add
<1>9. ASSUME NEW p \in Procs, Poll(p) PROVE Places(q)'
  BY <1>9, Constants DEF Poll
<1>10. ASSUME NEW c \in Clients, FindSlot(c) PROVE Places(q)'
  BY <1>10, Constants, MinSlot DEF FindSlot
<1>11. ASSUME NEW c \in Clients, CheckName(c) PROVE Places(q)'
  BY <1>11, Constants DEF CheckName
<1>12. ASSUME NEW c \in Clients, Leave(c) PROVE Places(q)'
  BY <1>12, Constants DEF Leave, Forgive
<1>13. ASSUME NEW c \in Clients, LeaveCount(c) PROVE Places(q)'
  BY <1>13, Constants DEF LeaveCount
<1>14. ASSUME NEW c \in Clients, Interrupt(c) PROVE Places(q)'
  BY <1>14, Constants DEF Interrupt, Forgive
<1>15. ASSUME NEW c \in Clients, Kill(c) PROVE Places(q)'
  BY <1>15, Constants DEF Kill, Forgive, Dead
<1>16. ASSUME NEW c \in Clients, NEW to \in {"live", "leave"}, Say(c, to) PROVE Places(q)'
  BY <1>16, Constants DEF Say
<1>17. ASSUME CheckStart PROVE Places(q)'
  BY <1>17, Constants DEF CheckStart
<1>18. ASSUME Disconnect PROVE Places(q)'
  BY <1>18, Constants DEF Disconnect
<1>19. ASSUME CheckEnd PROVE Places(q)'
  BY <1>19, Constants DEF CheckEnd
<1>20. ASSUME Uncount PROVE Places(q)'
  BY <1>20, Constants DEF Uncount
<1>21. ASSUME NEW p \in Procs, Mask(p) PROVE Places(q)'
  BY <1>21, Constants DEF Mask
<1> QED
  BY <1>1, <1>2, <1>3, <1>4, <1>5, <1>6, <1>7, <1>8, <1>9, <1>10, <1>11, <1>12, <1>13,
     <1>14, <1>15, <1>16, <1>17, <1>18, <1>19, <1>20, <1>21 DEF Next, Going, Leaving, Checking

-----------------------------------------------------------------------------
(* The places. *)
LEMMA Indexed ==
  ASSUME TypeOK, NEW p \in Procs, Places(p)
  PROVE  /\ Sits(p) => slot[p] \in Slots
         /\ Registering(p) => Sits(p)
         /\ Sits(p) /\ ~Registering(p) => Member(p)
         /\ Member(p) => Sits(p) /\ ~Inactive(p) /\ ~Nameless(p)
         /\ pc[p] \in {"send", "mask", "add", "live", "leave", "scan", "uncount"} => Member(p)
         /\ p = Server => slot[p] = 0 /\ pc[p] \notin {"check", "out", "leave", "leave_count"}
BY Constants
DEF Places, TypeOK, Sits, Registering, Member, Inactive, Nameless, Placeless, ServerPCs,
   ClientPCs, PCs

\* Who sits has sat there before, or has just found the place; its status is
\* stored in a step of its own, and so is its entry.
LEMMA StillSits ==
  ASSUME TypeOK, [Next]_vars, NEW p \in Procs, Places(p), Sits(p)'
  PROVE  \/ p \in Clients /\ FindSlot(p) /\ pc'[p] = "check"
         \/ /\ Sits(p) /\ slot'[p] = slot[p]
            /\ Registering(p)' => Registering(p)
            /\ SetStatus(p) => Inactive(p) /\ ~Inactive(p)'
            /\ ~SetStatus(p) => (Inactive(p)' <=> Inactive(p))
            /\ Enter(p) => Nameless(p) /\ ~Nameless(p)'
            /\ ~Enter(p) => (Nameless(p)' <=> Nameless(p))
<1>1. Arrives(p)
  BY ArrivesStep DEF TypeOK, Typed
<1>2. ASSUME p \in Clients, FindSlot(p) PROVE pc'[p] = "check"
  BY <1>2 DEF FindSlot, Goto, TypeOK
<1>3. ASSUME SetStatus(p)
      PROVE  pc[p] = "status" /\ pc'[p] = "stamp" /\ slot' = slot
  BY <1>3 DEF SetStatus, Goto, locals, TypeOK
<1>4. ASSUME Enter(p)
      PROVE  pc[p] = "enter" /\ pc'[p] = "status" /\ slot' = slot
  BY <1>4 DEF Enter, Goto, locals, TypeOK
<1>5. ASSUME p \in Clients, CheckName(p), pc'[p] = "enter"
      PROVE  pc[p] = "check" /\ slot' = slot
  BY <1>5 DEF CheckName, Goto, TypeOK
<1>6. ASSUME Stamp(p)
      PROVE  pc[p] = "stamp" /\ pc'[p] = "count" /\ slot' = slot
  BY <1>6 DEF Stamp, Goto, locals, TypeOK
<1>7. ASSUME Joined(p)
      PROVE  pc[p] = "count" /\ pc'[p] = "send" /\ slot' = slot
  BY <1>7 DEF Joined, Goto, TypeOK
<1>8. CASE p \in Clients /\ FindSlot(p)
  BY <1>2, <1>8
<1>9. CASE Registering(p)' /\ ~(p \in Clients /\ FindSlot(p))
  BY <1>1, <1>3, <1>4, <1>5, <1>6, <1>9, Indexed
  DEF Arrives, Stays, Registering, Sits, Inactive, Nameless
<1>10. CASE Member(p)'
  <2>1. slot'[p] = slot[p] /\ (Member(p) \/ Joined(p))
    BY <1>1, <1>10 DEF Arrives
  <2>2. ~Inactive(p) /\ ~Nameless(p) /\ Sits(p)
    BY <2>1, <1>7, Indexed DEF Inactive, Nameless, Sits, Registering
  <2>3. ~Inactive(p)' /\ ~Nameless(p)' /\ ~Registering(p)'
    BY <1>10 DEF Member, Registering, Inactive, Nameless
  <2>4. ~SetStatus(p) /\ ~Enter(p)
    BY <1>3, <1>4, <2>2 DEF Inactive, Nameless
  <2> QED
    BY <2>1, <2>2, <2>3, <2>4
<1> QED
  BY <1>8, <1>9, <1>10 DEF Sits

LEMMA MeetsStep ==
  ASSUME SeatInv, [Next]_vars PROVE Meets'
<1> SUFFICES ASSUME NEW p \in Procs, NEW q \in Procs, p # q, Registering(p)', Registering(q)'
             PROVE  {p, q} \in met'
  BY DEF Meets
<1>1. Sits(p)' /\ Sits(q)'
  BY DEF Sits
<1>2. ASSUME NEW c \in Clients, NEW x \in Procs, x # c, FindSlot(c), Registering(x)'
      PROVE  {c, x} \in met'
  <2>1. Registering(x)
    BY <1>2 DEF FindSlot, Goto, Registering, SeatInv, TypeOK
  <2> QED
    BY <1>2, <2>1 DEF FindSlot
<1>3. CASE p \in Clients /\ FindSlot(p)
  BY <1>2, <1>3
<1>4. CASE q \in Clients /\ FindSlot(q)
  <2>1. {q, p} \in met'
    BY <1>2, <1>4
  <2> QED
    BY <2>1
<1>5. CASE ~(p \in Clients /\ FindSlot(p)) /\ ~(q \in Clients /\ FindSlot(q))
  <2>1. Registering(p) /\ Registering(q)
    BY <1>1, <1>5, StillSits DEF SeatInv
  <2> QED
    BY <2>1, HistoryGrows DEF SeatInv, Meets
<1> QED
  BY <1>3, <1>4, <1>5

\* A free place that somebody sits in is one that it is about to register in,
\* or has lost.
LEMMA SatIn ==
  ASSUME SeatInv, NEW p \in Procs, Sits(p), NEW s \in Slots, ~status[s], slot[p] = s
  PROVE  p \in Sharing(s)
<1>1. Registering(p) \/ p \in robbed
  BY Indexed DEF SeatInv, Holding
<1> QED
  BY <1>1 DEF Sharing

LEMMA SharesStep ==
  ASSUME SeatInv, [Next]_vars PROVE Shares'
<1> SUFFICES ASSUME NEW p \in Procs, NEW q \in Procs, p # q, Sits(p)', Sits(q)',
                    slot'[p] = slot'[q]
             PROVE  p \in robbed'
  BY DEF Shares
<1>1. ASSUME NEW c \in Clients, NEW x \in Procs, x # c, FindSlot(c), Sits(x)',
             slot'[x] = slot'[c]
      PROVE  c \in robbed' /\ x \in robbed'
  <2>1. /\ slot'[c] = Min(Free) /\ slot'[x] = slot[x] /\ pc'[x] = pc[x]
        /\ Min(Free) \in Slots /\ ~status[Min(Free)]
    <3>1. Free # {} /\ slot' = Set(slot, c, Min(Free)) /\ Goto(c, "out", "check")
      BY <1>1 DEF FindSlot
    <3>2. Min(Free) \in Slots /\ ~status[Min(Free)]
      BY <3>1, MinSlot
    <3>3. DOMAIN slot = Procs /\ slot = [y \in Procs |-> slot[y]] /\ c \in Procs
      BY <1>1, Constants DEF SeatInv, TypeOK
    <3>4. DOMAIN pc = Procs /\ pc = [y \in Procs |-> pc[y]]
      BY DEF SeatInv, TypeOK
    <3> QED
      BY <1>1, <3>1, <3>2, <3>3, <3>4 DEF Set, Goto
  <2>2. Sits(x)
    BY <1>1, <2>1 DEF Sits, Member, Registering
  <2>3. x \in Sharing(Min(Free))
    BY <1>1, <2>1, <2>2, SatIn
  <2> QED
    BY <1>1, <2>3 DEF FindSlot
<1>2. CASE p \in Clients /\ FindSlot(p)
  BY <1>1, <1>2
<1>3. CASE q \in Clients /\ FindSlot(q)
  BY <1>1, <1>3
<1>4. CASE ~(p \in Clients /\ FindSlot(p)) /\ ~(q \in Clients /\ FindSlot(q))
  <2>1. Sits(p) /\ Sits(q) /\ slot[p] = slot[q]
    BY <1>4, StillSits DEF SeatInv
  <2> QED
    BY <2>1, HistoryGrows DEF SeatInv, Shares
<1> QED
  BY <1>2, <1>3, <1>4

\* Whose step it is that changes a status.
LEMMA StatusChange ==
  ASSUME TypeOK, [Next]_vars, NEW s \in Slots, status'[s] # status[s]
  PROVE  \/ \E p \in Procs : SetStatus(p) /\ s = slot[p] /\ status'[s]
         \/ \E c \in Clients : Leave(c) /\ s = slot[c] /\ ~status'[s]
         \/ Disconnect /\ s = Min(Gone) /\ ~status'[s]
<1>1. ASSUME NEW p \in Procs, SetStatus(p) PROVE s = slot[p] /\ status'[s]
  BY <1>1 DEF SetStatus, Set, TypeOK
<1>2. ASSUME NEW c \in Clients, Leave(c) PROVE s = slot[c] /\ ~status'[s]
  BY <1>2 DEF Leave, Set, TypeOK
<1>3. ASSUME Disconnect PROVE s = Min(Gone) /\ ~status'[s]
  BY <1>3 DEF Disconnect, Set, TypeOK
<1> QED
  BY <1>1, <1>2, <1>3, TableEffects

LEMMA WhoChange ==
  ASSUME TypeOK, [Next]_vars, NEW s \in Slots, who'[s] # who[s]
  PROVE  \E p \in Procs : Enter(p) /\ s = slot[p] /\ who'[s] = p
<1>1. ASSUME NEW p \in Procs, Enter(p) PROVE s = slot[p] /\ who'[s] = p
  BY <1>1 DEF Enter, Set, TypeOK
<1> QED
  BY <1>1, TableEffects

LEMMA HoldingStep ==
  ASSUME SeatInv, [Next]_vars, NEW p \in Procs PROVE Holding(p)'
<1> SUFFICES ASSUME p \notin robbed', Sits(p)'
             PROVE  /\ status'[slot'[p]] <=> ~Inactive(p)'
                    /\ ~Nameless(p)' => who'[slot'[p]] = p
  BY DEF Holding
<1>1. p \notin robbed
  BY HistoryGrows
<1>2. CASE p \in Clients /\ FindSlot(p) /\ pc'[p] = "check"
  <2>1. slot'[p] = Min(Free) /\ status' = status
    BY <1>2, Constants DEF FindSlot, Set, directory, SeatInv, TypeOK
  <2>2. ~status[Min(Free)]
    BY <1>2, MinSlot DEF FindSlot
  <2> QED
    BY <1>2, <2>1, <2>2 DEF Inactive, Nameless
<1>3. CASE ~(p \in Clients /\ FindSlot(p) /\ pc'[p] = "check")
  <2> DEFINE s == slot[p]
  <2>1. /\ Sits(p) /\ slot'[p] = s
        /\ SetStatus(p) => ~Inactive(p)'
        /\ ~SetStatus(p) => (Inactive(p)' <=> Inactive(p))
        /\ ~Enter(p) => (Nameless(p)' <=> Nameless(p))
    BY <1>3, StillSits DEF SeatInv
  <2>2. s \in Slots /\ (status[s] <=> ~Inactive(p)) /\ (~Nameless(p) => who[s] = p)
    BY <1>1, <2>1, Indexed DEF SeatInv, Holding
  <2>3. ASSUME NEW q \in Procs, Sits(q), slot[q] = s PROVE q = p
    BY <1>1, <2>1, <2>3 DEF SeatInv, Shares
  <2>4. ASSUME NEW q \in Procs, SetStatus(q), slot[q] = s PROVE q = p
    BY <2>3, <2>4 DEF SetStatus, Goto, Sits, Registering
  <2>5. ASSUME NEW q \in Procs, Enter(q), slot[q] = s PROVE q = p
    BY <2>3, <2>5 DEF Enter, Goto, Sits, Registering
  <2>6. ASSUME NEW c \in Clients, Leave(c) PROVE slot[c] # s
    <3>1. c \in Procs /\ pc[c] = "leave" /\ pc'[c] = "leave_count" /\ Sits(c)
      BY <2>6, Constants, Indexed DEF Leave, Goto, SeatInv, TypeOK
    <3>2. ~Sits(c)'
      BY <3>1 DEF Sits, Member, Registering
    <3> QED
      BY <2>3, <3>1, <3>2
  <2>7. ASSUME Disconnect PROVE Min(Gone) # s
    BY <2>1, <2>7 DEF Disconnect
  <2>8. CASE SetStatus(p)
    <3>1. status'[s] /\ ~Enter(p) /\ who' = who
      BY <2>2, <2>8 DEF SetStatus, Enter, Goto, Set, SeatInv, TypeOK
    <3> QED
      BY <2>1, <2>2, <2>8, <3>1
  <2>9. CASE ~SetStatus(p)
    <3>1. status'[s] = status[s]
      BY <2>2, <2>4, <2>6, <2>7, <2>9, StatusChange DEF SeatInv
    <3>2. CASE Enter(p)
      <4>1. who'[s] = p
        BY <2>2, <3>2 DEF Enter, Set, SeatInv, TypeOK
      <4> QED
        BY <2>1, <2>2, <2>9, <3>1, <4>1
    <3>3. CASE ~Enter(p)
      <4>1. who'[s] = who[s]
        BY <2>2, <2>5, <3>3, WhoChange DEF SeatInv
      <4> QED
        BY <2>1, <2>2, <2>9, <3>1, <3>3, <4>1
    <3> QED
      BY <3>2, <3>3
  <2> QED
    BY <2>8, <2>9
<1> QED
  BY <1>2, <1>3

LEMMA SeatStep == ASSUME SeatInv, [Next]_vars PROVE SeatInv'
<1>1. TypeOK'
  BY TypeStep DEF SeatInv
<1>2. \A p \in Procs : Places(p)'
  BY PlacesStep DEF SeatInv, TypeOK, Typed
<1> QED
  BY <1>1, <1>2, MeetsStep, SharesStep, HoldingStep DEF SeatInv

LEMMA SeatInit == Init => SeatInv
<1> SUFFICES ASSUME Init PROVE SeatInv
  OBVIOUS
<1>1. \A p \in Procs : pc[p] = IF p = Server THEN "enter" ELSE "out"
  BY DEF Init
<1>2. \A p \in Procs : slot[p] = IF p = Server THEN 0 ELSE None
  BY DEF Init
<1>3. \A p \in Procs : Sits(p) => p = Server
  BY <1>1, <1>2 DEF Sits, Member, Registering
<1>4. Meets /\ Shares
  BY <1>3 DEF Meets, Shares, Sits
<1>5. \A p \in Procs : Holding(p)
  BY <1>1, <1>2, <1>3, Constants DEF Init, Holding, Inactive, Nameless
<1>6. \A p \in Procs : Places(p)
  BY <1>1, <1>2, Constants DEF Places, ServerPCs, ClientPCs, Placeless, PCs
<1> QED
  BY <1>4, <1>5, <1>6, TypeInit DEF SeatInv

(* The inductive invariant about the places, on which the other two rest. *)
LEMMA SeatsKept == Spec => []SeatInv
<1>1. SeatInv /\ [Next]_vars => SeatInv'
  BY SeatStep
<1> QED
  BY <1>1, SeatInit, PTL DEF Spec

(* Whoever takes part has an active place that is its own, unless another
   process that registered found it free as well or check_participants took
   it away: no join, leave or death of others disturbs it. *)
THEOREM Seats == Spec => []Seated
<1>1. SeatInv => Seated
  BY Indexed DEF SeatInv, Holding, Seated
<1> QED
  BY <1>1, SeatsKept, PTL

-----------------------------------------------------------------------------
(* The names. *)

\* Who enters a place that is somebody's is robbed.
LEMMA WrittenStep ==
  ASSUME NamesInv, [Next]_vars, NEW p \in Procs PROVE Written(p)'
<1> SUFFICES ASSUME Sits(p)', ~Nameless(p)'
             PROVE  who'[slot'[p]] = p \/ who'[slot'[p]] \in robbed'
  BY DEF Written
<1>1. ~(p \in Clients /\ FindSlot(p) /\ pc'[p] = "check")
  BY DEF Nameless
<1>2. /\ Sits(p) /\ slot'[p] = slot[p] /\ slot[p] \in Slots
      /\ ~Enter(p) => ~Nameless(p)
  BY <1>1, StillSits, Indexed DEF NamesInv, SeatInv
<1>3. CASE Enter(p)
  <2>1. who'[slot[p]] = p
    BY <1>2, <1>3 DEF Enter, Set, NamesInv, SeatInv, TypeOK
  <2> QED
    BY <1>2, <2>1
<1>4. CASE ~Enter(p) /\ who'[slot[p]] = who[slot[p]]
  BY <1>2, <1>4, HistoryGrows DEF NamesInv, Written
<1>5. CASE ~Enter(p) /\ who'[slot[p]] # who[slot[p]]
  <2>1. PICK q \in Procs : Enter(q) /\ slot[p] = slot[q] /\ who'[slot[p]] = q
    BY <1>2, <1>5, WhoChange DEF NamesInv, SeatInv
  <2>2. q # p /\ Sits(q)
    BY <1>5, <2>1 DEF Enter, Goto, Sits, Registering
  <2>3. q \in robbed
    BY <1>2, <2>1, <2>2 DEF NamesInv, SeatInv, Shares
  <2> QED
    BY <1>2, <2>1, <2>3, HistoryGrows
<1> QED
  BY <1>3, <1>4, <1>5

LEMMA NoEntryStep ==
  ASSUME NamesInv, [Next]_vars, NEW p \in Procs PROVE NoEntry(p)'
<1> SUFFICES ASSUME pc'[p] \in {"out", "check", "enter"}, NEW s \in Slots PROVE who'[s] # p
  BY DEF NoEntry
<1>1. Arrives(p)
  BY ArrivesStep DEF NamesInv, SeatInv, TypeOK, Typed
<1>2. Add(p) => next[p] # "out"
  BY DEF Add, Goto, NamesInv, SeatInv, Places
<1>3. pc[p] \in {"out", "check", "enter"}
  <2>1. ASSUME p \in Clients, FindSlot(p) PROVE pc[p] = "out"
    BY <2>1 DEF FindSlot, Goto
  <2>2. ASSUME p \in Clients, CheckName(p) PROVE pc[p] = "check"
    BY <2>2 DEF CheckName, Goto
  <2> QED
    BY <1>1, <1>2, <2>1, <2>2 DEF Arrives, Stays
<1>4. who[s] # p
  BY <1>3 DEF NamesInv, NoEntry
<1>5. ~Enter(p)
  BY DEF Enter, Goto, NamesInv, SeatInv, TypeOK
<1>6. CASE who'[s] = who[s]
  BY <1>4, <1>6
<1>7. CASE who'[s] # who[s]
  BY <1>5, <1>7, WhoChange DEF NamesInv, SeatInv
<1> QED
  BY <1>6, <1>7

LEMMA OneEntryStep == ASSUME NamesInv, [Next]_vars PROVE OneEntry'
<1> SUFFICES ASSUME NEW s \in Slots, NEW t \in Slots, who'[s] = who'[t], who'[s] # NULL
             PROVE  s = t
  BY DEF OneEntry
<1>1. ASSUME NEW p \in Procs, Enter(p), NEW x \in Slots
      PROVE  who[x] # p /\ who'[x] = IF x = slot[p] THEN p ELSE who[x]
  BY <1>1 DEF Enter, Goto, Set, NamesInv, SeatInv, NoEntry, TypeOK
<1>2. CASE \E p \in Procs : Enter(p)
  <2>1. PICK p \in Procs : Enter(p)
    BY <1>2
  <2>2. /\ who[s] # p /\ who'[s] = IF s = slot[p] THEN p ELSE who[s]
        /\ who[t] # p /\ who'[t] = IF t = slot[p] THEN p ELSE who[t]
    BY <1>1, <2>1
  <2> QED
    BY <2>2 DEF NamesInv, OneEntry
<1>3. CASE who' = who
  BY <1>3 DEF NamesInv, OneEntry
<1> QED
  BY <1>2, <1>3, TableEffects

LEMMA OccupiedStep == ASSUME NamesInv, [Next]_vars PROVE Occupied'
<1> SUFFICES ASSUME NEW s \in Slots, status'[s] PROVE who'[s] \in Procs
  BY DEF Occupied
<1>1. CASE who'[s] # who[s]
  BY <1>1, WhoChange DEF NamesInv, SeatInv
<1>2. CASE who'[s] = who[s] /\ status'[s] = status[s]
  BY <1>2 DEF NamesInv, Occupied
<1>3. CASE who'[s] = who[s] /\ status'[s] # status[s]
  <2>1. PICK p \in Procs : SetStatus(p) /\ s = slot[p]
    BY <1>3, StatusChange DEF NamesInv, SeatInv
  <2>2. Sits(p) /\ ~Nameless(p)
    BY <2>1 DEF SetStatus, Goto, Sits, Registering, Nameless
  <2>3. who[s] = p \/ who[s] \in robbed
    BY <2>1, <2>2 DEF NamesInv, Written
  <2> QED
    BY <1>3, <2>3 DEF NamesInv, SeatInv, TypeOK
<1> QED
  BY <1>1, <1>2, <1>3

\* An active place whose entry is not robbed was so before, or its own process
\* has just stored the status.
LEMMA ActiveFrom ==
  ASSUME NamesInv, [Next]_vars, NEW s \in Slots, status'[s], who'[s] \notin robbed'
  PROVE  /\ who'[s] = who[s] /\ who[s] \notin robbed
         /\ status[s] \/ SetStatus(who[s])
<1>1. who'[s] \notin robbed
  BY HistoryGrows
<1>2. who'[s] = who[s]
  <2> SUFFICES ASSUME who'[s] # who[s] PROVE FALSE
    OBVIOUS
  <2>1. PICK p \in Procs : Enter(p) /\ s = slot[p] /\ who'[s] = p
    BY WhoChange DEF NamesInv, SeatInv
  <2>2. status[s] /\ Sits(p) /\ Inactive(p)
    BY <2>1 DEF Enter, Goto, Sits, Registering, Inactive
  <2> QED
    BY <1>1, <2>1, <2>2 DEF NamesInv, SeatInv, Holding
<1>3. CASE status'[s] # status[s]
  <2>1. PICK p \in Procs : SetStatus(p) /\ s = slot[p]
    BY <1>3, StatusChange DEF NamesInv, SeatInv
  <2>2. Sits(p) /\ ~Nameless(p)
    BY <2>1 DEF SetStatus, Goto, Sits, Registering, Nameless
  <2>3. who[s] = p
    BY <1>1, <1>2, <2>1, <2>2 DEF NamesInv, Written
  <2> QED
    BY <1>1, <1>2, <2>1, <2>3
<1> QED
  BY <1>1, <1>2, <1>3

LEMMA NameNewStep ==
  ASSUME NamesInv, [Next]_vars, NEW p \in Procs PROVE NameNew(p)'
<1> SUFFICES ASSUME pc'[p] \in {"enter", "status"}, p \notin robbed',
                    NEW t \in Slots, status'[t], who'[t] \notin robbed',
                    {who'[t], p} \notin met'
             PROVE  NameOf(who[t])' # NameOf(p)'
  BY DEF NameNew
<1> DEFINE q == who[t]
<1>1. who'[t] = q /\ q \notin robbed /\ (status[t] \/ SetStatus(q))
  BY ActiveFrom
<1>2. p \notin robbed /\ {q, p} \notin met
  BY <1>1, HistoryGrows
<1>3. nick' = nick
  BY TableEffects
<1>4. Arrives(p)
  BY ArrivesStep DEF NamesInv, SeatInv, TypeOK, Typed
<1>5. pc[p] \in {"enter", "status"} \/ (p \in Clients /\ CheckName(p) /\ pc'[p] = "enter")
  BY <1>4 DEF Arrives, Stays, Enter, Goto
<1>6. NameOf(q) # NameOf(p)
  <2>1. CASE status[t] /\ pc[p] \in {"enter", "status"}
    BY <1>1, <1>2, <2>1 DEF NamesInv, NameNew
  <2>2. CASE status[t] /\ p \in Clients /\ CheckName(p) /\ pc'[p] = "enter"
    <3>1. NameOf(q) # nick[p]
      BY <2>2, Constants DEF CheckName, Goto, NamesInv, SeatInv, TypeOK
    <3> QED
      BY <2>2, <3>1, Constants DEF NameOf
  <2>3. CASE ~status[t]
    <3>1. SetStatus(q) /\ q \in Procs
      <4>1. PICK x \in Procs : SetStatus(x) /\ t = slot[x]
        BY <1>1, <2>3, StatusChange DEF NamesInv, SeatInv
      <4>2. Sits(x) /\ ~Nameless(x)
        BY <4>1 DEF SetStatus, Goto, Sits, Registering, Nameless
      <4> QED
        BY <1>1, <4>1, <4>2 DEF NamesInv, Written
    <3>2. pc[q] = "status" /\ pc' = [pc EXCEPT ![q] = "stamp"]
      BY <3>1 DEF SetStatus, Goto
    <3>3. q # p /\ pc[p] = pc'[p]
      BY <3>1, <3>2 DEF NamesInv, SeatInv, TypeOK
    <3>4. {q, p} \in met
      BY <3>1, <3>2, <3>3 DEF NamesInv, SeatInv, Meets, Registering
    <3> QED
      BY <1>2, <3>4
  <2> QED
    BY <1>5, <2>1, <2>2, <2>3
<1> QED
  BY <1>1, <1>3, <1>6 DEF NameOf

LEMMA NamesApartStep == ASSUME NamesInv, [Next]_vars PROVE NamesApart'
<1> SUFFICES ASSUME NEW s \in Slots, NEW t \in Slots, status'[s], status'[t], s # t,
                    who'[s] \notin robbed', who'[t] \notin robbed',
                    {who'[s], who'[t]} \notin met'
             PROVE  NameOf(who[s])' # NameOf(who[t])'
  BY DEF NamesApart, Active
<1>1. /\ who'[s] = who[s] /\ who[s] \notin robbed /\ (status[s] \/ SetStatus(who[s]))
      /\ who'[t] = who[t] /\ who[t] \notin robbed /\ (status[t] \/ SetStatus(who[t]))
  BY ActiveFrom
<1>2. nick' = nick /\ {who[s], who[t]} \notin met
  BY <1>1, TableEffects, HistoryGrows
<1>3. ASSUME NEW x \in Slots, NEW y \in Slots, x # y, SetStatus(who[x]),
             status'[x], status'[y], who[x] \notin robbed, who[y] \notin robbed,
             {who[y], who[x]} \notin met
      PROVE  ~status[x] => NameOf(who[y]) # NameOf(who[x])
  <2> SUFFICES ASSUME ~status[x] PROVE NameOf(who[y]) # NameOf(who[x])
    OBVIOUS
  <2>1. PICK p \in Procs : SetStatus(p) /\ x = slot[p]
    BY <1>3, StatusChange DEF NamesInv, SeatInv
  <2>2. Sits(p) /\ ~Nameless(p) /\ pc[p] = "status"
    BY <2>1 DEF SetStatus, Goto, Sits, Registering, Nameless
  <2>3. who[x] = p
    BY <1>3, <2>1, <2>2 DEF NamesInv, Written
  <2>4. status[y]
    BY <1>3, <2>1 DEF SetStatus, Set, NamesInv, SeatInv, TypeOK
  <2> QED
    BY <1>3, <2>2, <2>3, <2>4 DEF NamesInv, NameNew
<1>4. NameOf(who[s]) # NameOf(who[t])
  <2>1. CASE status[s] /\ status[t]
    BY <1>1, <1>2, <2>1 DEF NamesInv, NamesApart, Active
  <2>2. CASE ~status[s]
    <3>1. {who[t], who[s]} \notin met
      BY <1>2
    <3> QED
      BY <1>1, <1>3, <2>2, <3>1
  <2>3. CASE ~status[t]
    BY <1>1, <1>2, <1>3, <2>3
  <2> QED
    BY <2>1, <2>2, <2>3
<1> QED
  BY <1>1, <1>2, <1>4 DEF NameOf

LEMMA NamesInit == Init => NamesInv
<1> SUFFICES ASSUME Init PROVE NamesInv
  OBVIOUS
<1>1. \A s \in Slots : ~status[s] /\ who[s] = NULL
  BY DEF Init
<1>2. \A p \in Procs : Nameless(p) \/ ~Sits(p)
  BY DEF Init, Nameless, Sits, Member, Registering
<1>3. \A p \in Procs : Written(p) /\ NoEntry(p) /\ NameNew(p)
  BY <1>1, <1>2, Constants DEF Written, NoEntry, NameNew
<1>4. OneEntry /\ Occupied /\ NamesApart
  BY <1>1 DEF OneEntry, Occupied, NamesApart, Active
<1> QED
  BY <1>3, <1>4, SeatInit DEF NamesInv

(* Of two active participants with one name, one has lost its place or they
   registered at the same time: the names are otherwise kept apart, however
   many join, leave and die. *)
THEOREM Names == Spec => []NamesApart
<1>1. NamesInv /\ [Next]_vars => NamesInv'
  <2>1. ASSUME NamesInv, [Next]_vars PROVE NamesInv'
    <3>1. SeatInv'
      BY <2>1, SeatStep DEF NamesInv
    <3>2. \A p \in Procs : Written(p)' /\ NoEntry(p)' /\ NameNew(p)'
      BY <2>1, WrittenStep, NoEntryStep, NameNewStep
    <3> QED
      BY <2>1, <3>1, <3>2, OneEntryStep, OccupiedStep, NamesApartStep DEF NamesInv
  <2> QED
    BY <2>1
<1>2. NamesInv => NamesApart
  BY DEF NamesInv
<1> QED
  BY <1>1, <1>2, NamesInit, PTL DEF Spec

-----------------------------------------------------------------------------
(* The count. *)
Halfway == {p \in Procs : pc[p] \in {"stamp", "count"}}
Overcounted == {p \in Procs : pc[p] \in {"leave_count", "uncount"}}

LEMMA CountIs == CountIsActive <=> ((\A p \in Procs : pc[p] # "torn") =>
                    count + Cardinality(Halfway) = Cardinality(Active) + Cardinality(Overcounted))
BY DEF CountIsActive, Halfway, Overcounted

LEMMA Sizes ==
  /\ IsFiniteSet(Active) /\ Cardinality(Active) \in Nat
  /\ IsFiniteSet(Halfway) /\ Cardinality(Halfway) \in Nat
  /\ IsFiniteSet(Overcounted) /\ Cardinality(Overcounted) \in Nat
  /\ Cardinality(Active) <= Participants
  /\ Cardinality(Overcounted) <= Cardinality(Clients) + 1
<1>1. IsFiniteSet(Slots) /\ Cardinality(Slots) = Participants
  <2>1. Participants \in Nat /\ Participants > 0 /\ Participants - 1 \in Int /\ 0 \in Int
    BY Constants
  <2>2. IsFiniteSet(0 .. Participants - 1)
        /\ Cardinality(0 .. Participants - 1)
             = IF 0 > Participants - 1 THEN 0 ELSE Participants - 1 - 0 + 1
    BY <2>1, FS_Interval
  <2> QED
    BY <2>1, <2>2 DEF Slots
<1>2. IsFiniteSet(Procs) /\ Cardinality(Procs) = Cardinality(Clients) + 1
  BY RoomAssumption, FS_AddElement DEF Procs
<1>3. /\ Active \in SUBSET Slots /\ Halfway \in SUBSET Procs /\ Overcounted \in SUBSET Procs
  BY DEF Active, Halfway, Overcounted
<1>4. IsFiniteSet(Active) /\ Cardinality(Active) <= Participants
  BY <1>1, <1>3, FS_Subset
<1>5. IsFiniteSet(Halfway)
  BY <1>2, <1>3, FS_Subset
<1>6. IsFiniteSet(Overcounted) /\ Cardinality(Overcounted) <= Cardinality(Clients) + 1
  BY <1>2, <1>3, FS_Subset
<1> QED
  BY <1>4, <1>5, <1>6, FS_CardinalityType

(* While nobody is robbed, who is halfway has an active place of its own. *)
LEMMA HalfwayActive ==
  ASSUME SeatInv, robbed = {}
  PROVE  Cardinality(Halfway) <= Cardinality(Active)
<1> DEFINE f == [p \in Halfway |-> slot[p]]
<1>1. ASSUME NEW p \in Halfway PROVE slot[p] \in Active /\ Sits(p) /\ p \in Procs
  <2>1. p \in Procs /\ Sits(p) /\ ~Inactive(p)
    BY DEF Halfway, Sits, Registering, Inactive
  <2> QED
    BY <2>1, Indexed DEF SeatInv, Holding, Active
<1>2. f \in [Halfway -> Active]
  BY <1>1
<1>3. ASSUME NEW p \in Halfway, NEW q \in Halfway, f[p] = f[q] PROVE p = q
  BY <1>1, <1>3 DEF SeatInv, Shares
<1>4. f \in Injection(Halfway, Active)
  BY <1>2, <1>3 DEF Injection, IsInjective
<1> QED
  BY <1>4, Sizes, FS_Injection

(* Nobody has lost a place, met the server or died at a bad moment. *)
Undisturbed == robbed = {} /\ Unmet /\ \A p \in Procs : pc[p] # "torn"

LEMMA Before == ASSUME SeatInv, [Next]_vars, Undisturbed' PROVE Undisturbed
<1>1. robbed = {} /\ Unmet
  BY HistoryGrows DEF Undisturbed, Unmet
<1>2. \A p \in Procs : pc[p] # "torn"
  BY ArrivesStep DEF Arrives, SeatInv, TypeOK, Typed, Undisturbed
<1> QED
  BY <1>1, <1>2 DEF Undisturbed

LEMMA Counted ==
  ASSUME CountInv, Undisturbed
  PROVE  count + Cardinality(Halfway) = Cardinality(Active) + Cardinality(Overcounted)
BY CountIs DEF CountInv, CountKept, Undisturbed, Unmet

LEMMA OpeningStep == ASSUME CountInv, [Next]_vars PROVE Opening'
<1> SUFFICES ASSUME Registering(Server)', Unmet'
             PROVE  /\ \A c \in Clients : pc'[c] = "out"
                    /\ \A s \in Slots : status'[s] => s = 0
                    /\ count' = 0
  BY DEF Opening
<1>1. Registering(Server) /\ Unmet
  <2>1. Sits(Server)'
    BY DEF Sits
  <2>2. Registering(Server)
    BY <2>1, StillSits, Constants DEF CountInv, SeatInv
  <2> QED
    BY <2>2, HistoryGrows DEF Unmet
<1>2. /\ \A c \in Clients : pc[c] = "out"
      /\ \A s \in Slots : status[s] => s = 0
      /\ count = 0 /\ pc[Server] \notin {"scan", "uncount"}
  BY <1>1 DEF CountInv, Opening, Registering
<1>3. \A c \in Clients : pc'[c] = "out"
  <2> SUFFICES ASSUME NEW c \in Clients PROVE pc'[c] = "out"
    OBVIOUS
  <2>1. ~FindSlot(c)
    BY <1>1, Constants DEF FindSlot, Unmet
  <2> QED
    BY <1>2, <2>1, Constants, ArrivesStep DEF Arrives, CountInv, SeatInv, TypeOK, Typed
<1>4. ASSUME NEW s \in Slots, status'[s] PROVE s = 0
  <2>1. CASE status[s]
    BY <1>2, <2>1
  <2>2. CASE ~status[s]
    <3>1. PICK p \in Procs : SetStatus(p) /\ s = slot[p]
      BY <1>4, <2>2, StatusChange DEF CountInv, SeatInv
    <3>2. p = Server
      BY <1>2, <3>1, Constants DEF SetStatus, Goto
    <3> QED
      BY <3>1, <3>2, Indexed DEF CountInv, SeatInv
  <2> QED
    BY <2>1, <2>2
<1>5. count' = count
  <2>1. ASSUME NEW p \in Procs, Joined(p) PROVE FALSE
    <3>1. pc[p] = "count" /\ pc' = [pc EXCEPT ![p] = "send"]
      BY <2>1 DEF Joined, Goto
    <3>2. p = Server
      BY <1>2, <3>1, Constants
    <3> QED
      BY <3>1, <3>2 DEF Registering, CountInv, SeatInv, TypeOK
  <2>2. ASSUME NEW c \in Clients, LeaveCount(c) PROVE FALSE
    BY <1>2, <2>2 DEF LeaveCount, Goto
  <2>3. ~Uncount
    BY <1>2 DEF Uncount, Goto
  <2> QED
    BY <2>1, <2>2, <2>3, TableEffects
<1> QED
  BY <1>2, <1>3, <1>4, <1>5

(* What is subtracted from the count was in it. *)
LEMMA Subtracted ==
  ASSUME CountInv, Undisturbed, Overcounted # {}
  PROVE  /\ count >= 1 /\ count \in Nat
         /\ (count + Word - 1) % Word = count - 1
<1>1. count \in Nat /\ count < Word /\ Word \in Nat
  BY Constants DEF CountInv, SeatInv, TypeOK
<1>2. Cardinality(Overcounted) >= 1
  <2>1. Cardinality(Overcounted) # 0
    BY Sizes, FS_EmptySet
  <2> QED
    BY <2>1, Sizes
<1>3. Cardinality(Halfway) <= Cardinality(Active)
  BY HalfwayActive DEF CountInv, Undisturbed
<1>4. count >= 1
  BY <1>1, <1>2, <1>3, Counted, Sizes
<1>5. /\ count - 1 \in Nat /\ count - 1 < Word
      /\ count + Word - 1 = (count - 1) + Word
  BY <1>1, <1>4
<1>6. ((count - 1) + Word) % Word = count - 1
  BY <1>5, Remainders
<1> QED
  BY <1>1, <1>4, <1>5, <1>6

(* What is added to the count fits; the server is alone when it sets it. *)
LEMMA Added ==
  ASSUME CountInv, Undisturbed, NEW p \in Procs, Joined(p)
  PROVE  count' = count + 1
<1>1. count \in Nat /\ count < Word /\ Word \in Nat
  BY Constants DEF CountInv, SeatInv, TypeOK
<1>2. CASE p = Server
  BY <1>2 DEF Joined, Goto, CountInv, Opening, Registering, Undisturbed
<1>3. CASE p # Server
  <2>1. Cardinality(Halfway) # 0
    BY Sizes, FS_EmptySet DEF Joined, Goto, Halfway
  <2>2. count + 1 <= Cardinality(Active) + Cardinality(Overcounted)
    BY <1>1, <2>1, Counted, Sizes
  <2>3. count + 1 \in Nat /\ count + 1 < Word
    BY <1>1, <2>2, Sizes, Constants
  <2>4. (count + 1) % Word = count + 1
    BY <2>3, Remainders
  <2> QED
    BY <1>3, <2>4 DEF Joined
<1> QED
  BY <1>2, <1>3

(* How the four move in each step, once nobody has died at a bad moment. *)
Same == Active' = Active /\ Halfway' = Halfway /\ Overcounted' = Overcounted /\ count' = count

LEMMA SetStatusCounts ==
  ASSUME SeatInv, robbed = {}, NEW p \in Procs, SetStatus(p)
  PROVE  /\ Active' = Active \cup {slot[p]} /\ slot[p] \notin Active
         /\ Halfway' = Halfway \cup {p} /\ p \notin Halfway
         /\ Overcounted' = Overcounted /\ count' = count
<1>1. slot[p] \in Slots /\ ~status[slot[p]] /\ pc[p] = "status"
  <2>1. pc[p] = "status" /\ Sits(p) /\ Inactive(p)
    BY DEF SetStatus, Goto, Sits, Registering, Inactive
  <2> QED
    BY <2>1, Indexed DEF SeatInv, Holding
<1>2. \A s \in Slots : status'[s] <=> status[s] \/ s = slot[p]
  BY <1>1 DEF SetStatus, Set, SeatInv, TypeOK
<1>3. \A q \in Procs : pc'[q] = IF q = p THEN "stamp" ELSE pc[q]
  BY DEF SetStatus, Goto, SeatInv, TypeOK
<1> QED
  BY <1>1, <1>2, <1>3 DEF Active, Halfway, Overcounted, SetStatus

LEMMA JoinedCounts ==
  ASSUME SeatInv, NEW p \in Procs, Joined(p)
  PROVE  /\ Halfway' = Halfway \ {p} /\ p \in Halfway
         /\ Active' = Active /\ Overcounted' = Overcounted
<1>1. pc[p] = "count" /\ status' = status
  BY DEF Joined, Goto
<1>2. \A q \in Procs : pc'[q] = IF q = p THEN "send" ELSE pc[q]
  BY DEF Joined, Goto, SeatInv, TypeOK
<1> QED
  BY <1>1, <1>2 DEF Active, Halfway, Overcounted

LEMMA LeaveCounts ==
  ASSUME SeatInv, robbed = {}, NEW c \in Clients, Leave(c)
  PROVE  /\ Active' = Active \ {slot[c]} /\ slot[c] \in Active
         /\ Overcounted' = Overcounted \cup {c} /\ c \notin Overcounted
         /\ Halfway' = Halfway /\ count' = count
<1>1. c \in Procs /\ pc[c] = "leave" /\ Sits(c) /\ ~Inactive(c) /\ slot[c] \in Slots
  BY Constants, Indexed DEF SeatInv, Leave, Goto
<1>2. status[slot[c]]
  BY <1>1 DEF SeatInv, Holding
<1>3. \A s \in Slots : status'[s] <=> status[s] /\ s # slot[c]
  BY <1>1 DEF Leave, Set, SeatInv, TypeOK
<1>4. \A q \in Procs : pc'[q] = IF q = c THEN "leave_count" ELSE pc[q]
  BY <1>1 DEF Leave, Goto, SeatInv, TypeOK
<1> QED
  BY <1>1, <1>2, <1>3, <1>4 DEF Active, Halfway, Overcounted, Leave

LEMMA LeaveCountCounts ==
  ASSUME SeatInv, NEW c \in Clients, LeaveCount(c)
  PROVE  /\ Overcounted' = Overcounted \ {c} /\ c \in Overcounted
         /\ Active' = Active /\ Halfway' = Halfway
         /\ count' = (count + Word - 1) % Word
<1>1. c \in Procs /\ pc[c] = "leave_count" /\ status' = status
  BY Constants DEF LeaveCount, Goto
<1>2. \A q \in Procs : pc'[q] = IF q = c THEN "gone" ELSE pc[q]
  BY <1>1 DEF LeaveCount, Goto, SeatInv, TypeOK
<1> QED
  BY <1>1, <1>2 DEF Active, Halfway, Overcounted, LeaveCount

LEMMA DisconnectCounts ==
  ASSUME SeatInv, Disconnect
  PROVE  /\ Active' = Active \ {Min(Gone)} /\ Min(Gone) \in Active
         /\ Overcounted' = Overcounted \cup {Server} /\ Server \notin Overcounted
         /\ Halfway' = Halfway /\ count' = count
<1>1. Server \in Procs /\ pc[Server] = "scan" /\ Min(Gone) \in Slots /\ status[Min(Gone)]
  BY Constants, MinSlot DEF Disconnect, Goto
<1>2. \A s \in Slots : status'[s] <=> status[s] /\ s # Min(Gone)
  BY <1>1 DEF Disconnect, Set, SeatInv, TypeOK
<1>3. \A q \in Procs : pc'[q] = IF q = Server THEN "uncount" ELSE pc[q]
  BY <1>1 DEF Disconnect, Goto, SeatInv, TypeOK
<1> QED
  BY <1>1, <1>2, <1>3 DEF Active, Halfway, Overcounted, Disconnect

LEMMA UncountCounts ==
  ASSUME SeatInv, Uncount
  PROVE  /\ Overcounted' = Overcounted \ {Server} /\ Server \in Overcounted
         /\ Active' = Active /\ Halfway' = Halfway
         /\ count' = (count + Word - 1) % Word
<1>1. Server \in Procs /\ pc[Server] = "uncount" /\ status' = status
  BY Constants DEF Uncount, Goto
<1>2. \A q \in Procs : pc'[q] = IF q = Server THEN "send" ELSE pc[q]
  BY <1>1 DEF Uncount, Goto, SeatInv, TypeOK
<1> QED
  BY <1>1, <1>2 DEF Active, Halfway, Overcounted, Uncount

(* All other steps leave them alone. *)
CountStates == {"stamp", "count", "leave_count", "uncount"}
CountsKept(q) == \/ pc'[q] = pc[q]
                 \/ pc[q] = "stamp" /\ pc'[q] = "count"
                 \/ pc[q] \notin CountStates /\ pc'[q] \notin CountStates

LEMMA OtherCounts ==
  ASSUME Typed, [Next]_vars, NEW q \in Procs, \A p \in Procs : Places(p) /\ pc'[p] # "torn"
  PROVE  \/ status' = status /\ count' = count /\ CountsKept(q)
         \/ \E p \in Procs : SetStatus(p) \/ Joined(p)
         \/ \E c \in Clients : Leave(c) \/ LeaveCount(c)
         \/ Disconnect \/ Uncount
<1> DEFINE Kept == status' = status /\ count' = count /\ CountsKept(q)
<1> USE DEF Goto, Set, directory, check, locals, Typed, CountsKept, CountStates, vars
<1>1. ASSUME UNCHANGED vars PROVE Kept
  BY <1>1, Constants DEF vars
<1>2. ASSUME Tick PROVE Kept
  BY <1>2, Constants DEF Tick
<1>3. ASSUME NEW p \in Procs, Enter(p) PROVE Kept
  BY <1>3, Constants DEF Enter
<1>4. ASSUME NEW p \in Procs, Stamp(p) PROVE Kept
  BY <1>4, Constants DEF Stamp
<1>5. ASSUME NEW p \in Procs, Send(p) PROVE Kept
  BY <1>5, Constants DEF Send
<1>6. ASSUME NEW p \in Procs, Add(p) PROVE Kept
  BY <1>6, Constants DEF Add
<1>7. ASSUME NEW p \in Procs, Poll(p) PROVE Kept
  BY <1>7, Constants DEF Poll
<1>8. ASSUME NEW c \in Clients, FindSlot(c) PROVE Kept
  BY <1>8, Constants DEF FindSlot
<1>9. ASSUME NEW c \in Clients, CheckName(c) PROVE Kept
  BY <1>9, Constants DEF CheckName
<1>10. ASSUME NEW c \in Clients, Interrupt(c) PROVE Kept
  BY <1>10, Constants DEF Interrupt, Forgive
<1>11. ASSUME NEW c \in Clients, Kill(c) PROVE Kept
  BY <1>11, Constants DEF Kill, Forgive, Dead, Places, ClientPCs, PCs
<1>12. ASSUME NEW c \in Clients, NEW to \in {"live", "leave"}, Say(c, to) PROVE Kept
  BY <1>12, Constants DEF Say
<1>13. ASSUME CheckStart PROVE Kept
  BY <1>13, Constants DEF CheckStart
<1>14. ASSUME CheckEnd PROVE Kept
  BY <1>14, Constants DEF CheckEnd
<1>15. ASSUME NEW p \in Procs, Mask(p) PROVE Kept
  BY <1>15, Constants DEF Mask
<1> QED
  BY <1>1, <1>2, <1>3, <1>4, <1>5, <1>6, <1>7, <1>8, <1>9, <1>10, <1>11, <1>12, <1>13, <1>14,
     <1>15
  DEF Next, Going, Leaving, Checking

LEMMA SameCounts ==
  ASSUME SeatInv, status' = status, count' = count, \A q \in Procs : CountsKept(q)
  PROVE  Same
<1>1. \A q \in Procs : pc'[q] \in {"stamp", "count"} <=> pc[q] \in {"stamp", "count"}
  BY DEF CountsKept, CountStates
<1>2. \A q \in Procs : pc'[q] \in {"leave_count", "uncount"} <=> pc[q] \in {"leave_count", "uncount"}
  BY DEF CountsKept, CountStates
<1> QED
  BY <1>1, <1>2 DEF Same, Active, Halfway, Overcounted

LEMMA CountStep == ASSUME CountInv, [Next]_vars PROVE CountKept'
<1> DEFINE C == count + Cardinality(Halfway) = Cardinality(Active) + Cardinality(Overcounted)
<1> SUFFICES ASSUME Undisturbed' PROVE C'
  BY DEF CountKept, CountIsActive, Undisturbed, Unmet, Halfway, Overcounted
<1>1. SeatInv /\ Undisturbed /\ robbed = {}
  BY Before DEF CountInv, Undisturbed
<1>2. C
  BY <1>1, Counted
<1>3. count \in Nat
  BY DEF CountInv, SeatInv, TypeOK
<1>4. ASSUME NEW p \in Procs, SetStatus(p) PROVE C'
  <2>1. Cardinality(Active') = Cardinality(Active) + 1
    BY <1>1, <1>4, Sizes, SetStatusCounts, FS_AddElement, ZenonT(40)
  <2>2. Cardinality(Halfway') = Cardinality(Halfway) + 1
    BY <1>1, <1>4, Sizes, SetStatusCounts, FS_AddElement
  <2>3. Overcounted' = Overcounted /\ count' = count
    BY <1>1, <1>4, SetStatusCounts
  <2> QED
    BY <1>2, <1>3, <2>1, <2>2, <2>3, Sizes
<1>5. ASSUME NEW p \in Procs, Joined(p) PROVE C'
  <2>1. Cardinality(Halfway') = Cardinality(Halfway) - 1
    BY <1>1, <1>5, Sizes, JoinedCounts, FS_RemoveElement
  <2>2. count' = count + 1
    BY <1>1, <1>5, Added
  <2>3. Overcounted' = Overcounted /\ Active' = Active
    BY <1>1, <1>5, JoinedCounts
  <2> QED
    BY <1>2, <1>3, <2>1, <2>2, <2>3, Sizes
<1>6. ASSUME NEW c \in Clients, Leave(c) PROVE C'
  <2>1. Cardinality(Active') = Cardinality(Active) - 1
    <3>1. Active' = Active \ {slot[c]} /\ slot[c] \in Active
      BY <1>1, <1>6, LeaveCounts
    <3> QED
      BY <3>1, Sizes, FS_RemoveElement
  <2>2. Cardinality(Overcounted') = Cardinality(Overcounted) + 1
    BY <1>1, <1>6, Sizes, LeaveCounts, FS_AddElement
  <2>3. Halfway' = Halfway /\ count' = count
    BY <1>1, <1>6, LeaveCounts
  <2> QED
    BY <1>2, <1>3, <2>1, <2>2, <2>3, Sizes
<1>7. ASSUME NEW c \in Clients, LeaveCount(c) PROVE C'
  <2>1. Cardinality(Overcounted') = Cardinality(Overcounted) - 1
    BY <1>1, <1>7, Sizes, LeaveCountCounts, FS_RemoveElement
  <2>2. count' = count - 1 /\ count >= 1
    BY <1>1, <1>7, LeaveCountCounts, Subtracted
  <2>3. Halfway' = Halfway /\ Active' = Active
    BY <1>1, <1>7, LeaveCountCounts
  <2> QED
    BY <1>2, <1>3, <2>1, <2>2, <2>3, Sizes
<1>8. ASSUME Disconnect PROVE C'
  <2>1. Cardinality(Active') = Cardinality(Active) - 1
    BY <1>1, <1>8, Sizes, DisconnectCounts, FS_RemoveElement
  <2>2. Cardinality(Overcounted') = Cardinality(Overcounted) + 1
    BY <1>1, <1>8, Sizes, DisconnectCounts, FS_AddElement
  <2>3. Halfway' = Halfway /\ count' = count
    BY <1>1, <1>8, DisconnectCounts
  <2> QED
    BY <1>2, <1>3, <2>1, <2>2, <2>3, Sizes
<1>9. ASSUME Uncount PROVE C'
  <2>1. Cardinality(Overcounted') = Cardinality(Overcounted) - 1
    BY <1>1, <1>9, Sizes, UncountCounts, FS_RemoveElement
  <2>2. count' = count - 1 /\ count >= 1
    BY <1>1, <1>9, UncountCounts, Subtracted
  <2>3. Halfway' = Halfway /\ Active' = Active
    BY <1>1, <1>9, UncountCounts
  <2> QED
    BY <1>2, <1>3, <2>1, <2>2, <2>3, Sizes
<1>10. ASSUME status' = status, count' = count, \A q \in Procs : CountsKept(q) PROVE C'
  BY <1>1, <1>2, <1>10, SameCounts DEF Same
<1> HIDE DEF C
<1> QED
  BY <1>1, <1>4, <1>5, <1>6, <1>7, <1>8, <1>9, <1>10, OtherCounts, Constants
     DEF SeatInv, TypeOK, Typed, Undisturbed

LEMMA CountInit == Init => CountInv
<1> SUFFICES ASSUME Init PROVE CountInv
  OBVIOUS
<1>1. \A p \in Procs : pc[p] = IF p = Server THEN "enter" ELSE "out"
  BY DEF Init
<1>2. Active = {} /\ Halfway = {} /\ Overcounted = {} /\ count = 0
  BY <1>1 DEF Active, Halfway, Overcounted, Init
<1>3. CountIsActive
  BY <1>2, FS_EmptySet, CountIs
<1>4. Opening
  BY <1>1, Constants DEF Opening, Init
<1> QED
  BY <1>3, <1>4, SeatInit DEF CountInv, CountKept

(* Until somebody loses its place, registers along with the server or dies
   between two stores, the count is the number of active participants, but
   for those between the store of their status and that of the count. *)
THEOREM Counts == Spec => []CountKept
<1>1. CountInv /\ [Next]_vars => CountInv'
  BY SeatStep, OpeningStep, CountStep DEF CountInv
<1>2. CountInv => CountKept
  BY DEF CountInv
<1> QED
  BY <1>1, <1>2, CountInit, PTL DEF Spec
=============================================================================
