------------------------------- MODULE ChatRoom -------------------------------
(***************************************************************************)
(* 05_chat_room: the participants directory of shm_manager.c and the       *)
(* programs that use it, chat_server.c and chat_client.c.  Clients join,   *)
(* send, receive and leave, are interrupted or killed; the server looks    *)
(* for participants that have been silent for too long.  The directory has *)
(* no lock: each access to a field is a step, but for a search of the      *)
(* table, which is one.  MessageTracker has what goes on inside the        *)
(* tracker; its pool, as built, takes no block back, so that entries are   *)
(* used once.                                                              *)
(***************************************************************************)
EXTENDS Naturals, Sequences, FiniteSets, FiniteSetsExt

CONSTANTS Clients, Server,
          Nicks,         \* the names clients may be started with: a set of
          ServerName,    \* functions from Clients
          Participants,  \* MAX_PARTICIPANTS
          Entries,       \* MAX_TRACKED_MESSAGES
          Timeout,       \* timeout of check_participants, in seconds
          Word,          \* the number of values of a uint32_t
          NULL,
          MaxTime,       \* bound: seconds that pass
          MaxJoining,    \* how many processes may be registering at once
          Quick,         \* whether some of the steps take no time: see Tick
          Slow           \* clients whose users let time pass after a Ctrl+C

ASSUME RoomAssumption == /\ Participants \in Nat \ {0} /\ Timeout \in Nat
                         /\ MaxTime \in Nat /\ Entries \in Nat
                         /\ IsFiniteSet(Clients) /\ Server \notin Clients
                         /\ Word \in Nat /\ Word > MaxTime + Timeout
                         /\ Word > Participants + Cardinality(Clients) + 1
                         /\ MaxJoining \in Nat /\ Quick \in BOOLEAN
                         /\ NULL \notin Clients \cup {Server}
                         /\ \A n \in Nicks : DOMAIN n = Clients

VARIABLES status, who, last,  \* participants[i]: who is its pid and username
          count,              \* and their count
          now,                \* get_timestamp()
          pc, next,           \* of the main threads; next follows a send
          slot,               \* the place a join found, then my_participant_id
          nick,               \* the names the clients were started with
          i, mark,            \* of the server's check: the place, the time
          reader,             \* the reading thread; the server's turn
          msgs,               \* the tracked messages: the places that have not
                              \* read one, the members it is owed to
          draft,              \* the message whose mask a process has computed
          met, robbed         \* history: pairs that registered at one time;
                              \* those whose place another one had chosen, too,
                              \* or the check took away

directory == <<status, who, last, count>>
check     == <<i, mark>>
locals    == <<next, slot, nick, check>>
messages  == <<msgs, draft>>
history   == <<met, robbed>>
vars      == <<directory, now, pc, locals, reader, messages, history>>

Procs == Clients \cup {Server}
Slots == 0 .. Participants - 1
None  == Participants

Goto(p, from, to) == pc[p] = from /\ pc' = [pc EXCEPT ![p] = to]
Set(f, x, v) == [f EXCEPT ![x] = v]
NoDraft == [unread |-> {}, due |-> {}]

(* The segments are mapped and cleared, and the server is about to take its
   place (shm_manager.c:175). *)
Init == /\ status = [s \in Slots |-> FALSE]
        /\ who = [s \in Slots |-> NULL]
        /\ last = [s \in Slots |-> 0]
        /\ count = 0 /\ now = 0
        /\ pc = [p \in Procs |-> IF p = Server THEN "enter" ELSE "out"]
        /\ next = [p \in Procs |-> "out"]
        /\ slot = [p \in Procs |-> IF p = Server THEN 0 ELSE None]
        /\ nick \in Nicks
        /\ i = 0 /\ mark = 0
        /\ reader = [p \in Procs |-> "off"]
        /\ msgs = << >> /\ draft = [p \in Procs |-> NoDraft]
        /\ met = {} /\ robbed = {}

Registering(p) == pc[p] \in {"check", "enter", "status", "stamp", "count"}
Member(p) == slot[p] # None /\ ~Registering(p) /\ pc[p] # "leave_count"
Sits(p) == Registering(p) \/ Member(p)
Dead(p) == pc[p] \in {"killed", "torn"}
NameOf(p) == IF p = Server THEN ServerName ELSE nick[p]

-----------------------------------------------------------------------------
\* The server is in check_participants, or sends a message from there.
InCheck == \/ pc[Server] \in {"scan", "uncount"}
           \/ pc[Server] \in {"send", "mask", "add"} /\ next[Server] = "scan"

\* Nobody is between the store of its status and that of the time.
Settled == \A p \in Procs : pc[p] \notin {"stamp", "count"}

\* A reading thread polls every 0.1 s and the server all the time: no second
\* that would make a member look silent passes before it has polled, unless
\* it was interrupted and its user is slow.
Away(p) == p \in Slow /\ reader[p] = "ended"
Timely == \A p \in Procs : Member(p) /\ ~Away(p) => now + 1 <= last[slot[p]] + Timeout

\* With Quick, no second begins while the server compares times or while a
\* process registers its own.
Tick == /\ now < MaxTime /\ now' = now + 1
        /\ Timely
        /\ Quick => ~InCheck /\ Settled
        /\ UNCHANGED <<directory, pc, locals, reader, messages, history>>

-----------------------------------------------------------------------------
(* join_chat_client: the first free place is looked up.  Another process that
   is about to register there, or still believes it has the place, shares it. *)
\* Mutant of Free: whether a place is taken is not looked at.
FreeUnchecked == Slots

Free == {s \in Slots : ~status[s]}
Sharing(s) == {p \in Procs : /\ Sits(p) /\ slot[p] = s
                             /\ Registering(p) \/ p \in robbed}
FindSlot(c) == LET meets == {p \in Procs : Registering(p)} IN
  /\ Goto(c, "out", "check")
  /\ Cardinality(meets) < MaxJoining
  /\ Free # {}
  /\ slot' = Set(slot, c, Min(Free))
  /\ met' = met \cup {{c, p} : p \in meets}
  /\ robbed' = IF Sharing(Min(Free)) = {} THEN robbed
               ELSE robbed \cup Sharing(Min(Free)) \cup {c}
  /\ UNCHANGED <<directory, now, next, nick, check, reader, messages>>

\* Mutant of CheckName: the active participants' names are not compared.
CheckNameSkipped(c) ==
  /\ Goto(c, "check", "enter")
  /\ UNCHANGED <<directory, now, locals, reader, messages, history>>

\* ... then the name; a name in use, or a segment that cannot be mapped, ends
\* the join.
CheckName(c) == /\ \/ /\ Goto(c, "check", "enter")
                      /\ \A s \in Slots : status[s] => NameOf(who[s]) # nick[c]
                      /\ UNCHANGED slot
                   \/ /\ Goto(c, "check", "gone")
                      /\ slot' = Set(slot, c, None)
                /\ UNCHANGED <<directory, now, next, nick, check, reader, messages,
                               history>>

\* The same four stores register the server in place 0.
Enter(p) == /\ Goto(p, "enter", "status")
            /\ who' = Set(who, slot[p], p)
            /\ UNCHANGED <<status, last, count, now, locals, reader, messages,
                           history>>

SetStatus(p) == /\ Goto(p, "status", "stamp")
                /\ status' = Set(status, slot[p], TRUE)
                /\ UNCHANGED <<who, last, count, now, locals, reader, messages,
                               history>>

Stamp(p) == /\ Goto(p, "stamp", "count")
            /\ last' = Set(last, slot[p], now)
            /\ UNCHANGED <<status, who, count, now, locals, reader, messages,
                           history>>

\* A client adds to the count, the server sets it; each then sends a message.
Joined(p) == /\ Goto(p, "count", "send")
             /\ count' = IF p = Server THEN 1 ELSE (count + 1) % Word
             /\ next' = Set(next, p, "live")
             /\ UNCHANGED <<status, who, last, now, slot, nick, check, reader,
                            messages, history>>

-----------------------------------------------------------------------------
(* send_message: the time is stored, and a block allocated and written... *)
Send(p) == /\ Goto(p, "send", "mask")
           /\ last' = Set(last, slot[p], now)
           /\ UNCHANGED <<status, who, count, now, locals, reader, messages, history>>

\* ... calculate_active_mask looks who is active.  A tracker that is full stays
\* so: of a message that it will refuse no draft is kept...
Active == {s \in Slots : status[s]}
Mask(p) == /\ Goto(p, "mask", "add")
           /\ draft' = IF Len(msgs) < Entries
                       THEN Set(draft, p, [unread |-> Active,
                                           due |-> {q \in Procs : Member(q)}])
                       ELSE draft
           /\ UNCHANGED <<directory, now, locals, reader, msgs, history>>

\* Mutant of Add: the reading thread is started if the message was refused.
AddStops(p) ==
  /\ Goto(p, "add", next[p])
  /\ msgs' = IF Len(msgs) < Entries THEN Append(msgs, draft[p]) ELSE msgs
  /\ draft' = Set(draft, p, NoDraft)
  /\ reader' = IF reader[p] = "off" /\ Len(msgs) >= Entries
               THEN Set(reader, p, "idle") ELSE reader
  /\ next' = Set(next, p, "out")
  /\ UNCHANGED <<directory, now, slot, nick, check, history>>

\* ... and the message is added for those, whoever is active by then, or
\* refused.  After its first message a process starts to read.
Add(p) == /\ Goto(p, "add", next[p])
          /\ msgs' = IF Len(msgs) < Entries THEN Append(msgs, draft[p]) ELSE msgs
          /\ draft' = Set(draft, p, NoDraft)
          /\ reader' = IF reader[p] = "off" THEN Set(reader, p, "idle") ELSE reader
          /\ next' = Set(next, p, "out")
          /\ UNCHANGED <<directory, now, slot, nick, check, history>>

(* process_new_messages, called over and over: the time is stored, and all
   there is to read is read, which commutes with what the others do. *)
Poll(p) ==
  /\ reader[p] = "idle"
  /\ p = Server => pc[p] = "live"
  /\ last' = Set(last, slot[p], now)
  /\ msgs' = [m \in DOMAIN msgs |->
                IF slot[p] \in msgs[m].unread
                THEN [unread |-> msgs[m].unread \ {slot[p]}, due |-> msgs[m].due \ {p}]
                ELSE msgs[m]]
  /\ reader' = IF p = Server THEN Set(reader, p, "done") ELSE reader
  /\ UNCHANGED <<status, who, count, now, pc, locals, draft, history>>

-----------------------------------------------------------------------------
\* A message that c will not read any more is not owed to it; one that it was
\* about to add is lost.
Without(m, c) == [m EXCEPT !.due = @ \ {c}]
Forgive(c) ==
  /\ msgs' = [m \in DOMAIN msgs |-> Without(msgs[m], c)]
  /\ draft' = [p \in Procs |-> IF p = c THEN NoDraft ELSE Without(draft[p], c)]

(* The client's main loop sends a line, or ends and sends a last message. *)
Say(c, to) == /\ c \in Clients /\ Goto(c, "live", "send")
              /\ \/ to = "leave"
                 \/ to = "live" /\ reader[c] = "idle"
              /\ next' = Set(next, c, to)
              /\ UNCHANGED <<directory, now, slot, nick, check, reader, messages,
                             history>>

\* handle_signal: the reading thread ends; the main thread, whose read of the
\* terminal is restarted, does when it gets a line.
Interrupt(c) == /\ c \in Clients /\ pc[c] = "live" /\ reader[c] = "idle"
                /\ reader' = Set(reader, c, "ended")
                /\ Forgive(c)
                /\ UNCHANGED <<directory, now, pc, locals, history>>

\* The reading thread is cancelled and joined; then leave_chat.
Leave(c) == /\ Goto(c, "leave", "leave_count")
            /\ reader' = Set(reader, c, "off")
            /\ status' = Set(status, slot[c], FALSE)
            /\ Forgive(c)
            /\ UNCHANGED <<who, last, count, now, locals, history>>

\* Mutant of LeaveCount: the count is not decremented.
LeaveCountKept(c) ==
  /\ Goto(c, "leave_count", "gone")
  /\ slot' = Set(slot, c, None)
  /\ UNCHANGED <<directory, now, next, nick, check, reader, messages, history>>

\* Mutant of LeaveCount: the count is not kept to its width.
LeaveCountAdded(c) ==
  /\ Goto(c, "leave_count", "gone")
  /\ count' = count + Word - 1
  /\ slot' = Set(slot, c, None)
  /\ UNCHANGED <<status, who, last, now, next, nick, check, reader, messages,
                 history>>

LeaveCount(c) ==
  /\ Goto(c, "leave_count", "gone")
  /\ count' = (count + Word - 1) % Word
  /\ slot' = Set(slot, c, None)
  /\ UNCHANGED <<status, who, last, now, next, nick, check, reader, messages,
                 history>>

\* A client that has stored something is killed, while there is still time to
\* notice it.
Kill(c) == /\ pc[c] \notin {"out", "check", "enter", "gone"} /\ ~Dead(c)
           /\ now + Timeout < MaxTime
           /\ pc' = Set(pc, c, IF pc[c] \in {"stamp", "count", "leave_count"}
                               THEN "torn" ELSE "killed")
           /\ reader' = Set(reader, c, "off")
           /\ slot' = Set(slot, c, None) /\ next' = Set(next, c, "out")
           /\ Forgive(c)
           /\ UNCHANGED <<directory, now, nick, check, history>>

-----------------------------------------------------------------------------
(* check_participants, the other half of the server's loop *)
CheckStart == /\ reader[Server] = "done" /\ Goto(Server, "live", "scan")
              /\ mark' = now
              /\ UNCHANGED <<directory, now, next, slot, nick, i, reader, messages,
                             history>>

\* Mutant of Silent: a participant is given no time at all.
SilentAtOnce(s) == (mark + Word - last[s]) % Word > 0

\* Unsigned: a time after the mark makes a huge difference.
Silent(s) == (mark + Word - last[s]) % Word > Timeout

\* Mutant of Gone: the last place is not looked at.
GoneShort == {s \in Slots \ {Participants - 1} : s >= i /\ status[s] /\ Silent(s)}

\* Those that the check has yet to come to and will find silent.
Gone == {s \in Slots : s >= i /\ status[s] /\ Silent(s)}

\* The next silent participant is disconnected, whatever it is doing.
Disconnect == /\ Quick => Settled
              /\ Goto(Server, "scan", "uncount")
              /\ Gone # {}
              /\ status' = Set(status, Min(Gone), FALSE)
              /\ i' = Min(Gone) + 1
              /\ robbed' = robbed \cup {p \in Procs : Sits(p) /\ slot[p] = Min(Gone)}
              /\ UNCHANGED <<who, last, count, now, next, slot, nick, mark, reader,
                             messages, met>>

CheckEnd == /\ Quick => Settled
            /\ Goto(Server, "scan", "live")
            /\ Gone = {}
            /\ i' = 0 /\ mark' = 0
            /\ reader' = Set(reader, Server, "idle")
            /\ UNCHANGED <<directory, now, next, slot, nick, messages, history>>

\* A system message follows, and the search goes on.
Uncount == /\ Goto(Server, "uncount", "send")
           /\ count' = (count + Word - 1) % Word
           /\ next' = Set(next, Server, "scan")
           /\ UNCHANGED <<status, who, last, now, slot, nick, check, reader,
                          messages, history>>

-----------------------------------------------------------------------------
Going(p) == \/ Enter(p) \/ SetStatus(p) \/ Stamp(p) \/ Joined(p)
            \/ Send(p) \/ Mask(p) \/ Add(p)
Leaving(c) == CheckName(c) \/ Leave(c) \/ LeaveCount(c)
Checking == CheckStart \/ Disconnect \/ CheckEnd \/ Uncount

Next == \/ Tick
        \/ \E p \in Procs : Going(p) \/ Poll(p)
        \/ \E c \in Clients : \/ FindSlot(c) \/ Leaving(c)
                              \/ Interrupt(c) \/ Kill(c)
                              \/ \E to \in {"live", "leave"} : Say(c, to)
        \/ Checking

Spec == Init /\ [][Next]_vars

Ending(c) == reader[c] = "ended" /\ Say(c, "leave")
Main(c) == Going(c) \/ Leaving(c) \/ Ending(c)
Serving == Going(Server) \/ Poll(Server) \/ Checking

\* Threads that can run do, and time passes; nobody has to join, speak, leave
\* or die, but whoever pressed Ctrl+C presses Enter.
Fairness == /\ SF_vars(Tick) /\ WF_vars(Serving)
            /\ \A c \in Clients : WF_vars(Main(c)) /\ WF_vars(Poll(c))
FairSpec == Spec /\ Fairness

-----------------------------------------------------------------------------
PCs == {"out", "check", "enter", "status", "stamp", "count", "send", "mask", "add", "live",
        "leave", "leave_count", "gone", "killed", "torn", "scan", "uncount"}

(* Every variable stays within the values its C type, or its part in the
   program, admits: the unsigned count among them (shm_manager.h:35-43). *)
TypeOK == /\ status \in [Slots -> BOOLEAN]
          /\ who \in [Slots -> Procs \cup {NULL}]
          /\ last \in [Slots -> 0 .. MaxTime] /\ now \in 0 .. MaxTime
          /\ count \in 0 .. Word - 1
          /\ i \in 0 .. Participants /\ mark \in 0 .. MaxTime
          /\ pc \in [Procs -> PCs]
          /\ next \in [Procs -> {"out", "live", "leave", "scan"}]
          /\ slot \in [Procs -> Slots \cup {None}]
          /\ nick \in Nicks
          /\ reader \in [Procs -> {"off", "idle", "ended", "done"}]
          /\ msgs \in Seq([unread : SUBSET Slots, due : SUBSET Procs])
          /\ Len(msgs) <= Entries
          /\ draft \in [Procs -> [unread : SUBSET Slots, due : SUBSET Procs]]
          /\ met \subseteq SUBSET Procs /\ robbed \subseteq Procs

(* Whoever takes part has an active place in the directory that is its own,
   as long as no other process that registered had found the same place free
   and the check did not take it away (shm_manager.c:253-258, 345-353, 490):
   no other step of anybody's join, leave or death disturbs it. *)
Seated == \A p \in Procs : Member(p) /\ p \notin robbed =>
             status[slot[p]] /\ who[slot[p]] = p

(* Two active participants of one name registered at the same time, or one of
   them has lost its place: the check of the names (shm_manager.c:268-277)
   lets no other pair through, those included that were killed and not yet
   found out. *)
NamesApart == \A s, t \in Active :
                 /\ s # t /\ who[s] \notin robbed /\ who[t] \notin robbed
                 /\ {who[s], who[t]} \notin met
                 => NameOf(who[s]) # NameOf(who[t])

(* count is the "Number of active participants" (shm_manager.h:41), give or
   take those that are between the store of a status and that of the count,
   as long as nobody died there. *)
CountIsActive ==
  (\A p \in Procs : pc[p] # "torn") =>
     count + Cardinality({p \in Procs : pc[p] \in {"stamp", "count"}})
       = Cardinality(Active)
         + Cardinality({p \in Procs : pc[p] \in {"leave_count", "uncount"}})

(* The same, however many register at one time and however slow they are,
   until somebody loses its place or registers along with the server, which
   stores a count of 1 (shm_manager.c:178-180, 348-350, 366-367, 492-493). *)
CountKept == robbed = {} /\ (\A c \in Clients : {c, Server} \notin met) => CountIsActive

(* A message reaches everybody that was a member when its mask was computed,
   unless it leaves or dies ("Send a message to all participants",
   shm_manager.c:395). *)
Delivered == \A m \in 1 .. Entries : m <= Len(msgs) ~> m <= Len(msgs) /\ msgs[m].due = {}

DeadSeated == \E c \in Clients, s \in Slots : Dead(c) /\ status[s] /\ who[s] = c

(* Participants that were killed do not keep their places: the server finds
   them silent and disconnects them (shm_manager.c:479-505). *)
DeadRemoved == DeadSeated ~> ~DeadSeated
=============================================================================
