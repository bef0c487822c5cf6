---------------------------- MODULE ChatLifecycle ----------------------------
(***************************************************************************)
(* 05_chat_room/shm_manager.c: how the four shared memory segments of the  *)
(* chat come and go.  init_chat_server unlinks what an earlier server left *)
(* and creates them one after the other, the pool by way of                *)
(* memory_pool_init_shared; join_chat_client opens them one after the      *)
(* other.  Either can fail at every system call, and either process can be *)
(* killed between two of them, which leaves the names linked.  A name may  *)
(* be opened from shm_open on, before its segment has a size or contents.  *)
(***************************************************************************)
EXTENDS Naturals, Sequences

CONSTANTS Clients,  \* client processes
          MaxRuns   \* bound: starts of the server, one at a time

ASSUME LifecycleAssumption == MaxRuns \in Nat \ {0}

VARIABLES name,   \* the run whose segment each name stands for, 0 for none
          stage,  \* what has been done to the segment of each name and run
          pc, at, \* of each server run and client: what it does, to which
          maps    \* the run whose segment each has mapped, 0 for none

vars == <<name, stage, pc, at, maps>>

Segs    == {"dir", "pool", "ring", "tracker"}
Runs    == 1 .. MaxRuns
ASSUME RunsAreNoClients == Clients \cap Runs = {}
Procs   == Runs \cup Clients
Unmapped == [s \in Segs |-> 0]

\* The orders in which segments are opened, created, and names unlinked.
ConnectOrder == <<"dir", "pool", "ring", "tracker">>
UnlinkOrder  == <<"pool", "ring", "dir", "tracker">>
CreateOrder  == <<"dir", "pool", "ring", "tracker">>

Goto(p, from, to) == pc[p] = from /\ pc' = [pc EXCEPT ![p] = to]
\* Without the mappings of segs.
Without(m, segs) == [s \in Segs |-> IF s \in segs THEN 0 ELSE m[s]]

Init == /\ name = [s \in Segs |-> 0]
        /\ stage = [s \in Segs |-> [r \in Runs |-> "none"]]
        /\ pc = [p \in Procs |-> IF p \in Runs THEN "unborn" ELSE "out"]
        /\ at = [p \in Procs |-> 1]
        /\ maps = [p \in Procs |-> Unmapped]

-----------------------------------------------------------------------------
(* init_chat_server, in run r *)
Ended == {"failed", "closed", "killed"}
Start(r) == /\ \A q \in 1 .. r - 1 : pc[q] \in Ended
            /\ Goto(r, "unborn", "unlink")
            /\ UNCHANGED <<name, stage, at, maps>>

\* One shm_unlink of a list of four; the next state follows the last one.
Unlink(r, from, to) ==
  /\ pc[r] = from
  /\ name' = [name EXCEPT ![UnlinkOrder[at[r]]] = 0]
  /\ at' = [at EXCEPT ![r] = IF @ < 4 THEN @ + 1 ELSE 1]
  /\ pc' = [pc EXCEPT ![r] = IF at[r] < 4 THEN from ELSE to]
  /\ UNCHANGED <<stage, maps>>

\* Mutant of UnlinkOld: names of an earlier server are left.
UnlinkOldSkipped(r) == /\ Goto(r, "unlink", "create")
                       /\ UNCHANGED <<name, stage, at, maps>>
UnlinkOld(r) == Unlink(r, "unlink", "create")

Seg(r) == CreateOrder[at[r]]
Stage(r, what) == stage' = [stage EXCEPT ![Seg(r)][r] = what]

\* shm_open with O_CREAT; O_EXCL for the pool, whose name is free by now.
Create(r) == /\ Goto(r, "create", "size")
             /\ name' = [name EXCEPT ![Seg(r)] = r]
             /\ Stage(r, "empty")
             /\ UNCHANGED <<at, maps>>

Size(r) == /\ Goto(r, "size", "map")
           /\ Stage(r, "sized")
           /\ UNCHANGED <<name, at, maps>>

Map(r) == /\ Goto(r, "map", "fill")
          /\ maps' = [maps EXCEPT ![r][Seg(r)] = r]
          /\ UNCHANGED <<name, stage, at>>

\* Mutant of Fill: the ring is left as ftruncate made it.
FillSkipsRing(r) == /\ pc[r] = "fill"
                    /\ pc' = [pc EXCEPT ![r] = IF at[r] < 4 THEN "create" ELSE "register"]
                    /\ at' = [at EXCEPT ![r] = IF @ < 4 THEN @ + 1 ELSE 1]
                    /\ IF Seg(r) = "ring" THEN UNCHANGED stage ELSE Stage(r, "ready")
                    /\ UNCHANGED <<name, maps>>
\* Mutant of Fill: the position in the list of segments is not reset.
FillUnwrapped(r) == /\ pc[r] = "fill"
                    /\ pc' = [pc EXCEPT ![r] = IF at[r] < 4 THEN "create" ELSE "register"]
                    /\ at' = [at EXCEPT ![r] = @ + 1]
                    /\ Stage(r, "ready")
                    /\ UNCHANGED <<name, maps>>

\* memset, memory_pool_init, ring_buffer_init or tracker_init.
Fill(r) == /\ pc[r] = "fill"
           /\ pc' = [pc EXCEPT ![r] = IF at[r] < 4 THEN "create" ELSE "register"]
           /\ at' = [at EXCEPT ![r] = IF @ < 4 THEN @ + 1 ELSE 1]
           /\ Stage(r, "ready")
           /\ UNCHANGED <<name, maps>>

\* The server takes slot 0 of the directory and is done.
Register(r) == /\ Goto(r, "register", "running")
               /\ UNCHANGED <<name, stage, at, maps>>

\* What a failure of join_chat_client at a segment unmaps.
Before(s) == CASE s = "dir"     -> {}
               [] s = "pool"    -> {"dir"}
               [] s = "ring"    -> {"dir", "pool"}
               [] s = "tracker" -> {"dir", "pool", "ring"}

\* The creator's memory_pool_destroy neither unmaps nor unlinks: after
\* memory_pool_init its structure has no name any more (mempool_ring.c:62, 294).
Undo(s) == Before(s) \ {"pool"}

\* memory_pool_init_shared removes the name it has created when it fails.
PoolUndone(r) == Seg(r) = "pool" /\ pc[r] # "create"

\* Mutant of StartFails: the failure paths leave the pool alone.
StartFailsKeepsPool(r) == /\ pc[r] \in {"create", "size", "map"}
                          /\ pc' = [pc EXCEPT ![r] = "failed"]
                          /\ maps' = [maps EXCEPT ![r] = Without(@, Undo(Seg(r)))]
                          /\ UNCHANGED <<name, stage, at>>

\* shm_open, ftruncate or mmap fails: init_chat_server undoes and gives up.
StartFails(r) ==
  /\ pc[r] \in {"create", "size", "map"}
  /\ pc' = [pc EXCEPT ![r] = "failed"]
  /\ name' = IF PoolUndone(r) THEN [name EXCEPT !["pool"] = 0] ELSE name
  /\ maps' = [maps EXCEPT ![r] = Without(@, Undo(Seg(r)))]
  /\ UNCHANGED <<stage, at>>

(* cleanup_chat_server unmaps all but the pool, then removes the names. *)
Close(r) == /\ Goto(r, "running", "closing")
            /\ maps' = [maps EXCEPT ![r] = Without(@, Segs \ {"pool"})]
            /\ UNCHANGED <<name, stage, at>>

\* Mutant of UnlinkAll: the tracker's name is forgotten.
UnlinkAllButTracker(r) ==
  /\ pc[r] = "closing"
  /\ name' = [name EXCEPT ![UnlinkOrder[at[r]]] = 0]
  /\ at' = [at EXCEPT ![r] = IF @ < 3 THEN @ + 1 ELSE 1]
  /\ pc' = [pc EXCEPT ![r] = IF at[r] < 3 THEN "closing" ELSE "closed"]
  /\ UNCHANGED <<stage, maps>>

UnlinkAll(r) == Unlink(r, "closing", "closed")

-----------------------------------------------------------------------------
(* join_chat_client, in process c.  Each of its failures unmaps what has been
   mapped so far and ends the call. *)
JoinFails(c, undone) == /\ pc' = [pc EXCEPT ![c] = "out"]
                        /\ at' = [at EXCEPT ![c] = 1]
                        /\ maps' = [maps EXCEPT ![c] = Without(@, undone)]

\* Mutant of ClientUndo: a failure at the tracker forgets the ring.
ClientUndoKeepsRing(s) == Before(s) \ {"ring"}
ClientUndo(s) == Before(s)

\* Segments are opened and mapped in turn; a missing name or a failing call
\* ends the join.
Connect(c) ==
  LET s == ConnectOrder[at[c]] IN
  /\ pc[c] \in {"out", "connect"}
  /\ \/ /\ name[s] # 0
        /\ maps' = [maps EXCEPT ![c][s] = name[s]]
        /\ pc' = [pc EXCEPT ![c] = IF at[c] = 1 THEN "lookup"
                                   ELSE IF at[c] < 4 THEN "connect" ELSE "enter"]
        /\ at' = [at EXCEPT ![c] = IF @ < 4 THEN @ + 1 ELSE 1]
     \/ pc[c] = "connect" /\ JoinFails(c, ClientUndo(s))
  /\ UNCHANGED <<name, stage>>

\* The free slot and the user name are looked up in the directory.  The answers
\* "Chat is full" and "Username already in use" end the join.  A look at a
\* directory that has no size yet ends the process (SIGBUS), which is a Kill.
Lookup(c) ==
  /\ pc[c] = "lookup"
  /\ stage["dir"][maps[c]["dir"]] # "empty"
  /\ \/ /\ pc' = [pc EXCEPT ![c] = "connect"]
        /\ UNCHANGED <<at, maps>>
     \/ JoinFails(c, {"dir"})
  /\ UNCHANGED <<name, stage>>

Enter(c) == /\ Goto(c, "enter", "joined")
            /\ UNCHANGED <<name, stage, at, maps>>

(* leave_chat *)
Leave(c) == /\ Goto(c, "joined", "out")
            /\ maps' = [maps EXCEPT ![c] = Without(@, Segs)]
            /\ UNCHANGED <<name, stage, at>>

-----------------------------------------------------------------------------
\* A killed process loses its mappings and nothing else.  A client's place
\* is taken by another process.
Kill(p) == /\ pc[p] \notin Ended \cup {"unborn", "out"}
           /\ pc' = [pc EXCEPT ![p] = IF p \in Runs THEN "killed" ELSE "out"]
           /\ at' = [at EXCEPT ![p] = 1]
           /\ maps' = [maps EXCEPT ![p] = Unmapped]
           /\ UNCHANGED <<name, stage>>

Serving(r) == \/ UnlinkOld(r) \/ Create(r) \/ Size(r) \/ Map(r) \/ Fill(r)
              \/ Register(r) \/ StartFails(r) \/ Close(r) \/ UnlinkAll(r)
Joining(c) == Connect(c) \/ Lookup(c) \/ Enter(c) \/ Leave(c)

Next == \/ \E r \in Runs : Start(r) \/ Serving(r)
        \/ \E c \in Clients : Joining(c)
        \/ \E p \in Procs : Kill(p)

Spec == Init /\ [][Next]_vars

-----------------------------------------------------------------------------
ServerPCs == {"unborn", "unlink", "create", "size", "map", "fill", "register",
              "running", "closing"} \cup Ended
ClientPCs == {"out", "lookup", "connect", "enter", "joined"}

TypeOK == /\ name \in [Segs -> 0 .. MaxRuns]
          /\ stage \in [Segs -> [Runs -> {"none", "empty", "sized", "ready"}]]
          /\ pc \in [Procs -> ServerPCs \cup ClientPCs]
          /\ \A r \in Runs : pc[r] \in ServerPCs
          /\ \A c \in Clients : pc[c] \in ClientPCs
          /\ at \in [Procs -> 1 .. 4]
          /\ maps \in [Procs -> [Segs -> 0 .. MaxRuns]]

In(c) == pc[c] = "joined"
Latest(r) == pc[r] # "unborn" /\ \A q \in Runs : q > r => pc[q] = "unborn"

(* A client whose directory is the one of the latest server also has the
   pool, the ring and the tracker of that server, although servers may have
   died and started again between its four shm_opens
   (shm_manager.c:233, 280, 290 and 318). *)
SegmentsTogether ==
  \A c \in Clients, r \in Runs :
     In(c) /\ Latest(r) /\ maps[c]["dir"] = r => \A s \in Segs : maps[c][s] = r

(* A client that has joined with the segments of one server finds the
   directory cleared and the pool and the ring set up: the comment "Ring
   buffer is already initialized" (shm_manager.c:311) is right, however early
   the client came.  Nothing of the kind holds for the tracker. *)
JoinedReady ==
  \A c \in Clients, r \in Runs :
     In(c) /\ (\A s \in Segs : maps[c][s] = r) =>
        \A s \in {"dir", "pool", "ring"} : stage[s][r] = "ready"

(* The pool's name that a failed start leaves behind stands for a pool that is
   set up, so that no client attaches to one that is not; and a server that
   closed leaves no name at all (mempool_ring.c:122, 134; shm_manager.c:218-221). *)
NamesGone ==
  \A r \in Runs : /\ pc[r] = "failed" /\ name["pool"] = r => stage["pool"][r] = "ready"
                  /\ pc[r] = "closed" => \A s \in Segs : name[s] # r

(* A call of join_chat_client that fails has unmapped all that it mapped, and
   so has leave_chat; a server that failed or closed has at most its pool. *)
OnlyPoolLeft ==
  /\ \A c \in Clients : pc[c] = "out" => maps[c] = Unmapped
  /\ \A r \in Runs : pc[r] \in {"failed", "closed"} =>
                        \A s \in Segs \ {"pool"} : maps[r][s] = 0
=============================================================================
