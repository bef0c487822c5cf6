------------------------ MODULE ChatLifecycle_proofs ------------------------
(***************************************************************************)
(* Theorems about ChatLifecycle, for any set of clients and any number of  *)
(* starts of the server.                                                   *)
(*                                                                         *)
(* The inductive invariant says how far each process is in the four        *)
(* segments (Placed, Staged, Mapped), that a server starts after the       *)
(* earlier ones have ended (OneAtATime), and that from its first segment   *)
(* on all names are those of the latest server or free (NamesFresh): a     *)
(* client that has this server's directory therefore finds its other       *)
(* segments or none (OneServer).                                           *)
(***************************************************************************)
EXTENDS ChatLifecycle, TLAPS

Born(r) == pc[r] # "unborn"
Creating(r) == pc[r] \in {"create", "size", "map", "fill"}
Done(k) == Before(CreateOrder[k])

(* The place in the list of segments goes with the state. *)
Placed(p) == /\ pc[p] \in {"unborn", "register", "running"} => at[p] = 1
             /\ pc[p] \in {"out", "enter", "joined"} => at[p] = 1
             /\ pc[p] = "connect" => at[p] # 1
             /\ pc[p] = "lookup" => at[p] = 2

OneAtATime == \A r, q \in Runs : Born(r) /\ q < r => pc[q] \in Ended

(* Segments are created and set up in order. *)
Staged(r) ==
  \A s \in Segs :
     /\ pc[r] \in {"unborn", "unlink"} => stage[s][r] = "none"
     /\ Creating(r) => /\ s \in Done(at[r]) => stage[s][r] = "ready"
                       /\ s \notin Done(at[r]) \cup {Seg(r)} => stage[s][r] = "none"
     /\ pc[r] = "create" /\ s = Seg(r) => stage[s][r] = "none"
     /\ pc[r] \in {"size", "map", "fill"} /\ s = Seg(r) => stage[s][r] # "none"
     /\ s # "tracker" /\ stage["tracker"][r] # "none" => stage[s][r] = "ready"
     /\ name[s] = r => stage[s][r] # "none"

MapsStaged == \A p \in Procs, r \in Runs, s \in Segs : maps[p][s] = r => stage[s][r] # "none"

(* What is mapped is what the process has come to. *)
Mapped(p) ==
  /\ pc[p] \in {"unborn", "unlink", "killed", "out"} => maps[p] = Unmapped
  /\ pc[p] \in {"closing", "failed", "closed"} => \A s \in Segs \ {"pool"} : maps[p][s] = 0
  /\ pc[p] \in {"create", "size", "map", "lookup", "connect"} =>
        \A s \in Segs \ Done(at[p]) : maps[p][s] = 0
  /\ pc[p] = "fill" =>
        \A s \in Segs \ Done(at[p]) : s # CreateOrder[at[p]] => maps[p][s] = 0

(* The names of a server that is closing or has ended go one after another. *)
NamesGoing(r) ==
  /\ pc[r] = "failed" /\ name["pool"] = r => stage["pool"][r] = "ready"
  /\ pc[r] = "closing" => \A j \in 1 .. 4 : j < at[r] => name[UnlinkOrder[j]] # r
  /\ pc[r] = "closed" => \A s \in Segs : name[s] # r

NamesFresh(r) ==
  Latest(r) =>
     /\ pc[r] = "unlink" => \A j \in 1 .. 4 : j < at[r] => name[UnlinkOrder[j]] = 0
     /\ Creating(r) \/ stage["dir"][r] # "none" => \A s \in Segs : name[s] \in {0, r}

(* A client's segments are those of the server whose directory it has. *)
OneServer(c, r) ==
  Latest(r) /\ maps[c]["dir"] = r =>
     /\ \A s \in Segs : maps[c][s] \in {0, r}
     /\ pc[c] \in {"lookup", "connect"} => \A s \in Done(at[c]) : maps[c][s] # 0
     /\ pc[c] \in {"enter", "joined"} => \A s \in Segs : maps[c][s] # 0

IInv == /\ TypeOK /\ OneAtATime /\ MapsStaged
        /\ \A p \in Procs : Placed(p) /\ Mapped(p)
        /\ \A r \in Runs : Staged(r) /\ NamesGoing(r) /\ NamesFresh(r)
        /\ \A c \in Clients, r \in Runs : OneServer(c, r)

-----------------------------------------------------------------------------
(* The orders of the segments, as facts. *)
LEMMA Orders ==
  /\ \A k \in 1 .. 4 : /\ CreateOrder[k] \in Segs /\ UnlinkOrder[k] \in Segs
                       /\ ConnectOrder[k] = CreateOrder[k]
                       /\ CreateOrder[k] \notin Done(k) /\ Done(k) \subseteq Segs
                       /\ CreateOrder[k] = "tracker" <=> k = 4
                       /\ CreateOrder[k] = "dir" <=> k = 1
                       /\ CreateOrder[k] = "pool" <=> k = 2
                       /\ CreateOrder[k] = "ring" <=> k = 3
  /\ Done(1) = {} /\ Done(2) = {"dir"} /\ \A k \in 2 .. 4 : "dir" \in Done(k)
  /\ \A k \in 1 .. 3 : Done(k + 1) = Done(k) \cup {CreateOrder[k]}
  /\ Done(4) = {"dir", "pool", "ring"} /\ Segs = Done(4) \cup {"tracker"}
  /\ \A s \in Segs : \E k \in 1 .. 4 : UnlinkOrder[k] = s
<1>1. /\ CreateOrder[1] = "dir" /\ CreateOrder[2] = "pool"
      /\ CreateOrder[3] = "ring" /\ CreateOrder[4] = "tracker"
  BY DEF CreateOrder
<1>2. /\ UnlinkOrder[1] = "pool" /\ UnlinkOrder[2] = "ring"
      /\ UnlinkOrder[3] = "dir" /\ UnlinkOrder[4] = "tracker"
  BY DEF UnlinkOrder
<1>3. \A k \in 1 .. 4 : ConnectOrder[k] = CreateOrder[k]
  BY DEF ConnectOrder, CreateOrder
<1>4. /\ Done(1) = {} /\ Done(2) = {"dir"} /\ Done(3) = {"dir", "pool"}
      /\ Done(4) = {"dir", "pool", "ring"}
  BY <1>1 DEF Done, Before
<1>5. \A k \in 1 .. 4 : k = 1 \/ k = 2 \/ k = 3 \/ k = 4
  OBVIOUS
<1> QED
  BY <1>1, <1>2, <1>3, <1>4, <1>5 DEF Segs

LEMMA Kinds ==
  /\ Runs \subseteq Procs /\ Clients \subseteq Procs
  /\ \A p \in Procs : p \in Clients <=> p \notin Runs
  /\ \A r \in Runs : r \in Nat /\ r # 0 /\ r \in 0 .. MaxRuns
  /\ 0 \in 0 .. MaxRuns
  /\ Unmapped \in [Segs -> 0 .. MaxRuns] /\ \A s \in Segs : Unmapped[s] = 0
BY LifecycleAssumption, RunsAreNoClients DEF Procs, Runs, Unmapped

LEMMA States ==
  /\ Ended = {"failed", "closed", "killed"} /\ Ended \subseteq ServerPCs
  /\ {"unborn", "unlink", "create", "size", "map", "fill", "register", "running",
      "closing"} \subseteq ServerPCs
  /\ {"out", "lookup", "connect", "enter", "joined"} \subseteq ClientPCs
  /\ \A x \in ServerPCs : x \notin ClientPCs
BY DEF Ended, ServerPCs, ClientPCs

(* Unmapping keeps the type, and what it does to each segment. *)
LEMMA WithoutType ==
  ASSUME NEW m \in [Segs -> 0 .. MaxRuns], NEW S
  PROVE  /\ Without(m, S) \in [Segs -> 0 .. MaxRuns]
         /\ \A s \in Segs : Without(m, S)[s] = IF s \in S THEN 0 ELSE m[s]
BY Kinds DEF Without

-----------------------------------------------------------------------------
(* A step of one process leaves what the others have. *)
OthersKept(p) == \A q \in Procs \ {p} : pc'[q] = pc[q] /\ at'[q] = at[q] /\ maps'[q] = maps[q]
StagesKept(r) == \A q \in Runs \ {r}, s \in Segs : stage'[s][q] = stage[s][q]
Does(p, x, k, m) == pc'[p] = x /\ at'[p] = k /\ maps'[p] = m

MovesTyped == /\ pc' \in [Procs -> ServerPCs \cup ClientPCs]
              /\ \A r \in Runs : pc'[r] \in ServerPCs
              /\ \A c \in Clients : pc'[c] \in ClientPCs
              /\ at' \in [Procs -> 1 .. 4] /\ maps' \in [Procs -> [Segs -> 0 .. MaxRuns]]

(* Any step with well-typed new values keeps the type invariant. *)
LEMMA Moves ==
  ASSUME TypeOK, NEW p \in Procs, NEW x, NEW k \in 1 .. 4, NEW m \in [Segs -> 0 .. MaxRuns],
         p \in Runs => x \in ServerPCs, p \in Clients => x \in ClientPCs,
         pc' = [pc EXCEPT ![p] = x], at' = [at EXCEPT ![p] = k],
         maps' = [maps EXCEPT ![p] = m]
  PROVE  OthersKept(p) /\ Does(p, x, k, m) /\ MovesTyped
BY Kinds DEF TypeOK, OthersKept, Does, MovesTyped

LEMMA Stages ==
  ASSUME TypeOK, NEW r \in Runs, NEW s \in Segs, NEW w \in {"none", "empty", "sized", "ready"},
         stage' = [stage EXCEPT ![s][r] = w]
  PROVE  /\ StagesKept(r) /\ stage'[s][r] = w
         /\ \A t \in Segs \ {s} : stage'[t][r] = stage[t][r]
         /\ stage' \in [Segs -> [Runs -> {"none", "empty", "sized", "ready"}]]
BY DEF TypeOK, StagesKept

LEMMA Same ==
  ASSUME TypeOK, NEW p \in Procs
  PROVE  /\ at[p] \in 1 .. 4 /\ maps[p] \in [Segs -> 0 .. MaxRuns]
         /\ at = [at EXCEPT ![p] = at[p]] /\ maps = [maps EXCEPT ![p] = maps[p]]
         /\ CreateOrder[at[p]] \in Segs
         /\ p \in Runs => Seg(p) = CreateOrder[at[p]]
         /\ at[p] < 4 => at[p] + 1 \in 1 .. 4
BY Orders DEF TypeOK, Seg

-----------------------------------------------------------------------------
(* What each action does, field by field. *)
LEMMA StartDoes ==
  ASSUME TypeOK, NEW r \in Runs, Start(r)
  PROVE  /\ TypeOK' /\ OthersKept(r) /\ StagesKept(r) /\ UNCHANGED <<name, stage>>
         /\ Does(r, "unlink", at[r], maps[r])
<1>1. /\ pc' = [pc EXCEPT ![r] = "unlink"] /\ at' = [at EXCEPT ![r] = at[r]]
      /\ maps' = [maps EXCEPT ![r] = maps[r]] /\ UNCHANGED <<name, stage>>
  BY Kinds, Same DEF Start, Goto
<1>2. MovesTyped /\ OthersKept(r) /\ Does(r, "unlink", at[r], maps[r])
  BY <1>1, Moves, Kinds, Same, States
<1> QED
  BY <1>1, <1>2 DEF TypeOK, MovesTyped, StagesKept

LEMMA UnlinkDoes ==
  ASSUME TypeOK, NEW r \in Runs, NEW from \in ServerPCs, NEW to \in ServerPCs,
         Unlink(r, from, to)
  PROVE  /\ TypeOK' /\ OthersKept(r) /\ StagesKept(r) /\ UNCHANGED stage
         /\ Does(r, IF at[r] < 4 THEN from ELSE to, IF at[r] < 4 THEN at[r] + 1 ELSE 1, maps[r])
         /\ \A s \in Segs : name'[s] = IF s = UnlinkOrder[at[r]] THEN 0 ELSE name[s]
<1> DEFINE x == IF at[r] < 4 THEN from ELSE to
           k == IF at[r] < 4 THEN at[r] + 1 ELSE 1
<1>1. /\ pc' = [pc EXCEPT ![r] = x] /\ at' = [at EXCEPT ![r] = k]
      /\ maps' = [maps EXCEPT ![r] = maps[r]] /\ UNCHANGED stage
      /\ name' = [name EXCEPT ![UnlinkOrder[at[r]]] = 0]
  BY Kinds, Same DEF Unlink, TypeOK
<1>2. x \in ServerPCs /\ k \in 1 .. 4
  BY Kinds, Same
<1>3. /\ name' \in [Segs -> 0 .. MaxRuns]
      /\ \A s \in Segs : name'[s] = IF s = UnlinkOrder[at[r]] THEN 0 ELSE name[s]
  BY <1>1, Kinds, Same, Orders DEF TypeOK
<1> HIDE DEF x, k
<1>4. MovesTyped /\ OthersKept(r) /\ Does(r, x, k, maps[r])
  BY <1>1, <1>2, Moves, Kinds, Same
<1> QED
  BY <1>1, <1>3, <1>4 DEF TypeOK, MovesTyped, StagesKept, x, k

LEMMA CreateDoes ==
  ASSUME TypeOK, NEW r \in Runs, Create(r)
  PROVE  /\ TypeOK' /\ OthersKept(r) /\ StagesKept(r)
         /\ Does(r, "size", at[r], maps[r])
         /\ \A s \in Segs : /\ name'[s] = IF s = Seg(r) THEN r ELSE name[s]
                            /\ stage'[s][r] = IF s = Seg(r) THEN "empty" ELSE stage[s][r]
<1>1. /\ pc' = [pc EXCEPT ![r] = "size"] /\ at' = [at EXCEPT ![r] = at[r]]
      /\ maps' = [maps EXCEPT ![r] = maps[r]]
      /\ name' = [name EXCEPT ![Seg(r)] = r]
      /\ stage' = [stage EXCEPT ![Seg(r)][r] = "empty"]
  BY Kinds, Same DEF Create, Goto, Stage
<1>2. Seg(r) \in Segs
  BY Kinds, Same
<1>3. /\ name' \in [Segs -> 0 .. MaxRuns]
      /\ \A s \in Segs : name'[s] = IF s = Seg(r) THEN r ELSE name[s]
  BY <1>1, <1>2, Kinds DEF TypeOK
<1>4. /\ StagesKept(r)
      /\ \A s \in Segs : stage'[s][r] = IF s = Seg(r) THEN "empty" ELSE stage[s][r]
      /\ stage' \in [Segs -> [Runs -> {"none", "empty", "sized", "ready"}]]
  BY <1>1, <1>2, Stages, ZenonT(40)
<1>5. MovesTyped /\ OthersKept(r) /\ Does(r, "size", at[r], maps[r])
  BY <1>1, Moves, Kinds, Same, States
<1> QED
  BY <1>3, <1>4, <1>5 DEF TypeOK, MovesTyped

LEMMA SizeDoes ==
  ASSUME TypeOK, NEW r \in Runs, Size(r)
  PROVE  /\ TypeOK' /\ OthersKept(r) /\ StagesKept(r) /\ UNCHANGED name
         /\ Does(r, "map", at[r], maps[r])
         /\ \A s \in Segs : stage'[s][r] = IF s = Seg(r) THEN "sized" ELSE stage[s][r]
<1>1. /\ pc' = [pc EXCEPT ![r] = "map"] /\ at' = [at EXCEPT ![r] = at[r]]
      /\ maps' = [maps EXCEPT ![r] = maps[r]] /\ UNCHANGED name
      /\ stage' = [stage EXCEPT ![Seg(r)][r] = "sized"]
  BY Kinds, Same DEF Size, Goto, Stage
<1>2. Seg(r) \in Segs
  BY Kinds, Same
<1>3. /\ StagesKept(r)
      /\ \A s \in Segs : stage'[s][r] = IF s = Seg(r) THEN "sized" ELSE stage[s][r]
      /\ stage' \in [Segs -> [Runs -> {"none", "empty", "sized", "ready"}]]
  BY <1>1, <1>2, Stages
<1>4. MovesTyped /\ OthersKept(r) /\ Does(r, "map", at[r], maps[r])
  BY <1>1, Moves, Kinds, Same, States
<1> QED
  BY <1>1, <1>3, <1>4 DEF TypeOK, MovesTyped

LEMMA MapDoes ==
  ASSUME TypeOK, NEW r \in Runs, Map(r)
  PROVE  /\ TypeOK' /\ OthersKept(r) /\ StagesKept(r) /\ UNCHANGED <<name, stage>>
         /\ pc'[r] = "fill" /\ at'[r] = at[r]
         /\ \A s \in Segs : maps'[r][s] = IF s = Seg(r) THEN r ELSE maps[r][s]
<1> DEFINE m == [maps[r] EXCEPT ![Seg(r)] = r]
<1>1. /\ pc' = [pc EXCEPT ![r] = "fill"] /\ at' = [at EXCEPT ![r] = at[r]]
      /\ maps' = [maps EXCEPT ![r] = m] /\ UNCHANGED <<name, stage>>
  BY Kinds, Same DEF Map, Goto, TypeOK
<1>2. /\ m \in [Segs -> 0 .. MaxRuns]
      /\ \A s \in Segs : m[s] = IF s = Seg(r) THEN r ELSE maps[r][s]
  BY Kinds, Same
<1> HIDE DEF m
<1>3. MovesTyped /\ OthersKept(r) /\ Does(r, "fill", at[r], m)
  BY <1>1, <1>2, Moves, Kinds, Same, States
<1> QED
  BY <1>1, <1>2, <1>3 DEF TypeOK, MovesTyped, Does, StagesKept

LEMMA FillDoes ==
  ASSUME TypeOK, NEW r \in Runs, Fill(r)
  PROVE  /\ TypeOK' /\ OthersKept(r) /\ StagesKept(r) /\ UNCHANGED name
         /\ Does(r, IF at[r] < 4 THEN "create" ELSE "register",
                    IF at[r] < 4 THEN at[r] + 1 ELSE 1, maps[r])
         /\ \A s \in Segs : stage'[s][r] = IF s = Seg(r) THEN "ready" ELSE stage[s][r]
<1> DEFINE x == IF at[r] < 4 THEN "create" ELSE "register"
           k == IF at[r] < 4 THEN at[r] + 1 ELSE 1
<1>1. /\ pc' = [pc EXCEPT ![r] = x] /\ at' = [at EXCEPT ![r] = k]
      /\ maps' = [maps EXCEPT ![r] = maps[r]] /\ UNCHANGED name
      /\ stage' = [stage EXCEPT ![Seg(r)][r] = "ready"]
  BY Kinds, Same DEF Fill, Stage, TypeOK
<1>2. x \in ServerPCs /\ k \in 1 .. 4 /\ Seg(r) \in Segs
  BY Kinds, Same, States
<1> HIDE DEF x, k
<1>3. /\ StagesKept(r)
      /\ \A s \in Segs : stage'[s][r] = IF s = Seg(r) THEN "ready" ELSE stage[s][r]
      /\ stage' \in [Segs -> [Runs -> {"none", "empty", "sized", "ready"}]]
  BY <1>1, <1>2, Stages, ZenonT(40)
<1>4. MovesTyped /\ OthersKept(r) /\ Does(r, x, k, maps[r])
  BY <1>1, <1>2, Moves, Kinds, Same
<1> QED
  BY <1>1, <1>3, <1>4 DEF TypeOK, MovesTyped, x, k

LEMMA RegisterDoes ==
  ASSUME TypeOK, NEW r \in Runs, Register(r)
  PROVE  /\ TypeOK' /\ OthersKept(r) /\ StagesKept(r) /\ UNCHANGED <<name, stage>>
         /\ Does(r, "running", at[r], maps[r])
<1>1. /\ pc' = [pc EXCEPT ![r] = "running"] /\ at' = [at EXCEPT ![r] = at[r]]
      /\ maps' = [maps EXCEPT ![r] = maps[r]] /\ UNCHANGED <<name, stage>>
  BY Kinds, Same DEF Register, Goto
<1>2. MovesTyped /\ OthersKept(r) /\ Does(r, "running", at[r], maps[r])
  BY <1>1, Moves, Kinds, Same, States
<1> QED
  BY <1>1, <1>2 DEF TypeOK, MovesTyped, StagesKept

LEMMA StartFailsDoes ==
  ASSUME TypeOK, NEW r \in Runs, StartFails(r)
  PROVE  /\ TypeOK' /\ OthersKept(r) /\ StagesKept(r) /\ UNCHANGED stage
         /\ pc'[r] = "failed" /\ at'[r] = at[r]
         /\ \A s \in Segs : /\ maps'[r][s] = IF s \in Done(at[r]) \ {"pool"} THEN 0 ELSE maps[r][s]
                            /\ name'[s] = IF s = "pool" /\ PoolUndone(r) THEN 0 ELSE name[s]
<1> DEFINE m == Without(maps[r], Done(at[r]) \ {"pool"})
<1>1. /\ pc' = [pc EXCEPT ![r] = "failed"] /\ at' = [at EXCEPT ![r] = at[r]]
      /\ maps' = [maps EXCEPT ![r] = m] /\ UNCHANGED stage
      /\ name' = IF PoolUndone(r) THEN [name EXCEPT !["pool"] = 0] ELSE name
  BY Kinds, Same DEF StartFails, Done, Undo, TypeOK
<1>2. /\ m \in [Segs -> 0 .. MaxRuns]
      /\ \A s \in Segs : m[s] = IF s \in Done(at[r]) \ {"pool"} THEN 0 ELSE maps[r][s]
  BY Kinds, Same, WithoutType
<1> HIDE DEF m
<1>3. MovesTyped /\ OthersKept(r) /\ Does(r, "failed", at[r], m)
  BY <1>1, <1>2, Moves, Kinds, Same, States
<1>4. /\ name' \in [Segs -> 0 .. MaxRuns]
      /\ \A s \in Segs : name'[s] = IF s = "pool" /\ PoolUndone(r) THEN 0 ELSE name[s]
  BY <1>1, Kinds DEF TypeOK
<1> QED
  BY <1>1, <1>2, <1>3, <1>4 DEF TypeOK, MovesTyped, Does, StagesKept

LEMMA CloseDoes ==
  ASSUME TypeOK, NEW r \in Runs, Close(r)
  PROVE  /\ TypeOK' /\ OthersKept(r) /\ StagesKept(r) /\ UNCHANGED <<name, stage>>
         /\ pc[r] = "running" /\ pc'[r] = "closing" /\ at'[r] = at[r]
         /\ \A s \in Segs : maps'[r][s] = IF s = "pool" THEN maps[r][s] ELSE 0
<1> DEFINE m == Without(maps[r], Segs \ {"pool"})
<1>1. /\ pc' = [pc EXCEPT ![r] = "closing"] /\ at' = [at EXCEPT ![r] = at[r]]
      /\ maps' = [maps EXCEPT ![r] = m] /\ UNCHANGED <<name, stage>> /\ pc[r] = "running"
  BY Kinds, Same DEF Close, Goto, TypeOK
<1>2. /\ m \in [Segs -> 0 .. MaxRuns]
      /\ \A s \in Segs : m[s] = IF s = "pool" THEN maps[r][s] ELSE 0
  BY Kinds, Same, WithoutType
<1> HIDE DEF m
<1>3. MovesTyped /\ OthersKept(r) /\ Does(r, "closing", at[r], m)
  BY <1>1, <1>2, Moves, Kinds, Same, States
<1> QED
  BY <1>1, <1>2, <1>3 DEF TypeOK, MovesTyped, Does, StagesKept

LEMMA ConnectDoes ==
  ASSUME TypeOK, NEW c \in Clients, Connect(c)
  PROVE  /\ TypeOK' /\ OthersKept(c) /\ UNCHANGED <<name, stage>>
         /\ pc[c] \in {"out", "connect"}
         /\ \/ /\ name[CreateOrder[at[c]]] # 0
               /\ pc'[c] = IF at[c] = 1 THEN "lookup" ELSE IF at[c] < 4 THEN "connect" ELSE "enter"
               /\ at'[c] = IF at[c] < 4 THEN at[c] + 1 ELSE 1
               /\ \A s \in Segs : maps'[c][s] = IF s = CreateOrder[at[c]] THEN name[s] ELSE maps[c][s]
            \/ /\ pc[c] = "connect" /\ pc'[c] = "out" /\ at'[c] = 1
               /\ \A s \in Segs : maps'[c][s] = IF s \in Done(at[c]) THEN 0 ELSE maps[c][s]
<1> DEFINE s == CreateOrder[at[c]]
           x == IF at[c] = 1 THEN "lookup" ELSE IF at[c] < 4 THEN "connect" ELSE "enter"
           k == IF at[c] < 4 THEN at[c] + 1 ELSE 1
           m == [maps[c] EXCEPT ![s] = name[s]]
           n == Without(maps[c], Done(at[c]))
<1>1. /\ pc[c] \in {"out", "connect"} /\ UNCHANGED <<name, stage>> /\ ConnectOrder[at[c]] = s
  BY Kinds, Same, Orders DEF Connect
<1>2. \/ /\ name[s] # 0
         /\ maps' = [maps EXCEPT ![c] = m] /\ pc' = [pc EXCEPT ![c] = x]
         /\ at' = [at EXCEPT ![c] = k]
      \/ /\ pc[c] = "connect" /\ pc' = [pc EXCEPT ![c] = "out"] /\ at' = [at EXCEPT ![c] = 1]
         /\ maps' = [maps EXCEPT ![c] = n]
  BY <1>1, Kinds, Same DEF Connect, JoinFails, ClientUndo, Done, TypeOK
<1>3. s \in Segs /\ x \in ClientPCs /\ k \in 1 .. 4 /\ c \in Procs /\ c \notin Runs
  BY Kinds, Same, States
<1>4. /\ m \in [Segs -> 0 .. MaxRuns]
      /\ \A t \in Segs : m[t] = IF t = s THEN name[t] ELSE maps[c][t]
  BY <1>3, Kinds, Same DEF TypeOK
<1>5. /\ n \in [Segs -> 0 .. MaxRuns]
      /\ \A t \in Segs : n[t] = IF t \in Done(at[c]) THEN 0 ELSE maps[c][t]
  BY <1>3, Kinds, Same, WithoutType
<1> HIDE DEF m, n, x, k, s
<1>6. CASE name[s] # 0 /\ maps' = [maps EXCEPT ![c] = m] /\ pc' = [pc EXCEPT ![c] = x]
           /\ at' = [at EXCEPT ![c] = k]
  <2>1. MovesTyped /\ OthersKept(c) /\ Does(c, x, k, m)
    BY <1>3, <1>4, <1>6, Moves
  <2>2. \A t \in Segs : maps'[c][t] = IF t = s THEN name[t] ELSE maps[c][t]
    BY <1>4, <2>1 DEF Does
  <2>3. pc'[c] = x /\ at'[c] = k /\ TypeOK'
    BY <1>1, <2>1 DEF TypeOK, MovesTyped, Does
  <2> QED
    BY <1>1, <1>6, <2>1, <2>2, <2>3 DEF x, k, s
<1>7. CASE pc[c] = "connect" /\ pc' = [pc EXCEPT ![c] = "out"] /\ at' = [at EXCEPT ![c] = 1]
           /\ maps' = [maps EXCEPT ![c] = n]
  <2>1. MovesTyped /\ OthersKept(c) /\ Does(c, "out", 1, n)
    <3> DEFINE x0 == "out"
               k0 == 1
    <3>1. /\ pc' = [pc EXCEPT ![c] = x0] /\ at' = [at EXCEPT ![c] = k0]
          /\ x0 \in ClientPCs /\ k0 \in 1 .. 4
      BY <1>7, States
    <3> HIDE DEF x0, k0
    <3>2. MovesTyped /\ OthersKept(c) /\ Does(c, x0, k0, n)
      BY <3>1, <1>3, <1>5, <1>7, Moves
    <3> QED
      BY <3>2 DEF x0, k0
  <2> QED
    BY <1>1, <1>5, <1>7, <2>1 DEF TypeOK, MovesTyped, Does
<1> QED
  BY <1>2, <1>6, <1>7

LEMMA LookupDoes ==
  ASSUME TypeOK, NEW c \in Clients, Lookup(c)
  PROVE  /\ TypeOK' /\ OthersKept(c) /\ UNCHANGED <<name, stage>> /\ pc[c] = "lookup"
         /\ \/ Does(c, "connect", at[c], maps[c])
            \/ /\ pc'[c] = "out" /\ at'[c] = 1
               /\ \A s \in Segs : maps'[c][s] = IF s = "dir" THEN 0 ELSE maps[c][s]
<1> DEFINE n == Without(maps[c], {"dir"})
<1>1. /\ pc[c] = "lookup" /\ UNCHANGED <<name, stage>>
      /\ \/ /\ pc' = [pc EXCEPT ![c] = "connect"] /\ at' = [at EXCEPT ![c] = at[c]]
            /\ maps' = [maps EXCEPT ![c] = maps[c]]
         \/ /\ pc' = [pc EXCEPT ![c] = "out"] /\ at' = [at EXCEPT ![c] = 1]
            /\ maps' = [maps EXCEPT ![c] = n]
  BY Kinds, Same DEF Lookup, JoinFails, TypeOK
<1>2. /\ n \in [Segs -> 0 .. MaxRuns]
      /\ \A s \in Segs : n[s] = IF s = "dir" THEN 0 ELSE maps[c][s]
  BY Kinds, Same, WithoutType
<1> HIDE DEF n
<1>3. MovesTyped /\ OthersKept(c) /\ (Does(c, "connect", at[c], maps[c]) \/ Does(c, "out", 1, n))
  BY <1>1, <1>2, Moves, Kinds, Same, States
<1> QED
  BY <1>1, <1>2, <1>3 DEF TypeOK, MovesTyped, Does

LEMMA EnterDoes ==
  ASSUME TypeOK, NEW c \in Clients, Enter(c)
  PROVE  /\ TypeOK' /\ OthersKept(c) /\ UNCHANGED <<name, stage>>
         /\ pc[c] = "enter" /\ Does(c, "joined", at[c], maps[c])
<1>1. /\ pc' = [pc EXCEPT ![c] = "joined"] /\ at' = [at EXCEPT ![c] = at[c]]
      /\ maps' = [maps EXCEPT ![c] = maps[c]] /\ UNCHANGED <<name, stage>> /\ pc[c] = "enter"
  BY Kinds, Same DEF Enter, Goto
<1>2. MovesTyped /\ OthersKept(c) /\ Does(c, "joined", at[c], maps[c])
  BY <1>1, Moves, Kinds, Same, States
<1> QED
  BY <1>1, <1>2 DEF TypeOK, MovesTyped

(* A process that leaves, or is killed, has nothing mapped any more. *)
LEMMA LeaveDoes ==
  ASSUME TypeOK, NEW c \in Clients, Leave(c)
  PROVE  /\ TypeOK' /\ OthersKept(c) /\ UNCHANGED <<name, stage>>
         /\ pc[c] = "joined" /\ Does(c, "out", at[c], Unmapped)
<1>1. Without(maps[c], Segs) = Unmapped
  BY DEF Without, Unmapped
<1>2. /\ pc' = [pc EXCEPT ![c] = "out"] /\ at' = [at EXCEPT ![c] = at[c]]
      /\ maps' = [maps EXCEPT ![c] = Unmapped] /\ UNCHANGED <<name, stage>> /\ pc[c] = "joined"
  BY <1>1, Kinds, Same DEF Leave, Goto, TypeOK
<1>3. MovesTyped /\ OthersKept(c) /\ Does(c, "out", at[c], Unmapped)
  BY <1>2, Moves, Kinds, Same, States
<1> QED
  BY <1>2, <1>3 DEF TypeOK, MovesTyped

LEMMA KillDoes ==
  ASSUME TypeOK, NEW p \in Procs, Kill(p)
  PROVE  /\ TypeOK' /\ OthersKept(p) /\ UNCHANGED <<name, stage>>
         /\ pc[p] \notin Ended \cup {"unborn", "out"}
         /\ Does(p, IF p \in Runs THEN "killed" ELSE "out", 1, Unmapped)
<1> DEFINE x == IF p \in Runs THEN "killed" ELSE "out"
           k == 1
<1>1. /\ pc' = [pc EXCEPT ![p] = x] /\ at' = [at EXCEPT ![p] = k]
      /\ maps' = [maps EXCEPT ![p] = Unmapped] /\ UNCHANGED <<name, stage>>
      /\ pc[p] \notin Ended \cup {"unborn", "out"}
  BY DEF Kill
<1>2. /\ k \in 1 .. 4
      /\ p \in Runs => x \in ServerPCs
      /\ p \in Clients => x \in ClientPCs
  BY Kinds, States
<1> HIDE DEF x, k
<1>3. MovesTyped /\ OthersKept(p) /\ Does(p, x, k, Unmapped)
  BY <1>1, <1>2, Moves, Kinds
<1> QED
  BY <1>1, <1>3 DEF TypeOK, MovesTyped, x, k

-----------------------------------------------------------------------------
(* What a step of one process leaves of the others' parts of the invariant. *)
NamesMove(p) == \A s \in Segs : name'[s] = name[s] \/ name'[s] = 0 \/ name'[s] = p
StagesGrow == \A s \in Segs, q \in Runs : stage[s][q] # "none" => stage'[s][q] # "none"

LEMMA OthersKeep ==
  ASSUME IInv, NEW p \in Procs, OthersKept(p), StagesKept(p), NamesMove(p),
         NEW q \in Procs \ {p}
  PROVE  /\ Placed(q)' /\ Mapped(q)'
         /\ q \in Runs => Staged(q)' /\ NamesGoing(q)'
<1>1. /\ pc'[q] = pc[q] /\ at'[q] = at[q] /\ maps'[q] = maps[q]
      /\ Placed(q) /\ Mapped(q)
  BY DEF OthersKept, IInv
<1>2. Placed(q)' /\ Mapped(q)'
  BY <1>1 DEF Placed, Mapped
<1>3. ASSUME q \in Runs PROVE Staged(q)' /\ NamesGoing(q)'
  <2>1. /\ \A s \in Segs : name'[s] = q => name[s] = q
        /\ \A s \in Segs : stage'[s][q] = stage[s][q]
        /\ Staged(q) /\ NamesGoing(q)
    BY <1>3, Kinds DEF NamesMove, StagesKept, IInv
  <2>2. "pool" \in Segs /\ "tracker" \in Segs /\ \A j \in 1 .. 4 : UnlinkOrder[j] \in Segs
    BY Orders DEF Segs
  <2>3. Staged(q)'
    BY <1>1, <2>1, <2>2 DEF Staged, Creating, Seg
  <2>4. NamesGoing(q)'
    BY <1>1, <2>1, <2>2 DEF NamesGoing
  <2> QED
    BY <2>3, <2>4
<1> QED
  BY <1>2, <1>3

(* A server acts only while it is the latest. *)
LEMMA OnlyLatest ==
  ASSUME OneAtATime, NEW r \in Runs, OthersKept(r), pc[r] \notin Ended, pc'[r] # "unborn",
         pc[r] = "unborn" => \A q \in 1 .. r - 1 : pc[q] \in Ended
  PROVE  /\ OneAtATime'
         /\ \A q \in Runs : Latest(q)' => q = r
         /\ Latest(r)' /\ pc[r] # "unborn" => Latest(r)
<1>1. \A q \in Runs \ {r} : pc'[q] = pc[q]
  BY Kinds DEF OthersKept
<1>2. \A q \in Runs : q < r => pc[q] \in Ended
  BY Kinds DEF OneAtATime, Born, Runs
<1>3. \A q \in Runs : r < q => pc[q] = "unborn"
  BY DEF OneAtATime, Born
<1>4. \A q \in Runs : q < r \/ q = r \/ r < q
  BY Kinds
<1> QED
  BY <1>1, <1>2, <1>3, <1>4, Kinds DEF OneAtATime, Born, Latest

LEMMA MapsStagedKept ==
  ASSUME MapsStaged, NEW p \in Procs, OthersKept(p), StagesGrow,
         \A s \in Segs, q \in Runs : maps'[p][s] = q => maps[p][s] = q \/ stage'[s][q] # "none"
  PROVE  MapsStaged'
BY DEF MapsStaged, OthersKept, StagesGrow

LEMMA RunKeeps ==
  ASSUME IInv, TypeOK', NEW r \in Runs, OthersKept(r), StagesKept(r), NamesMove(r), StagesGrow,
         pc[r] \notin Ended, pc'[r] # "unborn",
         pc[r] = "unborn" => \A q \in 1 .. r - 1 : pc[q] \in Ended,
         \A s \in Segs, q \in Runs : maps'[r][s] = q => maps[r][s] = q \/ stage'[s][q] # "none",
         Placed(r)', Mapped(r)', Staged(r)', NamesGoing(r)',
         Latest(r)' => NamesFresh(r)'
  PROVE  IInv'
<1>1. OneAtATime' /\ MapsStaged'
  BY OnlyLatest, MapsStagedKept, Kinds DEF IInv
<1>2. \A p \in Procs : Placed(p)' /\ Mapped(p)'
  BY OthersKeep, Kinds
<1>3. \A q \in Runs : Staged(q)' /\ NamesGoing(q)'
  BY OthersKeep, Kinds
<1>4. \A q \in Runs : NamesFresh(q)'
  <2>1. \A q \in Runs : Latest(q)' => q = r
    BY OnlyLatest DEF IInv
  <2> QED
    BY <2>1 DEF NamesFresh
<1>5. ASSUME NEW c \in Clients, NEW q \in Runs PROVE OneServer(c, q)'
  <2>1. /\ Latest(q)' => q = r
        /\ Latest(r)' /\ pc[r] # "unborn" => Latest(r)
    BY OnlyLatest DEF IInv
  <2>2. pc'[c] = pc[c] /\ at'[c] = at[c] /\ maps'[c] = maps[c]
    BY Kinds DEF OthersKept
  <2>3. "dir" \in Segs
    BY DEF Segs
  <2>4. pc[r] = "unborn" => maps[c]["dir"] # r
    BY <2>3, Kinds DEF IInv, MapsStaged, Staged
  <2>5. OneServer(c, r)
    BY DEF IInv
  <2> QED
    BY <2>1, <2>2, <2>4, <2>5 DEF OneServer
<1> QED
  BY <1>1, <1>2, <1>3, <1>4, <1>5 DEF IInv

LEMMA ClientKeeps ==
  ASSUME IInv, TypeOK', NEW c \in Clients, OthersKept(c), UNCHANGED <<name, stage>>,
         \A s \in Segs, q \in Runs : maps'[c][s] = q => maps[c][s] = q \/ stage'[s][q] # "none",
         Placed(c)', Mapped(c)', \A r \in Runs : Latest(r) => OneServer(c, r)'
  PROVE  IInv'
<1>1. c \in Procs /\ c \notin Runs /\ StagesKept(c) /\ NamesMove(c) /\ StagesGrow
  BY Kinds DEF StagesKept, NamesMove, StagesGrow
<1>2. \A r \in Runs : pc'[r] = pc[r] /\ at'[r] = at[r]
  BY <1>1, Kinds DEF OthersKept
<1>3. OneAtATime' /\ MapsStaged'
  BY <1>1, <1>2, MapsStagedKept DEF IInv, OneAtATime, Born
<1>4. \A p \in Procs : Placed(p)' /\ Mapped(p)'
  BY <1>1, OthersKeep
<1>5. \A q \in Runs : Staged(q)' /\ NamesGoing(q)'
  BY <1>1, OthersKeep, Kinds
<1>6. \A r \in Runs : Latest(r)' <=> Latest(r)
  BY <1>2 DEF Latest
<1>7. \A r \in Runs : NamesFresh(r)'
  BY <1>2, <1>6 DEF IInv, NamesFresh, Creating
<1>8. \A d \in Clients, r \in Runs : OneServer(d, r)'
  <2>1. \A d \in Clients \ {c} : pc'[d] = pc[d] /\ at'[d] = at[d] /\ maps'[d] = maps[d]
    BY Kinds DEF OthersKept
  <2>2. \A d \in Clients \ {c}, r \in Runs : OneServer(d, r)'
    BY <2>1, <1>6 DEF IInv, OneServer
  <2>3. \A r \in Runs : OneServer(c, r)'
    BY <1>6 DEF OneServer
  <2> QED
    BY <2>2, <2>3
<1> QED
  BY <1>3, <1>4, <1>5, <1>7, <1>8 DEF IInv

(* A client that is out of the chat has no segments to be compared. *)
LEMMA OutKeeps ==
  ASSUME IInv, TypeOK', NEW c \in Clients, OthersKept(c), UNCHANGED <<name, stage>>,
         pc'[c] = "out", at'[c] = 1, \A s \in Segs : maps'[c][s] = 0
  PROVE  IInv'
<1>1. maps'[c] = [s \in Segs |-> maps'[c][s]]
  BY Kinds DEF TypeOK
<1>2. maps'[c] = Unmapped
  BY <1>1 DEF Unmapped
<1>3. Placed(c)' /\ Mapped(c)'
  BY <1>2, States DEF Placed, Mapped
<1>4. \A r \in Runs : OneServer(c, r)'
  BY Kinds DEF OneServer, Segs
<1> QED
  BY <1>3, <1>4, ClientKeeps, Kinds

-----------------------------------------------------------------------------
(* Each action of a server preserves the invariant. *)
LEMMA StartKeeps ==
  ASSUME IInv, NEW r \in Runs, Start(r)
  PROVE  IInv'
<1>1. /\ TypeOK' /\ OthersKept(r) /\ StagesKept(r) /\ UNCHANGED <<name, stage>>
      /\ Does(r, "unlink", at[r], maps[r])
  BY StartDoes DEF IInv
<1>2. pc[r] = "unborn" /\ \A q \in 1 .. r - 1 : pc[q] \in Ended
  BY DEF Start, Goto
<1>3. NamesMove(r) /\ StagesGrow
  BY <1>1 DEF NamesMove, StagesGrow
<1>4. Placed(r) /\ Mapped(r) /\ Staged(r) /\ at[r] = 1
  BY <1>2, Kinds DEF IInv, Placed
<1>5. Placed(r)' /\ Mapped(r)' /\ Staged(r)' /\ NamesGoing(r)'
  BY <1>1, <1>2, <1>4, States DEF Does, Placed, Mapped, Staged, NamesGoing, Creating
<1>6. NamesFresh(r)'
  BY <1>1, <1>2, <1>4 DEF Does, NamesFresh, Creating, Staged, Segs
<1> QED
  BY <1>1, <1>2, <1>3, <1>5, <1>6, RunKeeps, States DEF Does

LEMMA UnlinkOldKeeps ==
  ASSUME IInv, NEW r \in Runs, UnlinkOld(r)
  PROVE  IInv'
<1>1. /\ TypeOK' /\ OthersKept(r) /\ StagesKept(r) /\ UNCHANGED stage
      /\ Does(r, IF at[r] < 4 THEN "unlink" ELSE "create",
                 IF at[r] < 4 THEN at[r] + 1 ELSE 1, maps[r])
      /\ \A s \in Segs : name'[s] = IF s = UnlinkOrder[at[r]] THEN 0 ELSE name[s]
  BY UnlinkDoes, States DEF IInv, UnlinkOld
<1>2. pc[r] = "unlink" /\ at[r] \in 1 .. 4
  BY Kinds, Same DEF UnlinkOld, Unlink, IInv
<1>3. NamesMove(r) /\ StagesGrow
  BY <1>1 DEF NamesMove, StagesGrow
<1>4. Placed(r) /\ Mapped(r) /\ Staged(r) /\ NamesFresh(r)
  BY Kinds DEF IInv
<1>5. Placed(r)' /\ NamesGoing(r)'
  BY <1>1, <1>2 DEF Does, Placed, NamesGoing
<1>6. Mapped(r)'
  BY <1>1, <1>2, <1>4, Kinds, States, Orders DEF Does, Mapped
<1>7. Staged(r)'
  BY <1>1, <1>2, <1>4, Kinds, Orders DEF Does, Staged, Creating, Segs
<1>8. ASSUME Latest(r)' PROVE NamesFresh(r)'
  <2>1. Latest(r)
    BY <1>1, <1>2, <1>8, OnlyLatest, States DEF IInv, Does
  <2>2. /\ \A j \in 1 .. 4 : j < at[r] => name[UnlinkOrder[j]] = 0
        /\ stage["dir"][r] = "none"
    BY <1>2, <1>4, <2>1 DEF NamesFresh, Staged, Segs
  <2>3. \A j \in 1 .. 4 : j <= at[r] => name'[UnlinkOrder[j]] = 0
    BY <1>1, <1>2, <2>2, Orders
  <2>4. CASE at[r] < 4
    BY <1>1, <1>2, <2>2, <2>3, <2>4 DEF Does, NamesFresh, Creating
  <2>5. CASE at[r] = 4
    <3>1. \A s \in Segs : name'[s] = 0
      BY <2>3, <2>5, Orders
    <3> QED
      BY <1>1, <2>2, <2>5, <3>1 DEF Does, NamesFresh
  <2> QED
    BY <1>2, <2>4, <2>5
<1>9. pc'[r] # "unborn" /\ maps'[r] = maps[r] /\ pc[r] \notin Ended
  BY <1>1, <1>2, States DEF Does
<1> QED
  BY <1>1, <1>2, <1>3, <1>5, <1>6, <1>7, <1>8, <1>9, RunKeeps

LEMMA CreateKeeps ==
  ASSUME IInv, NEW r \in Runs, Create(r)
  PROVE  IInv'
<1>1. /\ TypeOK' /\ OthersKept(r) /\ StagesKept(r)
      /\ Does(r, "size", at[r], maps[r])
      /\ \A s \in Segs : /\ name'[s] = IF s = Seg(r) THEN r ELSE name[s]
                         /\ stage'[s][r] = IF s = Seg(r) THEN "empty" ELSE stage[s][r]
  BY CreateDoes DEF IInv
<1>2. /\ pc[r] = "create" /\ at[r] \in 1 .. 4 /\ Seg(r) = CreateOrder[at[r]]
      /\ Seg(r) \in Segs /\ Seg(r)' = Seg(r)
  BY <1>1, Kinds, Same DEF Create, Goto, IInv, Does, Seg
<1>3. NamesMove(r) /\ StagesGrow
  BY <1>1 DEF NamesMove, StagesGrow, StagesKept
<1>4. Placed(r) /\ Mapped(r) /\ Staged(r) /\ NamesFresh(r)
  BY Kinds DEF IInv
<1>5. Placed(r)' /\ NamesGoing(r)' /\ Mapped(r)'
  BY <1>1, <1>2, <1>4, States DEF Does, Placed, NamesGoing, Mapped
<1>6. Staged(r)'
  <2>1. "tracker" \in Segs /\ (at[r] < 4 => stage["tracker"][r] = "none")
    BY <1>2, <1>4, Orders, SMT DEF Staged, Creating
  <2>2. at[r] = 4 => \A s \in Segs : s # "tracker" => stage[s][r] = "ready"
    BY <1>2, <1>4, Orders DEF Staged, Creating
  <2>3. at[r] < 4 => Seg(r) # "tracker"
    BY <1>2, Orders
  <2>4. Seg(r) \notin Done(at[r])
    BY <1>2, Orders
  <2> QED
    BY <1>1, <1>2, <1>4, <2>1, <2>2, <2>3, <2>4 DEF Does, Staged, Creating
<1>7. ASSUME Latest(r)' PROVE NamesFresh(r)'
  <2>1. Latest(r)
    BY <1>1, <1>2, <1>7, OnlyLatest, States DEF IInv, Does
  <2> QED
    BY <1>1, <1>2, <1>4, <2>1 DEF Does, NamesFresh, Creating
<1>8. pc'[r] # "unborn" /\ maps'[r] = maps[r] /\ pc[r] \notin Ended
  BY <1>1, <1>2, States DEF Does
<1> QED
  BY <1>1, <1>2, <1>3, <1>5, <1>6, <1>7, <1>8, RunKeeps

LEMMA SizeKeeps ==
  ASSUME IInv, NEW r \in Runs, Size(r)
  PROVE  IInv'
<1>1. /\ TypeOK' /\ OthersKept(r) /\ StagesKept(r) /\ UNCHANGED name
      /\ Does(r, "map", at[r], maps[r])
      /\ \A s \in Segs : stage'[s][r] = IF s = Seg(r) THEN "sized" ELSE stage[s][r]
  BY SizeDoes DEF IInv
<1>2. /\ pc[r] = "size" /\ at[r] \in 1 .. 4 /\ Seg(r) = CreateOrder[at[r]]
      /\ Seg(r) \in Segs /\ Seg(r)' = Seg(r)
  BY <1>1, Kinds, Same DEF Size, Goto, IInv, Does, Seg
<1>3. NamesMove(r) /\ StagesGrow
  BY <1>1 DEF NamesMove, StagesGrow, StagesKept
<1>4. Placed(r) /\ Mapped(r) /\ Staged(r) /\ NamesFresh(r)
  BY Kinds DEF IInv
<1>5. Placed(r)' /\ NamesGoing(r)' /\ Mapped(r)'
  BY <1>1, <1>2, <1>4, States DEF Does, Placed, NamesGoing, Mapped
<1>6. Staged(r)'
  <2>1. "tracker" \in Segs /\ (at[r] < 4 => stage["tracker"][r] = "none")
    BY <1>2, <1>4, Orders, SMT DEF Staged, Creating
  <2>2. at[r] = 4 => \A s \in Segs : s # "tracker" => stage[s][r] = "ready"
    BY <1>2, <1>4, Orders DEF Staged, Creating
  <2>3. (at[r] < 4 \/ at[r] = 4) /\ (at[r] < 4 <=> Seg(r) # "tracker")
    BY <1>2, Orders
  <2>4. Seg(r) \notin Done(at[r])
    BY <1>2, Orders
  <2>5. pc'[r] = "map" /\ Done(at'[r]) = Done(at[r]) /\ Creating(r) /\ Creating(r)'
    BY <1>1, <1>2 DEF Does, Creating
  <2>6. ASSUME NEW s \in Segs, s # "tracker", stage'["tracker"][r] # "none"
        PROVE  stage'[s][r] = "ready"
    <3>1. at[r] = 4
      BY <1>1, <2>1, <2>3, <2>6
    <3> QED
      BY <1>1, <2>2, <2>3, <2>6, <3>1
  <2>7. \A s \in Segs : /\ s \in Done(at[r]) => stage'[s][r] = "ready"
                        /\ s \notin Done(at[r]) \cup {Seg(r)} => stage'[s][r] = "none"
                        /\ s = Seg(r) => stage'[s][r] # "none"
                        /\ name[s] = r => stage'[s][r] # "none"
    BY <1>1, <1>4, <2>4, <2>5 DEF Staged
  <2> QED
    BY <1>1, <1>2, <2>5, <2>6, <2>7 DEF Staged
<1>7. ASSUME Latest(r)' PROVE NamesFresh(r)'
  <2>1. Latest(r)
    BY <1>1, <1>2, <1>7, OnlyLatest, States DEF IInv, Does
  <2> QED
    BY <1>1, <1>2, <1>4, <2>1 DEF Does, NamesFresh, Creating
<1>8. pc'[r] # "unborn" /\ maps'[r] = maps[r] /\ pc[r] \notin Ended
  BY <1>1, <1>2, States DEF Does
<1> QED
  BY <1>1, <1>2, <1>3, <1>5, <1>6, <1>7, <1>8, RunKeeps

LEMMA MapKeeps ==
  ASSUME IInv, NEW r \in Runs, Map(r)
  PROVE  IInv'
<1>1. /\ TypeOK' /\ OthersKept(r) /\ StagesKept(r) /\ UNCHANGED <<name, stage>>
      /\ pc'[r] = "fill" /\ at'[r] = at[r]
      /\ \A s \in Segs : maps'[r][s] = IF s = Seg(r) THEN r ELSE maps[r][s]
  BY MapDoes DEF IInv
<1>2. /\ pc[r] = "map" /\ at[r] \in 1 .. 4 /\ Seg(r) = CreateOrder[at[r]]
      /\ Seg(r) \in Segs /\ Seg(r)' = Seg(r)
  BY <1>1, Kinds, Same DEF Map, Goto, IInv, Seg
<1>3. NamesMove(r) /\ StagesGrow
  BY <1>1 DEF NamesMove, StagesGrow
<1>4. Placed(r) /\ Mapped(r) /\ Staged(r) /\ NamesFresh(r)
  BY Kinds DEF IInv
<1>5. Placed(r)' /\ NamesGoing(r)' /\ Mapped(r)'
  BY <1>1, <1>2, <1>4, States DEF Placed, NamesGoing, Mapped
<1>6. Staged(r)'
  BY <1>1, <1>2, <1>4 DEF Staged, Creating
<1>7. ASSUME Latest(r)' PROVE NamesFresh(r)'
  <2>1. Latest(r)
    BY <1>1, <1>2, <1>7, OnlyLatest, States DEF IInv
  <2> QED
    BY <1>1, <1>2, <1>4, <2>1 DEF NamesFresh, Creating
<1>8. /\ pc'[r] # "unborn" /\ pc[r] \notin Ended
      /\ stage[Seg(r)][r] # "none"
  BY <1>1, <1>2, <1>4, States DEF Staged
<1>9. \A s \in Segs, q \in Runs : maps'[r][s] = q => maps[r][s] = q \/ stage'[s][q] # "none"
  BY <1>1, <1>8
<1> QED
  BY <1>1, <1>2, <1>3, <1>5, <1>6, <1>7, <1>8, <1>9, RunKeeps

LEMMA FillKeeps ==
  ASSUME IInv, NEW r \in Runs, Fill(r)
  PROVE  IInv'
<1>1. /\ TypeOK' /\ OthersKept(r) /\ StagesKept(r) /\ UNCHANGED name
      /\ Does(r, IF at[r] < 4 THEN "create" ELSE "register",
                 IF at[r] < 4 THEN at[r] + 1 ELSE 1, maps[r])
      /\ \A s \in Segs : stage'[s][r] = IF s = Seg(r) THEN "ready" ELSE stage[s][r]
  BY FillDoes DEF IInv
<1>2. /\ pc[r] = "fill" /\ at[r] \in 1 .. 4 /\ Seg(r) = CreateOrder[at[r]] /\ Seg(r) \in Segs
  BY Kinds, Same DEF Fill, IInv
<1>3. NamesMove(r) /\ StagesGrow
  BY <1>1 DEF NamesMove, StagesGrow, StagesKept
<1>4. Placed(r) /\ Mapped(r) /\ Staged(r) /\ NamesFresh(r)
  BY Kinds DEF IInv
<1>5. ASSUME at[r] < 4
      PROVE  /\ Placed(r)' /\ NamesGoing(r)' /\ Mapped(r)' /\ Staged(r)'
             /\ pc'[r] \in {"create", "register"} /\ maps'[r] = maps[r]
  <2>1. /\ pc'[r] = "create" /\ at'[r] = at[r] + 1 /\ maps'[r] = maps[r]
        /\ at[r] \in 1 .. 3 /\ at[r] + 1 \in 1 .. 4 /\ Seg(r)' = CreateOrder[at[r] + 1]
        /\ Done(at[r] + 1) = Done(at[r]) \cup {Seg(r)}
        /\ CreateOrder[at[r] + 1] \notin Done(at[r] + 1) /\ Seg(r) # "tracker"
    BY <1>1, <1>2, <1>5, Orders DEF Does, Seg
  <2>2. "tracker" \in Segs /\ "tracker" \notin Done(at[r])
    BY <1>2, <1>5, Orders
  <2>3. Staged(r)'
    BY <1>1, <1>2, <1>4, <2>1, <2>2 DEF Staged, Creating
  <2>4. Placed(r)' /\ NamesGoing(r)' /\ Mapped(r)'
    BY <1>2, <1>4, <2>1, States DEF Placed, NamesGoing, Mapped
  <2> QED
    BY <2>1, <2>3, <2>4
<1>6. ASSUME at[r] = 4
      PROVE  /\ Placed(r)' /\ NamesGoing(r)' /\ Mapped(r)' /\ Staged(r)'
             /\ pc'[r] \in {"create", "register"} /\ maps'[r] = maps[r]
  <2>1. pc'[r] = "register" /\ at'[r] = 1 /\ maps'[r] = maps[r] /\ Seg(r) = "tracker"
    BY <1>1, <1>2, <1>6, Orders DEF Does
  <2>2. \A s \in Segs : s # "tracker" => stage[s][r] = "ready"
    BY <1>2, <1>4, <1>6, Orders DEF Staged, Creating
  <2>3. Staged(r)'
    BY <1>1, <1>2, <1>4, <2>1, <2>2 DEF Staged, Creating
  <2>4. Placed(r)' /\ NamesGoing(r)' /\ Mapped(r)'
    BY <1>2, <1>4, <2>1, States DEF Placed, NamesGoing, Mapped
  <2> QED
    BY <2>1, <2>3, <2>4
<1>7. /\ Placed(r)' /\ NamesGoing(r)' /\ Mapped(r)' /\ Staged(r)'
      /\ pc'[r] \in {"create", "register"} /\ maps'[r] = maps[r]
  BY <1>2, <1>5, <1>6
<1>8. ASSUME Latest(r)' PROVE NamesFresh(r)'
  <2>1. Latest(r)
    BY <1>2, <1>1, <1>7, <1>8, OnlyLatest, States DEF IInv
  <2> QED
    BY <1>1, <1>2, <1>4, <1>7, <2>1 DEF NamesFresh, Creating
<1> QED
  BY <1>1, <1>2, <1>3, <1>7, <1>8, RunKeeps, States

LEMMA RegisterKeeps ==
  ASSUME IInv, NEW r \in Runs, Register(r)
  PROVE  IInv'
<1>1. /\ TypeOK' /\ OthersKept(r) /\ StagesKept(r) /\ UNCHANGED <<name, stage>>
      /\ Does(r, "running", at[r], maps[r]) /\ pc[r] = "register"
  BY RegisterDoes DEF IInv, Register, Goto
<1>2. NamesMove(r) /\ StagesGrow
  BY <1>1 DEF NamesMove, StagesGrow
<1>3. Placed(r) /\ Mapped(r) /\ Staged(r) /\ NamesFresh(r)
  BY Kinds DEF IInv
<1>4. Placed(r)' /\ NamesGoing(r)' /\ Mapped(r)' /\ Staged(r)'
  BY <1>1, <1>3, States DEF Does, Placed, NamesGoing, Mapped, Staged, Creating
<1>5. ASSUME Latest(r)' PROVE NamesFresh(r)'
  <2>1. Latest(r)
    BY <1>1, <1>5, OnlyLatest, States DEF IInv, Does
  <2> QED
    BY <1>1, <1>3, <2>1 DEF Does, NamesFresh, Creating
<1> QED
  BY <1>1, <1>2, <1>4, <1>5, RunKeeps, States DEF Does

LEMMA StartFailsKeeps ==
  ASSUME IInv, NEW r \in Runs, StartFails(r)
  PROVE  IInv'
<1>1. /\ TypeOK' /\ OthersKept(r) /\ StagesKept(r) /\ UNCHANGED stage
      /\ pc'[r] = "failed" /\ at'[r] = at[r]
      /\ \A s \in Segs : /\ maps'[r][s] = IF s \in Done(at[r]) \ {"pool"} THEN 0 ELSE maps[r][s]
                         /\ name'[s] = IF s = "pool" /\ PoolUndone(r) THEN 0 ELSE name[s]
  BY StartFailsDoes DEF IInv
<1>2. /\ pc[r] \in {"create", "size", "map"} /\ at[r] \in 1 .. 4
      /\ Seg(r) = CreateOrder[at[r]] /\ Seg(r) \in Segs
  BY Kinds, Same DEF StartFails, IInv
<1>3. NamesMove(r) /\ StagesGrow
  BY <1>1 DEF NamesMove, StagesGrow
<1>4. Placed(r) /\ Mapped(r) /\ Staged(r) /\ NamesFresh(r)
  BY Kinds DEF IInv
<1>5. Mapped(r)'
  BY <1>1, <1>2, <1>4, States DEF Mapped
<1>6. NamesGoing(r)'
  <2>1. "pool" \in Segs /\ Seg(r) \in {"dir", "pool", "ring", "tracker"}
    BY <1>2 DEF Segs
  <2>2. CASE PoolUndone(r)
    BY <1>1, <2>1, <2>2, Kinds DEF NamesGoing
  <2>3. CASE Seg(r) \in {"ring", "tracker"}
    <3>1. "pool" \in Done(at[r])
      BY <1>2, <2>3 DEF Done, Before
    <3> QED
      BY <1>1, <1>2, <1>4, <2>1, <3>1 DEF Staged, Creating, NamesGoing
  <2>4. CASE ~PoolUndone(r) /\ Seg(r) \in {"dir", "pool"}
    <3>1. Seg(r) = "dir" \/ (Seg(r) = "pool" /\ pc[r] = "create")
      BY <2>4 DEF PoolUndone
    <3>2. Seg(r) = "dir" => Done(at[r]) = {}
      BY <1>2 DEF Done, Before
    <3>3. stage["pool"][r] = "none"
      BY <1>2, <1>4, <2>1, <3>1, <3>2 DEF Staged, Creating
    <3> QED
      BY <1>1, <1>4, <2>1, <2>4, <3>3 DEF Staged, NamesGoing
  <2> QED
    BY <2>1, <2>2, <2>3, <2>4
<1>7. Placed(r)' /\ Staged(r)'
  BY <1>1, <1>2, <1>4, Kinds DEF Placed, Staged, Creating
<1>8. ASSUME Latest(r)' PROVE NamesFresh(r)'
  <2>1. Latest(r)
    BY <1>1, <1>2, <1>8, OnlyLatest, States DEF IInv
  <2> QED
    BY <1>1, <1>2, <1>4, <2>1 DEF NamesFresh, Creating
<1>9. \A s \in Segs, q \in Runs : maps'[r][s] = q => maps[r][s] = q \/ stage'[s][q] # "none"
  BY <1>1, Kinds
<1> QED
  BY <1>1, <1>2, <1>3, <1>5, <1>6, <1>7, <1>8, <1>9, RunKeeps, States

LEMMA CloseKeeps ==
  ASSUME IInv, NEW r \in Runs, Close(r)
  PROVE  IInv'
<1>1. /\ TypeOK' /\ OthersKept(r) /\ StagesKept(r) /\ UNCHANGED <<name, stage>>
      /\ pc[r] = "running" /\ pc'[r] = "closing" /\ at'[r] = at[r]
      /\ \A s \in Segs : maps'[r][s] = IF s = "pool" THEN maps[r][s] ELSE 0
  BY CloseDoes DEF IInv
<1>2. NamesMove(r) /\ StagesGrow
  BY <1>1 DEF NamesMove, StagesGrow
<1>3. Placed(r) /\ Mapped(r) /\ Staged(r) /\ NamesFresh(r)
  BY Kinds DEF IInv
<1>4. at[r] = 1
  BY <1>1, <1>3 DEF Placed
<1>5. Placed(r)' /\ NamesGoing(r)' /\ Mapped(r)' /\ Staged(r)'
  BY <1>1, <1>3, <1>4, Kinds, States DEF Placed, NamesGoing, Mapped, Staged, Creating
<1>6. ASSUME Latest(r)' PROVE NamesFresh(r)'
  <2>1. Latest(r)
    BY <1>1, <1>6, OnlyLatest, States DEF IInv
  <2> QED
    BY <1>1, <1>3, <2>1 DEF NamesFresh, Creating
<1>7. \A s \in Segs, q \in Runs : maps'[r][s] = q => maps[r][s] = q
  BY <1>1, Kinds
<1> QED
  BY <1>1, <1>2, <1>5, <1>6, <1>7, RunKeeps, States

LEMMA UnlinkAllKeeps ==
  ASSUME IInv, NEW r \in Runs, UnlinkAll(r)
  PROVE  IInv'
<1>1. /\ TypeOK' /\ OthersKept(r) /\ StagesKept(r) /\ UNCHANGED stage
      /\ Does(r, IF at[r] < 4 THEN "closing" ELSE "closed",
                 IF at[r] < 4 THEN at[r] + 1 ELSE 1, maps[r])
      /\ \A s \in Segs : name'[s] = IF s = UnlinkOrder[at[r]] THEN 0 ELSE name[s]
  BY UnlinkDoes, States DEF IInv, UnlinkAll
<1>2. pc[r] = "closing" /\ at[r] \in 1 .. 4
  BY Kinds, Same DEF UnlinkAll, Unlink, IInv
<1>3. NamesMove(r) /\ StagesGrow
  BY <1>1 DEF NamesMove, StagesGrow
<1>4. Placed(r) /\ Mapped(r) /\ Staged(r) /\ NamesFresh(r) /\ NamesGoing(r)
  BY Kinds DEF IInv
<1>5. \A j \in 1 .. 4 : j <= at[r] => name'[UnlinkOrder[j]] # r
  BY <1>1, <1>2, <1>4, Orders, Kinds DEF NamesGoing
<1>7. NamesGoing(r)'
  <2>1. CASE at[r] < 4
    BY <1>1, <1>2, <1>5, <2>1 DEF Does, NamesGoing
  <2>2. CASE at[r] = 4
    <3>1. \A s \in Segs : name'[s] # r
      BY <1>5, <2>2, Orders
    <3> QED
      BY <1>1, <2>2, <3>1 DEF Does, NamesGoing
  <2> QED
    BY <1>2, <2>1, <2>2
<1>8. Placed(r)' /\ Mapped(r)' /\ Staged(r)'
  BY <1>1, <1>2, <1>4, Kinds, States DEF Does, Placed, Mapped, Staged, Creating
<1>9. ASSUME Latest(r)' PROVE NamesFresh(r)'
  <2>1. Latest(r)
    BY <1>1, <1>2, <1>9, OnlyLatest, States DEF IInv, Does
  <2> QED
    BY <1>1, <1>2, <1>4, <2>1 DEF Does, NamesFresh, Creating
<1>10. pc'[r] # "unborn" /\ maps'[r] = maps[r] /\ pc[r] \notin Ended
  BY <1>1, <1>2, States DEF Does
<1> QED
  BY <1>1, <1>2, <1>3, <1>7, <1>8, <1>9, <1>10, RunKeeps

-----------------------------------------------------------------------------
(* Each action of a client preserves the invariant. *)
LEMMA ConnectKeeps ==
  ASSUME IInv, NEW c \in Clients, Connect(c)
  PROVE  IInv'
<1>1. /\ TypeOK' /\ OthersKept(c) /\ UNCHANGED <<name, stage>>
      /\ pc[c] \in {"out", "connect"}
      /\ \/ /\ name[CreateOrder[at[c]]] # 0
            /\ pc'[c] = IF at[c] = 1 THEN "lookup" ELSE IF at[c] < 4 THEN "connect" ELSE "enter"
            /\ at'[c] = IF at[c] < 4 THEN at[c] + 1 ELSE 1
            /\ \A s \in Segs : maps'[c][s] = IF s = CreateOrder[at[c]] THEN name[s] ELSE maps[c][s]
         \/ /\ pc[c] = "connect" /\ pc'[c] = "out" /\ at'[c] = 1
            /\ \A s \in Segs : maps'[c][s] = IF s \in Done(at[c]) THEN 0 ELSE maps[c][s]
  BY ConnectDoes DEF IInv
<1>2. /\ at[c] \in 1 .. 4 /\ CreateOrder[at[c]] \in Segs /\ c \in Procs
      /\ Placed(c) /\ Mapped(c) /\ \A r \in Runs : OneServer(c, r) /\ NamesFresh(r)
  BY Kinds, Same DEF IInv
<1>3. \A s \in Segs, r \in Runs : /\ maps[c][s] = r => stage[s][r] # "none"
                                  /\ name[s] = r => stage[s][r] # "none"
  BY <1>2, Kinds DEF IInv, MapsStaged, Staged
<1> DEFINE t == CreateOrder[at[c]]
<1>4. CASE /\ name[t] # 0
           /\ pc'[c] = IF at[c] = 1 THEN "lookup" ELSE IF at[c] < 4 THEN "connect" ELSE "enter"
           /\ at'[c] = IF at[c] < 4 THEN at[c] + 1 ELSE 1
           /\ \A s \in Segs : maps'[c][s] = IF s = t THEN name[s] ELSE maps[c][s]
  <2>1. \A s \in Segs, r \in Runs : maps'[c][s] = r => stage'[s][r] # "none"
    BY <1>1, <1>3, <1>4
  <2>2. CASE at[c] = 1
    <3>1. t = "dir" /\ Done(2) = {"dir"} /\ pc[c] = "out" /\ t \in Segs
      BY <1>1, <1>2, <2>2, Orders DEF Placed
    <3>2. \A s \in Segs : maps[c][s] = 0
      BY <1>2, <3>1, Kinds DEF Mapped
    <3>3. Placed(c)' /\ Mapped(c)'
      BY <1>4, <2>2, <3>1, <3>2, States DEF Placed, Mapped
    <3>4. \A r \in Runs : OneServer(c, r)'
      BY <1>4, <2>2, <3>1, <3>2, Kinds DEF OneServer
    <3> QED
      BY <1>1, <2>1, <3>3, <3>4, ClientKeeps
  <2>3. CASE at[c] # 1
    <3>1. t # "dir" /\ pc[c] = "connect" /\ "dir" \in Segs
      BY <1>1, <1>2, <2>3, Orders DEF Placed, Segs
    <3>2. ASSUME NEW r \in Runs, Latest(r), maps[c]["dir"] = r PROVE name[t] = r
      BY <1>2, <1>3, <1>4, <3>1, <3>2 DEF NamesFresh
    <3>3. at[c] < 4 => /\ at[c] + 1 \in 1 .. 4 /\ at[c] + 1 # 1 /\ at[c] + 1 # 2
                       /\ Done(at[c] + 1) = Done(at[c]) \cup {t}
      BY <1>2, <2>3, Orders
    <3>4. at[c] = 4 => Segs = Done(at[c]) \cup {t}
      BY <1>2, Orders
    <3>5. Placed(c)'
      BY <1>2, <1>4, <2>3, <3>3 DEF Placed
    <3>6. Mapped(c)'
      BY <1>2, <1>4, <2>3, <3>1, <3>3, States DEF Mapped
    <3>7. ASSUME NEW r \in Runs, Latest(r) PROVE OneServer(c, r)'
      <4>1. SUFFICES ASSUME maps'[c]["dir"] = r
                     PROVE  /\ \A s \in Segs : maps'[c][s] \in {0, r}
                            /\ pc'[c] \in {"lookup", "connect"} =>
                                  \A s \in Done(at'[c]) : maps'[c][s] # 0
                            /\ pc'[c] \in {"enter", "joined"} => \A s \in Segs : maps'[c][s] # 0
        BY DEF OneServer
      <4>2. maps[c]["dir"] = r
        BY <1>4, <3>1, <4>1
      <4>3. /\ \A s \in Segs : maps[c][s] \in {0, r}
            /\ \A s \in Done(at[c]) : maps[c][s] # 0
        BY <1>2, <3>1, <3>7, <4>2 DEF OneServer
      <4>4. name[t] = r /\ r # 0 /\ t \in Segs /\ Done(at[c]) \subseteq Segs
        BY <1>2, <3>2, <3>7, <4>2, Kinds, Orders
      <4>5. CASE at[c] < 4
        BY <1>2, <1>4, <2>3, <3>3, <4>3, <4>4, <4>5
      <4>6. CASE at[c] = 4
        BY <1>2, <1>4, <3>4, <4>3, <4>4, <4>6
      <4> QED
        BY <1>2, <4>5, <4>6
    <3> QED
      BY <1>1, <2>1, <3>5, <3>6, <3>7, ClientKeeps
  <2> QED
    BY <2>2, <2>3
<1>5. CASE /\ pc[c] = "connect" /\ pc'[c] = "out" /\ at'[c] = 1
           /\ \A s \in Segs : maps'[c][s] = IF s \in Done(at[c]) THEN 0 ELSE maps[c][s]
  <2>1. \A s \in Segs : maps'[c][s] = 0
    BY <1>2, <1>5 DEF Mapped
  <2> QED
    BY <1>1, <1>2, <1>5, <2>1, OutKeeps
<1> QED
  BY <1>1, <1>4, <1>5

LEMMA LookupKeeps ==
  ASSUME IInv, NEW c \in Clients, Lookup(c)
  PROVE  IInv'
<1>1. /\ TypeOK' /\ OthersKept(c) /\ UNCHANGED <<name, stage>> /\ pc[c] = "lookup"
      /\ \/ Does(c, "connect", at[c], maps[c])
         \/ /\ pc'[c] = "out" /\ at'[c] = 1
            /\ \A s \in Segs : maps'[c][s] = IF s = "dir" THEN 0 ELSE maps[c][s]
  BY LookupDoes DEF IInv
<1>2. Placed(c) /\ Mapped(c) /\ (\A r \in Runs : OneServer(c, r)) /\ at[c] = 2
  BY <1>1, Kinds DEF IInv, Placed
<1>3. CASE Does(c, "connect", at[c], maps[c])
  <2>1. Placed(c)' /\ Mapped(c)'
    BY <1>1, <1>2, <1>3, States DEF Does, Placed, Mapped
  <2>2. \A r \in Runs : Latest(r) => OneServer(c, r)'
    BY <1>1, <1>2, <1>3 DEF Does, OneServer
  <2> QED
    BY <1>1, <1>3, <2>1, <2>2, ClientKeeps DEF Does
<1>4. CASE /\ pc'[c] = "out" /\ at'[c] = 1
           /\ \A s \in Segs : maps'[c][s] = IF s = "dir" THEN 0 ELSE maps[c][s]
  <2>1. \A s \in Segs : maps'[c][s] = 0
    BY <1>1, <1>2, <1>4, Orders DEF Mapped
  <2> QED
    BY <1>1, <1>4, <2>1, OutKeeps
<1> QED
  BY <1>1, <1>3, <1>4

LEMMA EnterKeeps ==
  ASSUME IInv, NEW c \in Clients, Enter(c)
  PROVE  IInv'
<1>1. /\ TypeOK' /\ OthersKept(c) /\ UNCHANGED <<name, stage>>
      /\ pc[c] = "enter" /\ Does(c, "joined", at[c], maps[c])
  BY EnterDoes DEF IInv
<1>2. Placed(c) /\ Mapped(c) /\ \A r \in Runs : OneServer(c, r)
  BY Kinds DEF IInv
<1>3. Placed(c)' /\ Mapped(c)'
  BY <1>1, <1>2, States DEF Does, Placed, Mapped
<1>4. \A r \in Runs : Latest(r) => OneServer(c, r)'
  BY <1>1, <1>2 DEF Does, OneServer
<1> QED
  BY <1>1, <1>3, <1>4, ClientKeeps DEF Does

LEMMA LeaveKeeps ==
  ASSUME IInv, NEW c \in Clients, Leave(c)
  PROVE  IInv'
<1>1. /\ TypeOK' /\ OthersKept(c) /\ UNCHANGED <<name, stage>>
      /\ pc[c] = "joined" /\ Does(c, "out", at[c], Unmapped)
  BY LeaveDoes DEF IInv
<1>2. at[c] = 1
  BY <1>1, Kinds DEF IInv, Placed
<1> QED
  BY <1>1, <1>2, OutKeeps, Kinds DEF Does

LEMMA KillKeeps ==
  ASSUME IInv, NEW p \in Procs, Kill(p)
  PROVE  IInv'
<1>1. /\ TypeOK' /\ OthersKept(p) /\ UNCHANGED <<name, stage>>
      /\ pc[p] \notin Ended \cup {"unborn", "out"}
      /\ Does(p, IF p \in Runs THEN "killed" ELSE "out", 1, Unmapped)
  BY KillDoes DEF IInv
<1>2. \A s \in Segs, q \in Runs : maps'[p][s] # q
  BY <1>1, Kinds DEF Does
<1>3. CASE p \in Runs
  <2>1. Placed(p) /\ Mapped(p) /\ Staged(p) /\ NamesFresh(p)
    BY <1>3 DEF IInv
  <2>2. pc'[p] = "killed" /\ at'[p] = 1 /\ maps'[p] = Unmapped
    BY <1>1, <1>3 DEF Does
  <2>3. Placed(p)' /\ Mapped(p)' /\ Staged(p)' /\ NamesGoing(p)'
    BY <1>1, <2>1, <2>2, States DEF Placed, Mapped, Staged, NamesGoing, Creating
  <2>4. ASSUME Latest(p)' PROVE NamesFresh(p)'
    <3>1. Latest(p)
      BY <1>1, <1>3, <2>2, <2>4, OnlyLatest DEF IInv
    <3> QED
      BY <1>1, <2>1, <2>2, <3>1 DEF NamesFresh, Creating
  <2>5. StagesKept(p) /\ NamesMove(p) /\ StagesGrow
    BY <1>1 DEF StagesKept, NamesMove, StagesGrow
  <2> QED
    BY <1>1, <1>2, <1>3, <2>2, <2>3, <2>4, <2>5, RunKeeps
<1>4. CASE p \in Clients
  BY <1>1, <1>4, OutKeeps, Kinds DEF Does
<1> QED
  BY <1>3, <1>4, Kinds

-----------------------------------------------------------------------------
LEMMA InitIInv == Init => IInv
<1> SUFFICES ASSUME Init PROVE IInv
  OBVIOUS
<1>1. /\ \A r \in Runs : pc[r] = "unborn" /\ at[r] = 1 /\ maps[r] = Unmapped
      /\ \A c \in Clients : pc[c] = "out" /\ at[c] = 1 /\ maps[c] = Unmapped
      /\ \A s \in Segs : name[s] = 0 /\ \A r \in Runs : stage[s][r] = "none"
  BY Kinds DEF Init
<1>2. TypeOK
  BY Kinds, States DEF Init, TypeOK
<1>3. \A p \in Procs : Placed(p) /\ Mapped(p)
  BY <1>1, Kinds DEF Placed, Mapped
<1>4. \A r \in Runs : Staged(r) /\ NamesGoing(r) /\ NamesFresh(r)
  BY <1>1, Kinds DEF Staged, NamesGoing, NamesFresh, Creating, Latest, Segs
<1>5. OneAtATime /\ MapsStaged /\ \A c \in Clients, r \in Runs : OneServer(c, r)
  BY <1>1, Kinds DEF OneAtATime, Born, MapsStaged, OneServer, Latest
<1> QED
  BY <1>2, <1>3, <1>4, <1>5 DEF IInv

LEMMA StutterKeeps == IInv /\ UNCHANGED vars => IInv'
<1> SUFFICES ASSUME IInv, UNCHANGED vars PROVE IInv'
  OBVIOUS
<1>1. name' = name /\ stage' = stage /\ pc' = pc /\ at' = at /\ maps' = maps
  BY DEF vars
<1>2. TypeOK' /\ OneAtATime' /\ MapsStaged'
  BY <1>1 DEF IInv, TypeOK, OneAtATime, Born, MapsStaged
<1>3. \A p \in Procs : Placed(p)' /\ Mapped(p)'
  BY <1>1 DEF IInv, Placed, Mapped
<1>4. \A r \in Runs : Staged(r)' /\ NamesGoing(r)' /\ NamesFresh(r)'
  BY <1>1 DEF IInv, Staged, NamesGoing, NamesFresh, Creating, Latest, Seg
<1>5. \A c \in Clients, r \in Runs : OneServer(c, r)'
  BY <1>1 DEF IInv, OneServer, Latest
<1> QED
  BY <1>2, <1>3, <1>4, <1>5 DEF IInv

LEMMA NextIInv == IInv /\ [Next]_vars => IInv'
<1> SUFFICES ASSUME IInv, Next PROVE IInv'
  BY StutterKeeps
<1>1. ASSUME NEW r \in Runs, Start(r) \/ Serving(r) PROVE IInv'
  BY <1>1, StartKeeps, UnlinkOldKeeps, CreateKeeps, SizeKeeps, MapKeeps, FillKeeps,
     RegisterKeeps, StartFailsKeeps, CloseKeeps, UnlinkAllKeeps DEF Serving
<1>2. ASSUME NEW c \in Clients, Joining(c) PROVE IInv'
  BY <1>2, ConnectKeeps, LookupKeeps, EnterKeeps, LeaveKeeps DEF Joining
<1>3. ASSUME NEW p \in Procs, Kill(p) PROVE IInv'
  BY <1>3, KillKeeps
<1> QED
  BY <1>1, <1>2, <1>3 DEF Next

(* The invariant holds, for any clients and any number of starts. *)
THEOREM Invariant == Spec => []IInv
  BY InitIInv, NextIInv, PTL DEF Spec

(* Every variable keeps to the values its part in the program admits. *)
THEOREM TypeCorrect == Spec => []TypeOK
<1>1. IInv => TypeOK
  BY DEF IInv
<1> QED
  BY <1>1, Invariant, PTL

(* A client with the latest server's directory has that server's other
   segments too (shm_manager.c:233, 280, 290 and 318). *)
THEOREM Together == Spec => []SegmentsTogether
<1>1. IInv => SegmentsTogether
  BY DEF IInv, OneServer, SegmentsTogether, In
<1> QED
  BY <1>1, Invariant, PTL

(* A client with one server's segments finds directory, pool and ring set up
   (shm_manager.c:311). *)
THEOREM Ready == Spec => []JoinedReady
<1>1. IInv => JoinedReady
  <2> SUFFICES ASSUME IInv, NEW c \in Clients, NEW r \in Runs,
                      \A s \in Segs : maps[c][s] = r,
                      NEW s \in {"dir", "pool", "ring"}
               PROVE  stage[s][r] = "ready"
    BY DEF JoinedReady
  <2>1. stage["tracker"][r] # "none"
    BY Kinds DEF IInv, MapsStaged, Segs
  <2> QED
    BY <2>1 DEF IInv, Staged, Segs
<1> QED
  BY <1>1, Invariant, PTL

(* The pool's name that a failed start leaves stands for a pool that is set
   up, a closed server leaves no name (mempool_ring.c:122, 134;
   shm_manager.c:218-221). *)
THEOREM Gone == Spec => []NamesGone
<1>1. IInv => NamesGone
  BY DEF IInv, NamesGoing, NamesGone
<1> QED
  BY <1>1, Invariant, PTL

(* A client's call that fails, and a client that has left, has nothing mapped;
   a server that failed or closed at most its pool (mempool_ring.c:62, 294). *)
THEOREM OnlyPool == Spec => []OnlyPoolLeft
<1>1. IInv => OnlyPoolLeft
  BY Kinds DEF IInv, Mapped, OnlyPoolLeft
<1> QED
  BY <1>1, Invariant, PTL
=============================================================================
