------------------------- MODULE SharedPool_proofs -------------------------
(***************************************************************************)
(* Theorems about SharedPool, for any number of processes and blocks, any  *)
(* of which may reset: most where gets answer the stored pointer.          *)
(*                                                                         *)
(* The invariant speaks of the blocks that are not stale.  It has each of  *)
(* them at most once in the ring, in one process's hands or lost (Once),   *)
(* and one that a reset has yet to put back nowhere, awaited from no other *)
(* reset (Unput).  Stale blocks may be anywhere, any number of times.      *)
(* While no block is stale, a block that is nowhere in the ring leaves     *)
(* room there, by counting: this is why frees and resets find room         *)
(* although nothing locks the pool.  The second half is that a block is    *)
(* then somewhere unless a reset has yet to put it back (Filled), so that  *)
(* the counts add up.                                                      *)
(***************************************************************************)
EXTENDS SharedPool, TLAPS, FiniteSetTheorems

(* What most theorems assume of the constants. *)
Stored == ~SlotAddress

base == Base[Creator]
Ptrs == {Block(base, i) : i \in Indices}
\* The blocks of which something is promised.
Kept == {x \in Ptrs : x[3] \notin stale}

In(q) == {q[k] : k \in 1 .. Len(q)}
\* q has each member of S once.
Inj(q, S) == \A j, k \in 1 .. Len(q) : q[j] = q[k] /\ q[j] \in S => j = k

Types == /\ queue \in Seq(Ptrs) /\ head \in Indices
         /\ mapped \subseteq Procs /\ named \in BOOLEAN
         /\ held \in [Procs -> SUBSET Ptrs] /\ lost \subseteq Ptrs
         /\ reset \in [Procs -> 0 .. NumBlocks] /\ stale \subseteq Indices

Apart(x) == /\ x \in lost => x \notin In(queue)
            /\ \A p \in Procs : x \in held[p] =>
                  /\ x \notin In(queue) \cup lost
                  /\ \A q \in Procs \ {p} : x \notin held[q]

Once == Inj(queue, Kept) /\ \A x \in Kept : Apart(x)

Nowhere(x) == x \notin In(queue) \cup lost /\ \A q \in Procs : x \notin held[q]

Unput == \A p \in Procs : Resetting(p) =>
            /\ p \in Resetters /\ p \in mapped
            /\ \A i \in Indices \ stale : i >= reset[p] =>
                  /\ Nowhere(Block(base, i))
                  /\ \A q \in Procs \ {p} : i < reset[q]

IInv == Types /\ Once /\ Unput

-----------------------------------------------------------------------------
LEMMA Constants ==
  /\ NumBlocks \in Nat \ {0} /\ Creator \in Procs
  /\ Resetters \subseteq Procs /\ 0 \in Indices /\ NumBlocks - 1 \in Indices
  /\ \A i \in Indices : i \in Nat /\ i < NumBlocks /\ (i + 1) % NumBlocks \in Indices
  /\ ~SlotAddress => \A p \in Procs : Base[p] = base
BY PoolAssumption, SameBase DEF Indices, base

LEMMA BlockIs ==
  ASSUME NEW b, NEW i, NEW j
  PROVE  /\ Block(b, i)[1] = "block" /\ Block(b, i)[3] = i
         /\ Block(b, i) = Block(b, j) => i = j
BY DEF Block

LEMMA PtrsFinite == IsFiniteSet(Ptrs) /\ Cardinality(Ptrs) = NumBlocks
<1> DEFINE f == [i \in Indices |-> Block(base, i)]
<1>1. NumBlocks \in Nat /\ NumBlocks # 0
  BY Constants
<1>2. IsFiniteSet(Indices) /\ Cardinality(Indices) = NumBlocks
  <2>1. IsFiniteSet(0 .. NumBlocks - 1) /\ Cardinality(0 .. NumBlocks - 1)
            = (IF 0 > NumBlocks - 1 THEN 0 ELSE (NumBlocks - 1) - 0 + 1)
    BY <1>1, FS_Interval
  <2> QED
    BY <1>1, <2>1 DEF Indices
<1>3. \A i, j \in Indices : f[i] = f[j] => i = j
  BY BlockIs
<1>4. f \in Bijection(Indices, Ptrs)
  BY <1>3 DEF Bijection, Injection, Surjection, IsInjective, Ptrs
<1> QED
  BY <1>2, <1>4, FS_Bijection DEF ExistsBijection

(* A ring that holds no block twice is not over-full, and a block that is not
   in it leaves room. *)
LEMMA Counting ==
  ASSUME NEW q \in Seq(Ptrs), Inj(q, Ptrs)
  PROVE  /\ Len(q) <= NumBlocks
         /\ \A x \in Ptrs \ In(q) : Len(q) < NumBlocks
<1>1. Len(q) \in Nat /\ \A k \in 1 .. Len(q) : q[k] \in Ptrs
  OBVIOUS
<1>2. ASSUME NEW n \in Nat, NEW f \in [1 .. n -> Ptrs],
             \A j, k \in 1 .. n : f[j] = f[k] => j = k
      PROVE  n <= NumBlocks
  <2>1. f \in Injection(1 .. n, Ptrs)
    BY <1>2 DEF Injection, IsInjective
  <2>2. Cardinality(1 .. n) <= NumBlocks
    BY <2>1, PtrsFinite, FS_Injection
  <2>3. Cardinality(1 .. n) = IF 1 > n THEN 0 ELSE n - 1 + 1
    BY FS_Interval
  <2> QED
    BY <2>2, <2>3, Constants
<1>3. Len(q) <= NumBlocks
  <2> DEFINE f == [k \in 1 .. Len(q) |-> q[k]]
  <2>1. f \in [1 .. Len(q) -> Ptrs] /\ \A j, k \in 1 .. Len(q) : f[j] = f[k] => j = k
    BY <1>1 DEF Inj
  <2> HIDE DEF f
  <2> QED
    BY <1>1, <1>2, <2>1
<1>4. ASSUME NEW x \in Ptrs \ In(q) PROVE Len(q) < NumBlocks
  <2> DEFINE n == Len(q) + 1
             f == [k \in 1 .. n |-> IF k = n THEN x ELSE q[k]]
  <2>1. n \in Nat /\ \A k \in 1 .. n : k = n \/ k \in 1 .. Len(q)
    BY <1>1
  <2>2. f \in [1 .. n -> Ptrs]
    BY <1>1, <2>1
  <2>3. \A j, k \in 1 .. n : f[j] = f[k] => j = k
    BY <1>1, <2>1 DEF Inj, In
  <2> HIDE DEF f
  <2>4. n <= NumBlocks
    BY <1>2, <2>1, <2>2, <2>3
  <2> QED
    BY <1>1, <2>4, Constants
<1> QED
  BY <1>3, <1>4

(* The oldest pointer leaves the ring; if its block is not stale, the block is
   no longer there. *)
LEMMA Taking ==
  ASSUME NEW S, NEW K, NEW q \in Seq(S), q # << >>, Inj(q, K)
  PROVE  /\ Tail(q) \in Seq(S) /\ Inj(Tail(q), K) /\ Head(q) \in S /\ Head(q) \in In(q)
         /\ In(q) = In(Tail(q)) \cup {Head(q)}
         /\ Head(q) \in K => Head(q) \notin In(Tail(q))
<1>1. /\ Len(q) \in Nat /\ Len(q) # 0 /\ Head(q) = q[1] /\ Tail(q) \in Seq(S)
      /\ Len(Tail(q)) = Len(q) - 1
      /\ \A k \in 1 .. Len(q) - 1 : Tail(q)[k] = q[k + 1]
  OBVIOUS
<1> DEFINE t == Tail(q)
           n == Len(q)
<1> HIDE DEF t
<1>2. Len(t) = n - 1 /\ \A k \in 1 .. n - 1 : t[k] = q[k + 1]
  BY <1>1 DEF t
<1>3. \A k \in 1 .. n - 1 : k + 1 \in 1 .. n /\ k + 1 # 1
  BY <1>1
<1>4. \A k \in 1 .. n : k # 1 => k - 1 \in 1 .. n - 1 /\ (k - 1) + 1 = k
  BY <1>1
<1>5. 1 \in 1 .. n
  BY <1>1
<1> HIDE DEF n
<1>6. Inj(t, K)
  <2> SUFFICES ASSUME NEW j \in 1 .. n - 1, NEW k \in 1 .. n - 1, t[j] = t[k], t[j] \in K
               PROVE  j = k
    BY <1>2 DEF Inj
  <2>1. j + 1 = k + 1
    BY <1>2, <1>3 DEF Inj, n
  <2> QED
    BY <2>1
<1>7. In(q) = In(t) \cup {q[1]}
  <2>1. ASSUME NEW x \in In(t) PROVE x \in In(q)
    <3>1. PICK k \in 1 .. n - 1 : x = q[k + 1]
      BY <1>2, <2>1 DEF In
    <3> QED
      BY <1>3, <3>1 DEF In, n
  <2>2. ASSUME NEW x \in In(q), x # q[1] PROVE x \in In(t)
    <3>1. PICK k \in 1 .. n : x = q[k] /\ k # 1
      BY <2>2 DEF In, n
    <3> QED
      BY <1>2, <1>4, <3>1 DEF In
  <2>3. q[1] \in In(q)
    BY <1>5 DEF In, n
  <2> QED
    BY <2>1, <2>2, <2>3
<1>8. ASSUME q[1] \in K PROVE q[1] \notin In(t)
  <2> SUFFICES ASSUME NEW k \in 1 .. n - 1, q[1] = q[k + 1] PROVE FALSE
    BY <1>2 DEF In
  <2> QED
    BY <1>3, <1>5, <1>8 DEF Inj, n
<1> QED
  BY <1>1, <1>5, <1>6, <1>7, <1>8 DEF In, t, n

LEMMA Putting ==
  ASSUME NEW S, NEW K, NEW q \in Seq(S), Inj(q, K), NEW x \in S, x \in K => x \notin In(q)
  PROVE  /\ Append(q, x) \in Seq(S) /\ Inj(Append(q, x), K)
         /\ In(Append(q, x)) = In(q) \cup {x}
<1> DEFINE a == Append(q, x)
           n == Len(q)
<1>1. /\ n \in Nat /\ a \in Seq(S) /\ Len(a) = n + 1 /\ a[n + 1] = x
      /\ \A k \in 1 .. n : a[k] = q[k]
  OBVIOUS
<1> HIDE DEF a
<1>2. \A k \in 1 .. n + 1 : k = n + 1 \/ k \in 1 .. n
  BY <1>1
<1>3. 1 .. n \subseteq 1 .. n + 1 /\ n + 1 \in 1 .. n + 1
  BY <1>1
<1>4. x \in K => \A k \in 1 .. n : q[k] # x
  BY DEF In
<1>5. Inj(a, K)
  BY <1>1, <1>2, <1>4 DEF Inj
<1>6. In(a) = In(q) \cup {x}
  BY <1>1, <1>2, <1>3 DEF In
<1> QED
  BY <1>1, <1>5, <1>6 DEF a

-----------------------------------------------------------------------------
(* memory_pool_init puts every block in the ring once. *)
LEMMA InitIInv == Init => IInv
<1> SUFFICES ASSUME Init PROVE IInv
  OBVIOUS
<1>1. NumBlocks \in Nat /\ NumBlocks # 0 /\ 0 \in Indices /\ Creator \in Procs
  BY Constants
<1>2. \A k \in 1 .. NumBlocks : k - 1 \in Indices
  BY <1>1 DEF Indices
<1>3. queue = [k \in 1 .. NumBlocks |-> Block(base, k - 1)]
  BY DEF Init, base
<1>4. \A k \in 1 .. NumBlocks : Block(base, k - 1) \in Ptrs
  BY <1>2 DEF Ptrs
<1>5. queue \in Seq(Ptrs) /\ Len(queue) = NumBlocks
  BY <1>1, <1>3, <1>4
<1>6. Inj(queue, Kept)
  <2> SUFFICES ASSUME NEW j \in 1 .. NumBlocks, NEW k \in 1 .. NumBlocks,
                      queue[j] = queue[k]
               PROVE  j = k
    BY <1>5 DEF Inj
  <2>1. j - 1 = k - 1
    BY <1>3, BlockIs
  <2> QED
    BY <2>1
<1>7. \A p \in Procs : ~Resetting(p)
  BY <1>1 DEF Init, Resetting
<1>8. Types
  BY <1>1, <1>5 DEF Init, Types
<1> QED
  BY <1>6, <1>7, <1>8 DEF Init, IInv, Once, Apart, Unput

LEMMA AttachKeeps ==
  ASSUME IInv, NEW p \in Procs, Attach(p) PROVE IInv'
<1>1. UNCHANGED <<queue, head, named, held, lost, reset, stale>> /\ mapped' = mapped \cup {p}
  BY DEF Attach
<1>2. Types'
  BY <1>1 DEF IInv, Types
<1>3. Once'
  BY <1>1 DEF IInv, Once, Apart, In, Inj, Kept
<1>4. Unput'
  BY <1>1 DEF IInv, Unput, Nowhere, Resetting, In
<1> QED
  BY <1>2, <1>3, <1>4 DEF IInv

(* The oldest block moves from the ring to the caller. *)
LEMMA Allocating ==
  ASSUME Stored, IInv, NEW p \in Procs, Alloc(p)
  PROVE  LET x == Head(queue) IN
         /\ queue' \in Seq(Ptrs) /\ Inj(queue', Kept) /\ x \in Ptrs /\ x \in In(queue)
         /\ In(queue) = In(queue') \cup {x} /\ (x \in Kept => x \notin In(queue'))
         /\ held' = [held EXCEPT ![p] = @ \cup {x}]
         /\ held'[p] = held[p] \cup {x} /\ \A q \in Procs : q # p => held'[q] = held[q]
         /\ UNCHANGED <<structs, lost, reset, stale>> /\ head' \in Indices
<1>1. queue \in Seq(Ptrs) /\ Inj(queue, Kept) /\ queue # << >>
  BY DEF IInv, Types, Once, Alloc
<1>2. held' = [held EXCEPT ![p] = @ \cup {Head(queue)}]
  BY DEF Alloc, Oldest, Stored
<1>3. held \in [Procs -> SUBSET Ptrs] /\ head' \in Indices
  BY Constants DEF Alloc, IInv, Types
<1> QED
  BY <1>1, <1>2, <1>3, Taking DEF Alloc

LEMMA AllocKeeps ==
  ASSUME Stored, IInv, NEW p \in Procs, Alloc(p) PROVE IInv'
<1> DEFINE x == Head(queue)
<1>1. /\ queue' \in Seq(Ptrs) /\ Inj(queue', Kept) /\ x \in Ptrs /\ x \in In(queue)
      /\ In(queue) = In(queue') \cup {x} /\ (x \in Kept => x \notin In(queue'))
      /\ held' = [held EXCEPT ![p] = @ \cup {x}]
      /\ held'[p] = held[p] \cup {x} /\ \A q \in Procs : q # p => held'[q] = held[q]
      /\ UNCHANGED <<structs, lost, reset, stale>> /\ head' \in Indices
  BY Allocating
<1> HIDE DEF x
<1>2. mapped' = mapped /\ named' = named /\ lost' = lost /\ reset' = reset /\ stale' = stale
      /\ Kept' = Kept
  BY <1>1 DEF structs, Kept
<1>3. Types'
  <2>1. held' \in [Procs -> SUBSET Ptrs]
    BY <1>1 DEF IInv, Types
  <2> QED
    BY <1>1, <1>2, <2>1 DEF IInv, Types
<1>4. Once'
  <2>1. ASSUME NEW y \in Kept PROVE Apart(y)'
    <3>1. Apart(y)
      BY DEF IInv, Once
    <3>2. CASE y = x
      BY <1>1, <1>2, <3>1, <3>2 DEF Apart
    <3>3. CASE y # x
      BY <1>1, <1>2, <3>1, <3>3 DEF Apart
    <3> QED
      BY <3>2, <3>3
  <2> QED
    BY <1>1, <1>2, <2>1 DEF Once, Inj
<1>5. Unput'
  BY <1>1, <1>2 DEF IInv, Unput, Nowhere, Resetting
<1> QED
  BY <1>3, <1>4, <1>5 DEF IInv

(* A block given back is in the ring again; one that is not stale has left the
   caller's hands. *)
LEMMA Freeing ==
  ASSUME IInv, NEW p \in Procs, NEW x \in held[p], Free(p, x)
  PROVE  /\ x \in Ptrs /\ queue' = Append(queue, x)
         /\ queue' \in Seq(Ptrs) /\ Inj(queue', Kept) /\ In(queue') = In(queue) \cup {x}
         /\ x \in Kept => x \notin held'[p]
         /\ held' \in [Procs -> SUBSET Ptrs]
         /\ held'[p] \subseteq held[p] /\ held[p] \subseteq held'[p] \cup {x}
         /\ \A q \in Procs : q # p => held'[q] = held[q]
         /\ UNCHANGED <<head, structs, lost, reset, stale>>
<1>1. queue \in Seq(Ptrs) /\ Inj(queue, Kept) /\ x \in Ptrs /\ (x \in Kept => x \notin In(queue))
  BY DEF IInv, Types, Once, Apart
<1>2. held \in [Procs -> SUBSET Ptrs]
  BY DEF IInv, Types
<1>3. /\ queue' = Append(queue, x)
      /\ UNCHANGED <<head, structs, lost, reset, stale>>
      /\ \/ held' = [held EXCEPT ![p] = @ \ {x}]
         \/ x[3] \in stale /\ held' = held
  BY DEF Free
<1>4. queue' \in Seq(Ptrs) /\ Inj(queue', Kept) /\ In(queue') = In(queue) \cup {x}
  BY <1>1, <1>3, Putting
<1>5. /\ x \in Kept => x \notin held'[p]
      /\ held' \in [Procs -> SUBSET Ptrs]
      /\ held'[p] \subseteq held[p] /\ held[p] \subseteq held'[p] \cup {x}
      /\ \A q \in Procs : q # p => held'[q] = held[q]
  BY <1>2, <1>3 DEF Kept
<1> QED
  BY <1>1, <1>3, <1>4, <1>5

LEMMA FreeingKeeps ==
  ASSUME IInv, NEW p \in Procs, NEW x \in held[p], Free(p, x) PROVE IInv'
<1>1. /\ x \in Ptrs
      /\ queue' \in Seq(Ptrs) /\ Inj(queue', Kept) /\ In(queue') = In(queue) \cup {x}
      /\ x \in Kept => x \notin held'[p]
      /\ held' \in [Procs -> SUBSET Ptrs]
      /\ held'[p] \subseteq held[p] /\ held[p] \subseteq held'[p] \cup {x}
      /\ \A q \in Procs : q # p => held'[q] = held[q]
      /\ UNCHANGED <<head, structs, lost, reset, stale>>
  BY Freeing
<1>2. head' = head /\ mapped' = mapped /\ named' = named /\ lost' = lost /\ reset' = reset
      /\ stale' = stale /\ Kept' = Kept
  BY <1>1 DEF structs, Kept
<1>3. Types'
  BY <1>1, <1>2 DEF IInv, Types
<1>4. \A y \in Kept : Apart(y)'
  <2> TAKE y \in Kept
  <2>1. Apart(y)
    BY DEF IInv, Once
  <2>2. CASE y = x
    BY <1>1, <1>2, <2>1, <2>2 DEF Apart
  <2>3. CASE y # x
    BY <1>1, <1>2, <2>1, <2>3 DEF Apart
  <2> QED
    BY <2>2, <2>3
<1>5. Once'
  BY <1>1, <1>2, <1>4 DEF Once, Inj
<1>6. Unput'
  <2> SUFFICES ASSUME NEW r \in Procs, Resetting(r)'
               PROVE  /\ r \in Resetters /\ r \in mapped'
                      /\ \A i \in Indices \ stale' : i >= reset'[r] =>
                            /\ Nowhere(Block(base, i))'
                            /\ \A q \in Procs \ {r} : i < reset'[q]
    BY DEF Unput
  <2>1. /\ r \in Resetters /\ r \in mapped
        /\ \A i \in Indices \ stale : i >= reset[r] =>
              /\ Nowhere(Block(base, i))
              /\ \A q \in Procs \ {r} : i < reset[q]
    BY <1>2 DEF IInv, Unput, Resetting
  <2>2. ASSUME NEW i \in Indices, Nowhere(Block(base, i)) PROVE Nowhere(Block(base, i))'
    BY <1>1, <1>2, <2>2 DEF Nowhere
  <2> QED
    BY <1>2, <2>1, <2>2
<1> QED
  BY <1>3, <1>5, <1>6 DEF IInv

(* With the ring empty, a block that nobody has is nowhere; the others, and
   those that another reset will put back, are stale. *)
LEMMA Resets ==
  ASSUME IInv, NEW p \in Procs, ResetRing(p)
  PROVE  /\ queue' = << >> /\ head' = 0 /\ lost' = {} /\ reset' = [reset EXCEPT ![p] = 0]
         /\ reset'[p] = 0 /\ \A q \in Procs : q # p => reset'[q] = reset[q]
         /\ mapped' = mapped /\ named' = named /\ held' = held
         /\ p \in Resetters /\ p \in mapped /\ stale' \subseteq Indices
         /\ \A i \in Indices \ stale' : /\ \A q \in Procs : Block(base, i) \notin held[q]
                                       /\ \A q \in Procs \ {p} : i < reset[q]
<1>1. /\ queue' = << >> /\ head' = 0 /\ lost' = {} /\ reset' = [reset EXCEPT ![p] = 0]
      /\ mapped' = mapped /\ named' = named /\ held' = held
      /\ p \in Resetters /\ p \in mapped /\ stale' = StaleAt(p)
  BY DEF ResetRing, Idle, structs
<1>2. reset \in [Procs -> 0 .. NumBlocks] /\ NumBlocks \in Nat
  BY Constants DEF IInv, Types
<1>3. ASSUME NEW i \in Indices \ stale'
      PROVE  /\ \A q \in Procs : Block(base, i) \notin held[q]
             /\ \A q \in Procs \ {p} : i < reset[q]
  <2>1. /\ \A q \in Procs : i \notin IndicesOf(held[q])
        /\ \A q \in Procs \ {p} : ~(i >= reset[q])
    BY <1>1 DEF StaleAt
  <2>2. Block(base, i)[3] = i
    BY BlockIs
  <2>3. \A q \in Procs : Block(base, i) \notin held[q]
    BY <2>1, <2>2, Zenon DEF IndicesOf
  <2>4. \A q \in Procs \ {p} : i < reset[q]
    BY <1>2, <2>1, Constants
  <2> QED
    BY <2>3, <2>4
<1> QED
  BY <1>1, <1>2, <1>3 DEF StaleAt

LEMMA ResetRingKeeps ==
  ASSUME IInv, NEW p \in Procs, ResetRing(p) PROVE IInv'
<1>1. /\ queue' = << >> /\ head' = 0 /\ lost' = {} /\ reset' = [reset EXCEPT ![p] = 0]
      /\ reset'[p] = 0 /\ \A q \in Procs : q # p => reset'[q] = reset[q]
      /\ mapped' = mapped /\ named' = named /\ held' = held
      /\ p \in Resetters /\ p \in mapped /\ stale' \subseteq Indices
      /\ \A i \in Indices \ stale' : /\ \A q \in Procs : Block(base, i) \notin held[q]
                                    /\ \A q \in Procs \ {p} : i < reset[q]
  BY Resets
<1>2. In(queue') = {} /\ Inj(queue', Kept') /\ queue' \in Seq(Ptrs)
  BY <1>1 DEF In, Inj
<1>3. NumBlocks \in Nat /\ 0 \in Indices /\ 0 \in 0 .. NumBlocks
  BY Constants
<1>4. Types'
  BY <1>1, <1>2, <1>3 DEF IInv, Types
<1>5. \A x \in Kept' : Apart(x)'
  <2> TAKE x \in Kept'
  <2>1. PICK i \in Indices : x = Block(base, i)
    BY DEF Kept, Ptrs
  <2>2. i \notin stale'
    BY <2>1, BlockIs DEF Kept
  <2> QED
    BY <1>1, <1>2, <2>1, <2>2 DEF Apart
<1>6. \A i \in Indices \ stale' : Nowhere(Block(base, i))'
  BY <1>1, <1>2 DEF Nowhere
<1>7. ASSUME NEW r \in Procs, Resetting(r)'
      PROVE  /\ r \in Resetters /\ r \in mapped'
             /\ \A i \in Indices \ stale' : i >= reset'[r] =>
                   \A q \in Procs \ {r} : i < reset'[q]
  <2>1. CASE r = p
    BY <1>1, <2>1
  <2>2. CASE r # p
    <3>1. r \in Resetters /\ r \in mapped
      BY <1>1, <1>7, <2>2 DEF Resetting, IInv, Unput
    <3>2. \A i \in Indices \ stale' : ~(i >= reset'[r])
      <4>1. reset[r] \in Nat /\ \A i \in Indices : i \in Nat
        BY Constants DEF IInv, Types
      <4> QED
        BY <1>1, <2>2, <4>1
    <3> QED
      BY <1>1, <3>1, <3>2
  <2> QED
    BY <2>1, <2>2
<1> QED
  BY <1>2, <1>4, <1>5, <1>6, <1>7 DEF IInv, Once, Unput, Inj

(* The next block of a reset is put in the ring, or the ring is full. *)
LEMMA ResetPuts ==
  ASSUME Stored, IInv, NEW p \in Procs, ResetPut(p)
  PROVE  LET x == Block(base, reset[p]) IN
         /\ reset[p] \in Indices /\ x \in Ptrs /\ x[3] = reset[p] /\ p \in mapped
         /\ reset[p] \notin stale =>
               Nowhere(x) /\ \A q \in Procs \ {p} : reset[p] < reset[q]
         /\ \/ /\ Room /\ queue' = Append(queue, x)
               /\ queue' \in Seq(Ptrs) /\ Inj(queue', Kept) /\ In(queue') = In(queue) \cup {x}
               /\ reset' = [reset EXCEPT ![p] = @ + 1]
            \/ /\ ~Room /\ queue' = queue /\ reset' = [reset EXCEPT ![p] = NumBlocks]
         /\ UNCHANGED <<head, structs, held, lost, stale>>
<1> DEFINE x == Block(base, reset[p])
<1>1. reset[p] \in Indices /\ reset[p] >= reset[p]
  BY Constants DEF ResetPut, Resetting, IInv, Types, Indices
<1>2. x \in Ptrs /\ Block(Base[p], reset[p]) = x /\ x[3] = reset[p]
  BY <1>1, Constants, BlockIs DEF Ptrs, Stored
<1>3. reset[p] \notin stale => Nowhere(x) /\ \A q \in Procs \ {p} : reset[p] < reset[q]
  BY <1>1 DEF IInv, Unput, ResetPut
<1> HIDE DEF x
<1>4. queue \in Seq(Ptrs) /\ Inj(queue, Kept) /\ (x \in Kept => x \notin In(queue))
  BY <1>2, <1>3 DEF IInv, Types, Once, Kept, Nowhere
<1>5. \/ Room /\ queue' = Append(queue, x) /\ reset' = [reset EXCEPT ![p] = @ + 1]
      \/ ~Room /\ queue' = queue /\ reset' = [reset EXCEPT ![p] = NumBlocks]
  BY <1>2 DEF ResetPut
<1>6. queue' = Append(queue, x) =>
         queue' \in Seq(Ptrs) /\ Inj(queue', Kept) /\ In(queue') = In(queue) \cup {x}
  BY <1>2, <1>4, Putting
<1> QED
  BY <1>1, <1>2, <1>3, <1>5, <1>6 DEF x, ResetPut

LEMMA ResetPutKeeps ==
  ASSUME Stored, IInv, NEW p \in Procs, ResetPut(p) PROVE IInv'
<1> DEFINE x == Block(base, reset[p])
<1>1. /\ reset[p] \in Indices /\ x \in Ptrs /\ x[3] = reset[p] /\ p \in mapped
      /\ reset[p] \notin stale =>
            Nowhere(x) /\ \A q \in Procs \ {p} : reset[p] < reset[q]
      /\ \/ /\ Room /\ queue' = Append(queue, x)
            /\ queue' \in Seq(Ptrs) /\ Inj(queue', Kept) /\ In(queue') = In(queue) \cup {x}
            /\ reset' = [reset EXCEPT ![p] = @ + 1]
         \/ /\ ~Room /\ queue' = queue /\ reset' = [reset EXCEPT ![p] = NumBlocks]
      /\ UNCHANGED <<head, structs, held, lost, stale>>
  BY ResetPuts
<1>2. head' = head /\ mapped' = mapped /\ named' = named /\ held' = held /\ lost' = lost
      /\ stale' = stale /\ Kept' = Kept
  BY <1>1 DEF structs, Kept
<1>3. NumBlocks \in Nat /\ reset \in [Procs -> 0 .. NumBlocks] /\ reset[p] < NumBlocks
  BY <1>1, Constants DEF IInv, Types
<1>4. \A i \in Indices : i \in Nat /\ i < NumBlocks /\ (Block(base, i) = x <=> i = reset[p])
  BY BlockIs, Constants
<1>5. \A q \in Procs : q # p => reset'[q] = reset[q]
  BY <1>1, <1>3
<1>6. reset'[p] \in 0 .. NumBlocks /\ reset'[p] > reset[p]
  BY <1>1, <1>3
<1> HIDE DEF x
<1>7. Types'
  <2>1. reset' \in [Procs -> 0 .. NumBlocks]
    BY <1>1, <1>3
  <2> QED
    BY <1>1, <1>2, <2>1 DEF IInv, Types
<1>8. \A y \in Kept : Apart(y)'
  <2> TAKE y \in Kept
  <2>1. Apart(y)
    BY DEF IInv, Once
  <2>2. CASE y = x
    BY <1>1, <1>2, <2>1, <2>2 DEF Apart, Kept, Nowhere
  <2>3. CASE y # x
    <3>1. y \in In(queue') => y \in In(queue)
      BY <1>1, <2>3
    <3> QED
      BY <1>2, <2>1, <3>1 DEF Apart
  <2> QED
    BY <2>2, <2>3
<1>9. Inj(queue', Kept')
  BY <1>1, <1>2 DEF IInv, Once
<1>10. Unput'
  <2> SUFFICES ASSUME NEW r \in Procs, Resetting(r)'
               PROVE  /\ r \in Resetters /\ r \in mapped'
                      /\ \A i \in Indices \ stale' : i >= reset'[r] =>
                            /\ Nowhere(Block(base, i))'
                            /\ \A q \in Procs \ {r} : i < reset'[q]
    BY DEF Unput
  <2>1. Resetting(r) /\ \A i \in Indices : i >= reset'[r] => i >= reset[r]
    BY <1>3, <1>4, <1>5, <1>6 DEF Resetting
  <2>2. /\ r \in Resetters /\ r \in mapped
        /\ \A i \in Indices \ stale : i >= reset[r] =>
              /\ Nowhere(Block(base, i))
              /\ \A q \in Procs \ {r} : i < reset[q]
    BY <2>1 DEF IInv, Unput
  <2>3. ASSUME NEW i \in Indices \ stale, i >= reset'[r]
        PROVE  Nowhere(Block(base, i))' /\ \A q \in Procs \ {r} : i < reset'[q]
    <3>1. i # reset[p]
      <4>1. CASE r = p
        BY <1>3, <1>4, <1>6, <2>3, <4>1
      <4>2. CASE r # p
        BY <1>3, <1>4, <2>1, <2>2, <2>3, <4>2
      <4> QED
        BY <4>1, <4>2
    <3>2. Nowhere(Block(base, i)) /\ \A q \in Procs \ {r} : i < reset[q]
      BY <2>1, <2>2, <2>3
    <3>3. Block(base, i) \notin In(queue')
      BY <1>1, <1>4, <3>1, <3>2 DEF Nowhere
    <3>4. Nowhere(Block(base, i))'
      BY <1>2, <3>2, <3>3 DEF Nowhere
    <3>5. \A q \in Procs \ {r} : i < reset'[q]
      BY <1>3, <1>4, <1>5, <1>6, <3>2
    <3> QED
      BY <3>4, <3>5
  <2> QED
    BY <1>2, <2>2, <2>3
<1> QED
  BY <1>2, <1>7, <1>8, <1>9, <1>10 DEF IInv, Once, Inj

LEMMA DestroyKeeps ==
  ASSUME IInv, NEW p \in Procs, NEW unlink \in BOOLEAN, Destroy(p, unlink) PROVE IInv'
<1>1. /\ queue' = queue /\ head' = head /\ reset' = reset /\ stale' = stale /\ ~Resetting(p)
      /\ mapped' = mapped \ {p} /\ named' = (named /\ ~(unlink /\ p \in knows))
      /\ held' = [held EXCEPT ![p] = {}] /\ lost' = lost \cup held[p]
  BY DEF Destroy, Idle
<1>2. /\ held \in [Procs -> SUBSET Ptrs] /\ held'[p] = {}
      /\ \A q \in Procs : q # p => held'[q] = held[q]
  BY <1>1 DEF IInv, Types
<1>3. In(queue') = In(queue) /\ Kept' = Kept /\ (Inj(queue, Kept) => Inj(queue', Kept'))
  BY <1>1 DEF In, Inj, Kept
<1>4. Types'
  <2>1. held' \in [Procs -> SUBSET Ptrs] /\ lost' \subseteq Ptrs
    BY <1>1, <1>2 DEF IInv, Types
  <2>2. named' \in BOOLEAN /\ mapped' \subseteq Procs
    BY <1>1 DEF IInv, Types
  <2> QED
    BY <1>1, <2>1, <2>2 DEF IInv, Types
<1>5. \A x \in Kept : Apart(x)'
  <2> TAKE x \in Kept
  <2>1. Apart(x)
    BY DEF IInv, Once
  <2> QED
    BY <1>1, <1>2, <1>3, <2>1 DEF Apart
<1>6. Unput'
  <2> SUFFICES ASSUME NEW r \in Procs, Resetting(r)'
               PROVE  /\ r \in Resetters /\ r \in mapped'
                      /\ \A i \in Indices \ stale' : i >= reset'[r] =>
                            /\ Nowhere(Block(base, i))'
                            /\ \A q \in Procs \ {r} : i < reset'[q]
    BY DEF Unput
  <2>1. r # p /\ Resetting(r)
    BY <1>1 DEF Resetting
  <2>2. /\ r \in Resetters /\ r \in mapped
        /\ \A i \in Indices \ stale : i >= reset[r] =>
              /\ Nowhere(Block(base, i))
              /\ \A q \in Procs \ {r} : i < reset[q]
    BY <2>1 DEF IInv, Unput
  <2>3. ASSUME NEW i \in Indices, Nowhere(Block(base, i)) PROVE Nowhere(Block(base, i))'
    BY <1>1, <1>2, <1>3, <2>3 DEF Nowhere
  <2> QED
    BY <1>1, <2>1, <2>2, <2>3
<1> QED
  BY <1>3, <1>4, <1>5, <1>6 DEF IInv, Once

LEMMA StutterKeeps == IInv /\ UNCHANGED vars => IInv'
BY DEF vars, structs, IInv, Types, Once, Apart, Unput, Nowhere, Resetting, In, Inj, Kept

LEMMA NextIInv == ASSUME Stored, IInv, [Next]_vars PROVE IInv'
<1>1. CASE UNCHANGED vars
  BY <1>1, StutterKeeps
<1>2. CASE Next
  <2>1. ASSUME NEW p \in Procs, Attach(p) PROVE IInv'
    BY <2>1, AttachKeeps
  <2>2. ASSUME NEW p \in Procs, Alloc(p) PROVE IInv'
    BY <2>2, AllocKeeps
  <2>3. ASSUME NEW p \in Procs, NEW x \in held[p], Free(p, x) PROVE IInv'
    BY <2>3, FreeingKeeps
  <2>4. ASSUME NEW p \in Procs, ResetRing(p) PROVE IInv'
    BY <2>4, ResetRingKeeps
  <2>5. ASSUME NEW p \in Procs, ResetPut(p) PROVE IInv'
    BY <2>5, ResetPutKeeps
  <2>6. ASSUME NEW p \in Procs, NEW unlink \in BOOLEAN, Destroy(p, unlink) PROVE IInv'
    BY <2>6, DestroyKeeps
  <2> QED
    BY <1>1, <1>2, <2>1, <2>2, <2>3, <2>4, <2>5, <2>6 DEF Next
<1> QED
  BY <1>1, <1>2

-----------------------------------------------------------------------------
(* The invariant, with any resets at any time: a block that was nobody's when
   the last reset began, and no other reset's, is at most once in the ring,
   held or lost, and nowhere while the reset has yet to put it back
   (memory_pool_alloc, memory_pool_free and memory_pool_reset of any number of
   processes). *)
THEOREM Invariant == ASSUME Stored PROVE Spec => []IInv
<1>1. Init => IInv
  BY InitIInv
<1>2. IInv /\ [Next]_vars => IInv'
  BY NextIInv
<1> QED
  BY <1>1, <1>2, PTL DEF Spec

(* Types, in both versions and with any number of resetting processes: nothing
   is put in a full ring. *)
LEMMA InitTypes == Init => TypeOK
<1> SUFFICES ASSUME Init PROVE TypeOK
  OBVIOUS
<1>1. NumBlocks \in Nat /\ Creator \in Procs /\ 0 \in Indices
  BY Constants
<1>2. \A k \in 1 .. NumBlocks : k - 1 \in Indices
  BY <1>1 DEF Indices
<1>3. \A k \in 1 .. NumBlocks : Block(Base[Creator], k - 1) \in Pointers
  BY <1>1, <1>2 DEF Pointers
<1>4. queue \in Seq(Pointers) /\ Len(queue) = NumBlocks
  BY <1>1, <1>3 DEF Init
<1> QED
  BY <1>1, <1>4 DEF Init, TypeOK

LEMMA NextTypes == ASSUME TypeOK, [Next]_vars PROVE TypeOK'
<1>1. CASE UNCHANGED vars
  BY <1>1 DEF vars, structs, TypeOK
<1>2. ASSUME NEW p \in Procs, Attach(p) PROVE TypeOK'
  BY <1>2 DEF Attach, TypeOK
<1>3. ASSUME NEW p \in Procs, Alloc(p) PROVE TypeOK'
  <2>1. /\ queue \in Seq(Pointers) /\ Len(queue) <= NumBlocks /\ queue # << >>
        /\ head \in Indices
    BY <1>3 DEF Alloc, TypeOK
  <2>2. Tail(queue) \in Seq(Pointers) /\ Len(Tail(queue)) <= NumBlocks /\ Head(queue) \in Pointers
    BY <2>1, Constants
  <2>3. Oldest(p) \in Pointers
    BY <2>1, <2>2 DEF Oldest, Pointers
  <2>4. held' \in [Procs -> SUBSET Pointers]
    BY <1>3, <2>3 DEF Alloc, TypeOK
  <2>5. (head + 1) % NumBlocks \in Indices
    BY <2>1, Constants
  <2> QED
    BY <1>3, <2>2, <2>4, <2>5 DEF Alloc, structs, TypeOK
<1>4. ASSUME NEW p \in Procs, NEW x \in held[p], Free(p, x) PROVE TypeOK'
  <2>1. x \in Pointers /\ queue \in Seq(Pointers) /\ held \in [Procs -> SUBSET Pointers]
    BY DEF TypeOK
  <2>2. Room => Append(queue, x) \in Seq(Pointers) /\ Len(Append(queue, x)) <= NumBlocks
    BY <2>1, Constants DEF Room
  <2>3. [held EXCEPT ![p] = @ \ {x}] \in [Procs -> SUBSET Pointers]
    BY <2>1
  <2> QED
    BY <1>4, <2>1, <2>2, <2>3 DEF Free, structs, TypeOK
<1>5. ASSUME NEW p \in Procs, ResetRing(p) PROVE TypeOK'
  <2>1. NumBlocks \in Nat /\ 0 \in Indices /\ 0 \in 0 .. NumBlocks
    BY Constants
  <2>2. << >> \in Seq(Pointers) /\ Len(<< >>) <= NumBlocks
    BY <2>1
  <2> QED
    BY <1>5, <2>1, <2>2 DEF ResetRing, StaleAt, structs, TypeOK
<1>6. ASSUME NEW p \in Procs, ResetPut(p) PROVE TypeOK'
  <2> DEFINE x == Block(Base[p], reset[p])
  <2>1. NumBlocks \in Nat /\ reset[p] \in 0 .. NumBlocks /\ reset[p] < NumBlocks
    BY <1>6, Constants DEF ResetPut, Resetting, TypeOK
  <2>2. reset[p] \in Indices /\ reset[p] + 1 \in 0 .. NumBlocks /\ NumBlocks \in 0 .. NumBlocks
    BY <2>1 DEF Indices
  <2>3. x \in Pointers /\ queue \in Seq(Pointers)
    BY <2>2 DEF Pointers, TypeOK
  <2> HIDE DEF x
  <2>4. Room => Append(queue, x) \in Seq(Pointers) /\ Len(Append(queue, x)) <= NumBlocks
    BY <2>1, <2>3 DEF Room
  <2>5. /\ \/ Room /\ queue' = Append(queue, x) /\ reset' = [reset EXCEPT ![p] = @ + 1]
           \/ UNCHANGED queue /\ reset' = [reset EXCEPT ![p] = NumBlocks]
        /\ UNCHANGED <<head, structs, held, lost, stale>>
    BY <1>6 DEF ResetPut, x
  <2>6. reset' \in [Procs -> 0 .. NumBlocks]
    BY <2>2, <2>5 DEF TypeOK
  <2> QED
    BY <2>4, <2>5, <2>6 DEF structs, TypeOK
<1>7. ASSUME NEW p \in Procs, NEW unlink \in BOOLEAN, Destroy(p, unlink) PROVE TypeOK'
  BY <1>7 DEF Destroy, TypeOK
<1> QED
  BY <1>1, <1>2, <1>3, <1>4, <1>5, <1>6, <1>7 DEF Next

(* The ring holds pointers, never more than there are blocks, its read index
   stays a slot, and no process keeps anything but pointers, in both versions
   and whoever resets. *)
THEOREM TypeCorrect == Spec => []TypeOK
<1>1. Init => TypeOK
  BY InitTypes
<1>2. TypeOK /\ [Next]_vars => TypeOK'
  BY NextTypes
<1> QED
  BY <1>1, <1>2, PTL DEF Spec

(* No process has anything that memory_pool_free would take. *)
NothingValid == \A p \in Procs : \A x \in held[p] : ~Valid(p, x)

\* What a process has is the address of a slot.
SlotsHeld == \A p \in Procs : \A x \in held[p] : x[1] = "slot"

(* The pool of 04_shared_mempool as it is linked, whose gets answer the address
   of a slot: no pointer that memory_pool_alloc handed out is ever one that
   memory_pool_free accepts, to any process at any address.  This is where
   MessageTracker has PoolAccepts = FALSE from. *)
THEOREM NoneTakenBack == ASSUME SlotAddress PROVE Spec => []NothingValid
<1>1. Init => SlotsHeld
  BY DEF Init, SlotsHeld
<1>2. TypeOK /\ SlotsHeld /\ [Next]_vars => SlotsHeld'
  <2> SUFFICES ASSUME TypeOK, SlotsHeld, [Next]_vars,
                      NEW q \in Procs, NEW x \in held'[q]
               PROVE  x[1] = "slot"
    BY DEF SlotsHeld
  <2>1. held \in [Procs -> SUBSET Pointers]
    BY DEF TypeOK
  <2>2. CASE \E p \in Procs : Alloc(p)
    <3>1. PICK p \in Procs : held' = [held EXCEPT ![p] = @ \cup {SlotAt(Base[p], head)}]
      BY <2>2 DEF Alloc, Oldest
    <3>2. x \in held[q] \/ x = SlotAt(Base[p], head)
      BY <2>1, <3>1
    <3> QED
      BY <3>2 DEF SlotsHeld, SlotAt
  <2>3. CASE held'[q] \subseteq held[q]
    BY <2>3 DEF SlotsHeld
  <2>4. ASSUME NEW p \in Procs, NEW y \in held[p], Free(p, y) PROVE held'[q] \subseteq held[q]
    BY <2>1, <2>4 DEF Free
  <2>5. ASSUME NEW p \in Procs, ResetRing(p) PROVE held'[q] \subseteq held[q]
    BY <2>5 DEF ResetRing, structs
  <2>6. ASSUME NEW p \in Procs, NEW unlink \in BOOLEAN, Destroy(p, unlink)
        PROVE  held'[q] \subseteq held[q]
    BY <2>1, <2>6 DEF Destroy
  <2>7. ASSUME NEW p \in Procs, Attach(p) \/ ResetPut(p) PROVE held'[q] \subseteq held[q]
    BY <2>7 DEF Attach, ResetPut, structs
  <2>8. ASSUME UNCHANGED vars PROVE held'[q] \subseteq held[q]
    BY <2>8 DEF vars
  <2> QED
    BY <2>2, <2>3, <2>4, <2>5, <2>6, <2>7, <2>8 DEF Next
<1>3. SlotsHeld => NothingValid
  BY DEF SlotsHeld, NothingValid, Valid, Block
<1> QED
  BY <1>1, <1>2, <1>3, TypeCorrect, PTL DEF Spec

(* While nothing is stale, what the invariant says of a block it says of all. *)
LEMMA AllKept ==
  ASSUME IInv, stale = {}
  PROVE  /\ Kept = Ptrs /\ queue \in Seq(Ptrs) /\ Inj(queue, Ptrs)
         /\ \A x \in Ptrs : Apart(x)
         /\ \A p \in Procs : held[p] \subseteq Ptrs
<1>1. Kept = Ptrs
  BY DEF Kept
<1> QED
  BY <1>1 DEF IInv, Types, Once

(* memory_pool_free takes back whatever memory_pool_alloc gave: it finds the
   address in the pool, aligned, and the ring with room for it, in any
   interleaving since a reset that found no block in use. *)
THEOREM TakenBack == ASSUME Stored PROVE Spec => []FreesTaken
<1>1. IInv => FreesTaken
  <2> SUFFICES ASSUME IInv, stale = {}, NEW p \in mapped, NEW x \in held[p]
               PROVE  Valid(p, x) /\ Room
    BY DEF FreesTaken, FreeNeverRefused
  <2>1. p \in Procs /\ queue \in Seq(Ptrs) /\ Inj(queue, Ptrs)
    BY AllKept DEF IInv, Types
  <2>2. x \in Ptrs \ In(queue)
    BY <2>1, AllKept DEF Apart
  <2>3. Room
    BY <2>1, <2>2, Counting DEF Room
  <2>4. Valid(p, x)
    BY <2>1, <2>2, Constants DEF Stored, Valid, Ptrs
  <2> QED
    BY <2>3, <2>4
<1> QED
  BY <1>1, Invariant, PTL

LEMMA RoomToReset ==
  ASSUME IInv, stale = {}, NEW p \in Procs, Resetting(p) PROVE Room
<1>1. reset[p] \in Indices /\ reset[p] >= reset[p]
  BY Constants DEF IInv, Types, Resetting, Indices
<1>2. Block(base, reset[p]) \in Ptrs \ In(queue)
  BY <1>1 DEF IInv, Unput, Nowhere, Ptrs
<1> QED
  BY <1>2, AllKept, Counting DEF Room

(* memory_pool_reset finds room for the next block, whatever the other
   processes allocate and free meanwhile, if it found no block in use and no
   other reset at work. *)
THEOREM Fits == ASSUME Stored PROVE Spec => []ResetFits
<1>1. IInv => ResetFits
  BY RoomToReset DEF ResetFits, ResetNeverFull
<1> QED
  BY <1>1, Invariant, PTL

-----------------------------------------------------------------------------
(* The other half of the account: a block that is in play is somewhere. *)

Held  == UNION {held[p] : p \in Procs}
Where == In(queue) \cup lost \cup Held

\* Every block is in play but those that a reset has yet to put back.
Filled == stale = {} =>
            \A i \in Indices : (\A p \in Procs : i < reset[p]) => Block(base, i) \in Where

LEMMA InitFilled == Init => Filled
<1> SUFFICES ASSUME Init, NEW i \in Indices PROVE Block(base, i) \in In(queue)
  BY DEF Filled, Where
<1>1. NumBlocks \in Nat /\ i + 1 \in 1 .. NumBlocks /\ (i + 1) - 1 = i
  BY Constants DEF Indices
<1>2. Len(queue) = NumBlocks /\ queue[i + 1] = Block(base, i)
  BY <1>1 DEF Init, base
<1> QED
  BY <1>1, <1>2 DEF In

(* Only a reset takes a block out of play; the other steps move one from the
   ring to a caller, back, or to those lost. *)
LEMMA StaysFilled ==
  ASSUME Filled, Where \subseteq Where', reset' = reset, stale' = stale PROVE Filled'
BY DEF Filled

LEMMA NextFilled == ASSUME Stored, IInv, Filled, [Next]_vars PROVE Filled'
<1>1. CASE UNCHANGED vars
  BY <1>1 DEF vars, Filled, Where, Held, In
<1>2. ASSUME NEW p \in Procs, Attach(p) PROVE Filled'
  BY <1>2 DEF Attach, Filled, Where, Held, In
<1>3. ASSUME NEW p \in Procs, Alloc(p) PROVE Filled'
  <2> DEFINE x == Head(queue)
  <2>1. /\ In(queue) = In(queue') \cup {x} /\ held'[p] = held[p] \cup {x}
        /\ \A q \in Procs : q # p => held'[q] = held[q]
        /\ lost' = lost /\ reset' = reset /\ stale' = stale
    BY <1>3, Allocating
  <2> HIDE DEF x
  <2>2. Where \subseteq Where'
    BY <2>1 DEF Where, Held
  <2> QED
    BY <2>1, <2>2, StaysFilled
<1>4. ASSUME NEW p \in Procs, NEW x \in held[p], Free(p, x) PROVE Filled'
  <2>1. /\ In(queue') = In(queue) \cup {x} /\ held[p] \subseteq held'[p] \cup {x}
        /\ \A q \in Procs : q # p => held'[q] = held[q]
        /\ lost' = lost /\ reset' = reset /\ stale' = stale
    BY <1>4, Freeing
  <2>2. Where \subseteq Where'
    BY <2>1 DEF Where, Held
  <2> QED
    BY <2>1, <2>2, StaysFilled
<1>5. ASSUME NEW p \in Procs, ResetRing(p) PROVE Filled'
  <2>1. reset'[p] = 0
    BY <1>5, Resets
  <2>2. \A i \in Indices : ~(i < 0)
    BY Constants
  <2> QED
    BY <2>1, <2>2 DEF Filled
<1>6. ASSUME NEW p \in Procs, ResetPut(p), stale' = {} PROVE Filled'
  <2> DEFINE x == Block(base, reset[p])
  <2>1. stale = {} /\ held' = held /\ lost' = lost /\ Resetting(p)
    BY <1>6 DEF ResetPut
  <2>2. Room
    BY <2>1, RoomToReset
  <2>3. /\ reset[p] \in Indices /\ In(queue') = In(queue) \cup {x}
        /\ reset' = [reset EXCEPT ![p] = @ + 1]
    BY <1>6, <2>2, ResetPuts
  <2>4. Where' = Where \cup {x}
    BY <2>1, <2>3 DEF Where, Held
  <2>5. ASSUME NEW i \in Indices, \A q \in Procs : i < reset'[q], i # reset[p]
        PROVE  \A q \in Procs : i < reset[q]
    <3>1. reset'[p] = reset[p] + 1 /\ \A q \in Procs : q # p => reset'[q] = reset[q]
      BY <2>3 DEF IInv, Types
    <3>2. i < reset[p] + 1
      BY <2>5, <3>1
    <3>3. i \in Nat /\ reset[p] \in Nat /\ i # reset[p]
      BY <2>3, <2>5, Constants
    <3>4. i < reset[p]
      BY <3>2, <3>3
    <3> QED
      BY <2>5, <3>1, <3>4
  <2> QED
    BY <2>1, <2>4, <2>5 DEF Filled
<1>7. ASSUME NEW p \in Procs, ResetPut(p), stale' # {} PROVE Filled'
  BY <1>7 DEF Filled
<1>8. ASSUME NEW p \in Procs, NEW unlink \in BOOLEAN, Destroy(p, unlink) PROVE Filled'
  <2>1. /\ queue' = queue /\ reset' = reset /\ stale' = stale /\ lost' = lost \cup held[p]
        /\ held' = [held EXCEPT ![p] = {}]
    BY <1>8 DEF Destroy
  <2>2. \A q \in Procs : held[q] \subseteq held'[q] \cup lost'
    BY <2>1 DEF IInv, Types
  <2>3. In(queue') = In(queue)
    BY <2>1 DEF In
  <2>4. Where \subseteq Where'
    BY <2>1, <2>2, <2>3 DEF Where, Held
  <2> QED
    BY <2>1, <2>4, StaysFilled
<1> QED
  BY <1>1, <1>2, <1>3, <1>4, <1>5, <1>6, <1>7, <1>8 DEF Next

(* How many blocks are in play; the one that resets knows. *)
LEMMA InPlayIs ==
  ASSUME IInv, stale = {}
  PROVE  /\ InPlay \in 0 .. NumBlocks
         /\ \A i \in Indices : i < InPlay <=> \A p \in Procs : i < reset[p]
<1>1. reset \in [Procs -> 0 .. NumBlocks] /\ NumBlocks \in Nat
  BY Constants DEF IInv, Types
<1>2. \A i \in Indices : i < NumBlocks
  BY Constants
<1>3. \A p \in Procs : ~Resetting(p) => reset[p] = NumBlocks
  BY <1>1 DEF Resetting
<1>4. CASE \E p \in Procs : Resetting(p)
  <2> DEFINE r == CHOOSE p \in Procs : Resetting(p)
  <2>1. r \in Procs /\ Resetting(r) /\ InPlay = reset[r]
    BY <1>4 DEF InPlay
  <2> HIDE DEF r
  <2>2. \A p \in Procs : p # r => reset[p] = NumBlocks
    <3> SUFFICES ASSUME NEW p \in Procs \ {r} PROVE reset[p] = NumBlocks
      OBVIOUS
    <3>1. NumBlocks - 1 \in Indices /\ NumBlocks - 1 >= reset[r]
      BY <1>1, <2>1, Constants DEF Resetting
    <3>2. NumBlocks - 1 < reset[p]
      BY <2>1, <3>1 DEF IInv, Unput
    <3> QED
      BY <1>1, <3>2
  <2> QED
    BY <1>1, <1>2, <2>1, <2>2
<1>5. CASE ~ \E p \in Procs : Resetting(p)
  <2>1. InPlay = NumBlocks
    BY <1>5 DEF InPlay
  <2>2. \A p \in Procs : reset[p] = NumBlocks
    BY <1>3, <1>5
  <2> QED
    BY <1>1, <1>2, <2>1, <2>2
<1> QED
  BY <1>4, <1>5

Playing == {Block(base, i) : i \in 0 .. InPlay - 1}

(* Where blocks are is where those in play are. *)
LEMMA AllInPlay == ASSUME IInv, Filled, stale = {} PROVE Where = Playing
<1>1. InPlay \in 0 .. NumBlocks /\ NumBlocks \in Nat
  BY InPlayIs, Constants
<1>2. \A i : i \in 0 .. InPlay - 1 <=> i \in Indices /\ i < InPlay
  BY <1>1 DEF Indices
<1>3. Playing \subseteq Where
  BY <1>2, InPlayIs DEF Playing, Filled
<1>4. ASSUME NEW x \in Where PROVE x \in Playing
  <2>1. x \in Ptrs
    <3>1. In(queue) \subseteq Ptrs
      <4>1. queue \in Seq(Ptrs)
        BY DEF IInv, Types
      <4> QED
        BY <4>1 DEF In
    <3> QED
      BY <3>1 DEF Where, Held, IInv, Types
  <2>2. PICK i \in Indices : x = Block(base, i)
    BY <2>1 DEF Ptrs
  <2>3. ASSUME NEW p \in Procs PROVE i < reset[p]
    <3>1. reset[p] \in 0 .. NumBlocks /\ i \in Nat /\ i < NumBlocks
      BY Constants DEF IInv, Types
    <3>2. CASE Resetting(p)
      <4>1. ~(i >= reset[p])
        BY <1>4, <2>2, <3>2 DEF IInv, Unput, Nowhere, Where, Held
      <4> QED
        BY <3>1, <4>1
    <3>3. CASE ~Resetting(p)
      BY <1>1, <3>1, <3>3 DEF Resetting
    <3> QED
      BY <3>2, <3>3
  <2>4. i \in 0 .. InPlay - 1
    BY <1>2, <2>3, InPlayIs
  <2> QED
    BY <2>2, <2>4 DEF Playing
<1> QED
  BY <1>3, <1>4

LEMMA PlayingCounts ==
  ASSUME InPlay \in Nat
  PROVE  /\ IsFiniteSet(0 .. InPlay - 1) /\ Cardinality(0 .. InPlay - 1) = InPlay
         /\ IsFiniteSet(Playing) /\ Cardinality(Playing) = InPlay
<1> DEFINE I == 0 .. InPlay - 1
           f == [i \in I |-> Block(base, i)]
<1>1. IsFiniteSet(I) /\ Cardinality(I) = InPlay
  <2>1. IsFiniteSet(I) /\ Cardinality(I)
            = (IF 0 > InPlay - 1 THEN 0 ELSE (InPlay - 1) - 0 + 1)
    BY FS_Interval
  <2> QED
    BY <2>1
<1>2. \A i, j \in I : f[i] = f[j] => i = j
  BY BlockIs
<1>3. f \in Bijection(I, Playing)
  BY <1>2 DEF Bijection, Injection, Surjection, IsInjective, Playing
<1> QED
  BY <1>1, <1>3, FS_Bijection DEF ExistsBijection

(* A sequence without repetitions is as long as it has elements. *)
LEMMA LengthCounts ==
  ASSUME NEW q \in Seq(Ptrs), Inj(q, Ptrs)
  PROVE  IsFiniteSet(In(q)) /\ Cardinality(In(q)) = Len(q)
<1> DEFINE D == 1 .. Len(q)
           f == [k \in D |-> q[k]]
<1>1. Len(q) \in Nat
  OBVIOUS
<1>2. IsFiniteSet(D) /\ Cardinality(D) = Len(q)
  <2>1. IsFiniteSet(D) /\ Cardinality(D) = (IF 1 > Len(q) THEN 0 ELSE Len(q) - 1 + 1)
    BY <1>1, FS_Interval
  <2> QED
    BY <1>1, <2>1
<1>3. f \in Bijection(D, In(q))
  <2>1. \A j, k \in D : f[j] = f[k] => j = k
    BY DEF Inj
  <2> QED
    BY <2>1 DEF Bijection, Injection, Surjection, IsInjective, In
<1> QED
  BY <1>2, <1>3, FS_Bijection DEF ExistsBijection

Given == UNION {{p} \X held[p] : p \in Procs}

(* What the processes hold together, each counted at its holder: no block has
   two holders. *)
LEMMA GivenCounts ==
  ASSUME IInv, stale = {} PROVE IsFiniteSet(Held) /\ Cardinality(Given) = Cardinality(Held)
<1>1. IsFiniteSet(Held)
  <2>1. Held \in SUBSET Ptrs
    BY DEF Held, IInv, Types
  <2> QED
    BY <2>1, PtrsFinite, FS_Subset
<1> DEFINE Holder(x) == CHOOSE p \in Procs : x \in held[p]
           f == [x \in Held |-> <<Holder(x), x>>]
<1>2. \A x \in Held : Holder(x) \in Procs /\ x \in held[Holder(x)]
  BY DEF Held
<1>3. \A p \in Procs : \A x \in held[p] : p = Holder(x)
  BY <1>2, AllKept DEF Apart, Held
<1>4. f \in Surjection(Held, Given)
  <2>1. ASSUME NEW x \in Held PROVE f[x] \in Given
    <3>1. Holder(x) \in Procs /\ x \in held[Holder(x)]
      BY <1>2
    <3>2. <<Holder(x), x>> \in {Holder(x)} \X held[Holder(x)]
      BY <3>1
    <3> HIDE DEF Holder
    <3> QED
      BY <3>1, <3>2 DEF Given
  <2>2. ASSUME NEW g \in Given PROVE \E x \in Held : f[x] = g
    <3>1. PICK p \in Procs : g \in {p} \X held[p]
      BY DEF Given
    <3>2. PICK x \in held[p] : g = <<p, x>>
      BY <3>1
    <3>3. x \in Held /\ p = Holder(x)
      BY <1>3 DEF Held
    <3> QED
      BY <3>2, <3>3
  <2> QED
    BY <2>1, <2>2 DEF Surjection
<1>5. f \in Injection(Held, Given)
  <2>1. \A x, y \in Held : f[x] = f[y] => x = y
    OBVIOUS
  <2> QED
    BY <1>4, <2>1 DEF Injection, Surjection, IsInjective
<1> QED
  BY <1>1, <1>4, <1>5, FS_Bijection DEF Bijection, ExistsBijection

(* Blocks by index: the ring's and those that are out. *)
LEMMA IndicesInPlay ==
  ASSUME Stored, IInv, Filled, stale = {}
  PROVE  FreeIndices \cup ((UNION {IndicesOf(held[p]) : p \in Procs}) \cup IndicesOf(lost))
           = 0 .. InPlay - 1
<1>1. FreeIndices = {x[3] : x \in In(queue)}
  BY DEF FreeIndices, Stored, In
<1>2. UNION {IndicesOf(held[p]) : p \in Procs} = {x[3] : x \in Held}
  BY DEF IndicesOf, Held
<1>3. IndicesOf(lost) = {x[3] : x \in lost}
  BY DEF IndicesOf
<1>4. {x[3] : x \in Where} = 0 .. InPlay - 1
  <2>1. \A i : Block(base, i)[3] = i
    BY BlockIs
  <2>2. Where = {Block(base, i) : i \in 0 .. InPlay - 1}
    BY AllInPlay DEF Playing
  <2> HIDE DEF Where
  <2> QED
    BY <2>1, <2>2
<1> QED
  BY <1>1, <1>2, <1>3, <1>4 DEF Where

(* While nothing is stale, every block that is in play is in one place: the
   invariant of Invariant, and that no step of any call loses one from sight. *)
THEOREM NothingLost == ASSUME Stored PROVE Spec => [](IInv /\ Filled)
<1>1. Init => IInv /\ Filled
  BY InitIInv, InitFilled
<1>2. IInv /\ Filled /\ [Next]_vars => (IInv /\ Filled)'
  BY NextIInv, NextFilled
<1> QED
  BY <1>1, <1>2, PTL DEF Spec

(* Since a reset that found no block in use, the blocks free, held and lost are
   all those in play, and add up to their number: alloc, free and destroy of
   any number of processes, also while the reset refills the ring. *)
THEOREM Accounting == ASSUME Stored PROVE Spec => []Accounted
<1>1. IInv /\ Filled => Accounted
  <2> DEFINE out == (UNION {IndicesOf(held[p]) : p \in Procs}) \cup IndicesOf(lost)
  <2> SUFFICES ASSUME IInv, Filled, stale = {}
               PROVE  /\ Cardinality(FreeIndices \cup out) = InPlay
                      /\ Len(queue) + Cardinality(Given) + Cardinality(lost) = InPlay
    BY DEF Accounted, Given
  <2>1. InPlay \in Nat
    BY InPlayIs, Constants
  <2>2. Cardinality(FreeIndices \cup
            ((UNION {IndicesOf(held[p]) : p \in Procs}) \cup IndicesOf(lost))) = InPlay
    <3>1. FreeIndices \cup ((UNION {IndicesOf(held[p]) : p \in Procs}) \cup IndicesOf(lost))
            = 0 .. InPlay - 1
      BY IndicesInPlay
    <3> QED
      BY <2>1, <3>1, PlayingCounts
  <2>3. Len(queue) + Cardinality(Given) + Cardinality(lost) = InPlay
    <3>1. queue \in Seq(Ptrs) /\ Inj(queue, Ptrs) /\ Len(queue) \in Nat
      BY AllKept
    <3>2. IsFiniteSet(In(queue)) /\ Cardinality(In(queue)) = Len(queue)
      BY <3>1, LengthCounts
    <3>3. IsFiniteSet(lost)
      <4>1. lost \in SUBSET Ptrs
        BY DEF IInv, Types
      <4> QED
        BY <4>1, PtrsFinite, FS_Subset
    <3>4. IsFiniteSet(Held) /\ Cardinality(Given) = Cardinality(Held)
      BY GivenCounts
    <3>5. Cardinality(lost) \in Nat /\ Cardinality(Held) \in Nat
      BY <3>3, <3>4, FS_CardinalityType
    <3>6. In(queue) \cap lost = {} /\ (In(queue) \cup lost) \cap Held = {}
      BY AllKept DEF Apart, Held, IInv, Types
    <3>7. /\ Cardinality(In(queue) \cap lost) = 0
          /\ Cardinality((In(queue) \cup lost) \cap Held) = 0
      BY <3>6, FS_EmptySet, Zenon
    <3>8. /\ IsFiniteSet(In(queue) \cup lost)
          /\ Cardinality(In(queue) \cup lost) = Len(queue) + Cardinality(lost)
      <4> DEFINE a == Cardinality(In(queue) \cup lost)
                 b == Cardinality(lost)
      <4>1. /\ IsFiniteSet(In(queue) \cup lost)
            /\ a = Cardinality(In(queue)) + b - Cardinality(In(queue) \cap lost)
        BY <3>2, <3>3, FS_Union
      <4>2. a = Len(queue) + b - 0
        BY <3>2, <3>7, <4>1, Zenon
      <4>3. b \in Nat
        BY <3>5
      <4> HIDE DEF a, b
      <4>4. a = Len(queue) + b
        BY <3>1, <4>2, <4>3
      <4> QED
        BY <4>1, <4>4 DEF a, b
    <3>9. Cardinality((In(queue) \cup lost) \cup Held)
            = Cardinality(In(queue) \cup lost) + Cardinality(Held)
                - Cardinality((In(queue) \cup lost) \cap Held)
      BY <3>4, <3>8, FS_Union
    <3>10. Cardinality((In(queue) \cup lost) \cup Held) = InPlay
      BY <2>1, AllInPlay, PlayingCounts DEF Where
    <3>11. InPlay = Len(queue) + Cardinality(lost) + Cardinality(Held) - 0
      BY <3>7, <3>8, <3>9, <3>10, Zenon
    <3> QED
      BY <3>1, <3>4, <3>5, <3>11
  <2> QED
    BY <2>2, <2>3
<1> QED
  BY <1>1, NothingLost, PTL

-----------------------------------------------------------------------------
(* The pool implements SharedAllocator. *)

has == [p \in Procs |-> IndicesOf(held[p]) \ stale]

\* Blocks and their indices go together.
LEMMA ByIndex ==
  ASSUME NEW S \in SUBSET Ptrs, NEW i
  PROVE  /\ i \in IndicesOf(S) <=> i \in Indices /\ Block(base, i) \in S
         /\ IndicesOf(S) \subseteq Indices
<1>1. \A y \in Ptrs : y[3] \in Indices /\ y = Block(base, y[3])
  BY BlockIs DEF Ptrs
<1>2. Block(base, i)[3] = i
  BY BlockIs
<1> QED
  BY <1>1, <1>2 DEF IndicesOf

LEMMA Added ==
  ASSUME NEW S \in SUBSET Ptrs, NEW x \in Ptrs
  PROVE  /\ IndicesOf(S \cup {x}) = IndicesOf(S) \cup {x[3]}
         /\ x[3] \in Indices /\ x = Block(base, x[3])
         /\ x \in Kept <=> x[3] \notin stale
BY BlockIs DEF IndicesOf, Ptrs, Kept

LEMMA FreeIs == ASSUME Stored PROVE FreeIndices = IndicesOf(In(queue))
BY DEF FreeIndices, IndicesOf, Stored, In

LEMMA FreeIsNext == ASSUME Stored PROVE FreeIndices' = IndicesOf(In(queue'))
BY DEF FreeIndices, IndicesOf, Stored, In

LEMMA Parts ==
  ASSUME IInv
  PROVE  /\ In(queue) \in SUBSET Ptrs /\ lost \in SUBSET Ptrs
         /\ \A p \in Procs : held[p] \in SUBSET Ptrs
<1>1. queue \in Seq(Ptrs)
  BY DEF IInv, Types
<1> QED
  BY <1>1 DEF In, IInv, Types

(* What is where, by index. *)
LEMMA Members ==
  ASSUME Stored, IInv, NEW i \in Indices
  PROVE  /\ i \in FreeIndices <=> Block(base, i) \in In(queue)
         /\ i \in IndicesOf(lost) <=> Block(base, i) \in lost
         /\ \A p \in Procs : i \in IndicesOf(held[p]) <=> Block(base, i) \in held[p]
BY ByIndex, Parts, FreeIs

LEMMA InitShared == ASSUME Stored, Init PROVE Shared!SInit
<1>1. /\ NumBlocks \in Nat /\ Creator \in Procs
      /\ queue = [k \in 1 .. NumBlocks |-> Block(base, k - 1)]
  BY Constants DEF Init, base
<1>2. Len(queue) = NumBlocks
  BY <1>1
<1>3. \A k \in 1 .. NumBlocks : queue[k][3] = k - 1
  BY <1>1, BlockIs
<1>4. FreeIndices = {k - 1 : k \in 1 .. NumBlocks}
  BY <1>2, <1>3 DEF FreeIndices, Stored
<1>5. \A i \in Indices : i + 1 \in 1 .. NumBlocks /\ (i + 1) - 1 = i
  BY <1>1 DEF Indices
<1>6. \A k \in 1 .. NumBlocks : k - 1 \in Indices
  BY <1>1 DEF Indices
<1>7. FreeIndices = Indices
  BY <1>4, <1>5, <1>6
<1>8. has = [p \in Procs |-> {}] /\ IndicesOf(lost) = {} /\ stale = {}
  BY DEF Init, has, IndicesOf
<1> QED
  BY <1>7, <1>8 DEF Shared!SInit, has

(* A stale block that is handed out or given back is not the allocator's. *)
LEMMA AllocShared ==
  ASSUME Stored, IInv, NEW p \in Procs, Alloc(p)
  PROVE  Shared!SAlloc(p) \/ UNCHANGED Shared!svars
<1> DEFINE x == Head(queue)
           i == x[3]
<1>1. /\ x \in Ptrs /\ x \in In(queue)
      /\ In(queue) = In(queue') \cup {x} /\ (x \in Kept => x \notin In(queue'))
      /\ held' = [held EXCEPT ![p] = @ \cup {x}]
      /\ lost' = lost /\ stale' = stale
  BY Allocating
<1>2. held \in [Procs -> SUBSET Ptrs] /\ In(queue') \in SUBSET Ptrs
  BY <1>1, Parts DEF IInv, Types
<1> HIDE DEF x
<1>3. /\ FreeIndices = FreeIndices' \cup {i} /\ (i \notin stale => i \notin FreeIndices')
  <2>1. FreeIndices = IndicesOf(In(queue')) \cup {i}
    BY <1>1, <1>2, FreeIs, Added
  <2>2. i \in IndicesOf(In(queue')) => x \in In(queue')
    BY <1>1, <1>2, ByIndex, Added
  <2> QED
    BY <1>1, <2>1, <2>2, FreeIsNext, Added
<1>4. has' = [has EXCEPT ![p] = (@ \cup {i}) \ stale]
  <2>1. IndicesOf(held[p] \cup {x}) = IndicesOf(held[p]) \cup {i}
    BY <1>1, <1>2, Added
  <2> QED
    BY <1>1, <1>2, <2>1 DEF has
<1>5. IndicesOf(lost)' = IndicesOf(lost)
  BY <1>1 DEF IndicesOf
<1>6. has[p] = has[p] \ stale
  BY DEF has
<1> HIDE DEF i
<1>7. CASE i \notin stale
  <2>1. i \in FreeIndices \ stale /\ (FreeIndices \ stale)' = (FreeIndices \ stale) \ {i}
    BY <1>1, <1>3, <1>7
  <2>2. has' = [has EXCEPT ![p] = @ \cup {i}]
    BY <1>4, <1>6, <1>7
  <2> QED
    BY <1>1, <1>5, <2>1, <2>2 DEF Shared!SAlloc, has
<1>8. CASE i \in stale
  <2>1. (FreeIndices \ stale)' = FreeIndices \ stale
    BY <1>1, <1>3, <1>8
  <2>2. has' = has
    <3>1. (has[p] \cup {i}) \ stale = has[p]
      BY <1>6, <1>8
    <3> QED
      BY <1>4, <3>1 DEF has
  <2> QED
    BY <1>1, <1>5, <2>1, <2>2 DEF Shared!svars, has
<1> QED
  BY <1>7, <1>8

LEMMA FreeShared ==
  ASSUME Stored, IInv, NEW p \in Procs, NEW x \in held[p], Free(p, x)
  PROVE  Shared!SFree(p) \/ UNCHANGED Shared!svars
<1> DEFINE i == x[3]
<1>1. /\ x \in Ptrs /\ In(queue') = In(queue) \cup {x}
      /\ x \in Kept => x \notin held'[p]
      /\ held' \in [Procs -> SUBSET Ptrs]
      /\ held'[p] \subseteq held[p] /\ held[p] \subseteq held'[p] \cup {x}
      /\ \A q \in Procs : q # p => held'[q] = held[q]
      /\ lost' = lost /\ stale' = stale
  BY Freeing
<1>2. held \in [Procs -> SUBSET Ptrs]
  BY DEF IInv, Types
<1>3. FreeIndices' = FreeIndices \cup {i}
  BY <1>1, FreeIs, FreeIsNext, Added, Parts
<1>4. /\ IndicesOf(held[p]) = IndicesOf(held'[p]) \cup {i}
      /\ i \notin stale => i \notin IndicesOf(held'[p])
  <2>1. held[p] = held'[p] \cup {x} /\ held'[p] \in SUBSET Ptrs
    BY <1>1
  <2>2. i \in IndicesOf(held'[p]) => x \in held'[p]
    BY <1>1, <2>1, ByIndex, Added
  <2> QED
    BY <1>1, <2>1, <2>2, Added
<1>5. IndicesOf(lost)' = IndicesOf(lost)
  BY <1>1 DEF IndicesOf
<1> HIDE DEF i
<1>6. /\ has'[p] = IndicesOf(held'[p]) \ stale /\ \A q \in Procs : q # p => has'[q] = has[q]
      /\ has[p] = IndicesOf(held[p]) \ stale
      /\ has = [q \in Procs |-> has[q]] /\ has' = [q \in Procs |-> has'[q]]
  BY <1>1 DEF has
<1>7. CASE i \notin stale
  <2>1. i \in has[p] /\ has'[p] = has[p] \ {i}
    BY <1>4, <1>6, <1>7
  <2>2. has' = [has EXCEPT ![p] = @ \ {i}]
    <3>1. has' = [q \in Procs |-> IF q = p THEN has[p] \ {i} ELSE has[q]]
      BY <1>6, <2>1
    <3> HIDE DEF has
    <3> QED
      BY <1>6, <3>1
  <2>3. (FreeIndices \ stale)' = (FreeIndices \ stale) \cup {i}
    BY <1>1, <1>3, <1>7
  <2> QED
    BY <1>1, <1>5, <2>1, <2>2, <2>3 DEF Shared!SFree, has
<1>8. CASE i \in stale
  <2>1. has' = has
    <3>1. has'[p] = has[p]
      BY <1>4, <1>6, <1>8
    <3> HIDE DEF has
    <3> QED
      BY <1>6, <3>1
  <2>2. (FreeIndices \ stale)' = FreeIndices \ stale
    BY <1>1, <1>3, <1>8
  <2> QED
    BY <1>1, <1>5, <2>1, <2>2 DEF Shared!svars, has
<1> QED
  BY <1>7, <1>8

(* A reset makes void what somebody has, and at most what another reset had
   yet to put back or was void already. *)
LEMMA ResetRingShared ==
  ASSUME Stored, IInv, NEW p \in Procs, ResetRing(p) PROVE Shared!SReset
<1>1. /\ queue' = << >> /\ held' = held /\ lost' = {} /\ stale' = StaleAt(p)
      /\ stale' \subseteq Indices
  BY DEF ResetRing, StaleAt
<1>2. FreeIndices' = {} /\ IndicesOf(lost)' = {}
  BY <1>1 DEF FreeIndices, Stored, IndicesOf
<1>3. has' = [q \in Procs |-> {}]
  <2>1. \A q \in Procs : IndicesOf(held[q]) \subseteq stale'
    BY <1>1, ByIndex, Parts DEF StaleAt
  <2> QED
    BY <1>1, <2>1 DEF has
<1> DEFINE Owned == UNION {has[q] : q \in Procs}
           late == stale' \ Owned
<1>4. Owned \subseteq stale'
  BY <1>1, ByIndex, Parts DEF StaleAt, has
<1>5. late \in SUBSET (Shared!Withheld \cup stale)
  <2> SUFFICES ASSUME NEW i \in late, i \notin stale PROVE i \in Shared!Withheld
    OBVIOUS
  <2>1. i \in Indices /\ \A q \in Procs : i \notin IndicesOf(held[q])
    BY <1>1 DEF has
  <2>2. PICK q \in Procs \ {p} : i >= reset[q]
    BY <1>1, <2>1 DEF StaleAt
  <2>3. Resetting(q)
    <3>1. i \in Nat /\ i < NumBlocks /\ NumBlocks \in Nat
      BY <2>1, Constants DEF Indices
    <3>2. reset[q] \in Nat
      BY <2>2, Constants DEF IInv, Types
    <3>3. reset[q] < NumBlocks
      BY <2>2, <3>1, <3>2
    <3> QED
      BY <3>3 DEF Resetting
  <2>4. Nowhere(Block(base, i))
    BY <2>1, <2>2, <2>3 DEF IInv, Unput
  <2>5. i \notin FreeIndices /\ i \notin IndicesOf(lost)
    BY <2>1, <2>4, Members DEF Nowhere
  <2> QED
    BY <2>1, <2>5 DEF Shared!Withheld, Shared!Owned, has
<1>6. stale' = Owned \cup late
  BY <1>4
<1> QED
  BY <1>2, <1>3, <1>5, <1>6 DEF Shared!SReset, Shared!Owned, has

LEMMA ResetPutShared ==
  ASSUME Stored, IInv, NEW p \in Procs, ResetPut(p)
  PROVE  Shared!SReturn \/ UNCHANGED Shared!svars
<1> DEFINE x == Block(base, reset[p])
<1>1. /\ reset[p] \in Indices /\ x \in Ptrs /\ x[3] = reset[p]
      /\ reset[p] \notin stale => Nowhere(x)
      /\ queue' = queue \/ In(queue') = In(queue) \cup {x}
      /\ held' = held /\ lost' = lost /\ stale' = stale
  BY ResetPuts
<1>2. has' = has /\ IndicesOf(lost)' = IndicesOf(lost)
  BY <1>1 DEF has, IndicesOf
<1>3. CASE queue' = queue
  <2>1. FreeIndices' = FreeIndices
    BY <1>3, FreeIs, FreeIsNext
  <2> QED
    BY <1>1, <1>2, <2>1 DEF Shared!svars, has
<1>4. CASE In(queue') = In(queue) \cup {x}
  <2>1. FreeIndices' = FreeIndices \cup {reset[p]}
    BY <1>1, <1>4, FreeIs, FreeIsNext, Added, Parts
  <2>2. CASE reset[p] \in stale
    BY <1>1, <1>2, <2>1, <2>2 DEF Shared!svars, has
  <2>3. CASE reset[p] \notin stale
    <3>1. /\ reset[p] \notin FreeIndices /\ reset[p] \notin IndicesOf(lost)
          /\ \A q \in Procs : reset[p] \notin IndicesOf(held[q])
      BY <1>1, <2>3, Members DEF Nowhere
    <3>2. reset[p] \in Shared!Withheld
      BY <1>1, <2>3, <3>1 DEF Shared!Withheld, Shared!Owned
    <3>3. (FreeIndices \ stale)' = (FreeIndices \ stale) \cup {reset[p]}
      BY <1>1, <2>1, <2>3
    <3> QED
      BY <1>1, <1>2, <3>2, <3>3 DEF Shared!SReturn, has
  <2> QED
    BY <2>2, <2>3
<1> QED
  BY <1>1, <1>3, <1>4

LEMMA DestroyShared ==
  ASSUME IInv, NEW p \in Procs, NEW unlink \in BOOLEAN, Destroy(p, unlink)
  PROVE  Shared!SDestroy(p)
<1>1. /\ queue' = queue /\ head' = head /\ stale' = stale /\ lost' = lost \cup held[p]
      /\ held' = [held EXCEPT ![p] = {}]
  BY DEF Destroy
<1>2. held \in [Procs -> SUBSET Ptrs]
  BY DEF IInv, Types
<1>3. FreeIndices' = FreeIndices
  BY <1>1 DEF FreeIndices
<1>4. has' = [has EXCEPT ![p] = {}] /\ has[p] = IndicesOf(held[p]) \ stale
  BY <1>1, <1>2 DEF has, IndicesOf
<1>5. IndicesOf(lost)' = IndicesOf(lost) \cup IndicesOf(held[p])
  BY <1>1 DEF IndicesOf
<1>6. (IndicesOf(lost) \ stale)' = (IndicesOf(lost) \ stale) \cup has[p]
  BY <1>1, <1>4, <1>5
<1> QED
  BY <1>1, <1>3, <1>4, <1>6 DEF Shared!SDestroy, has

LEMMA NextShared ==
  ASSUME Stored, IInv, [Next]_vars PROVE [Shared!SNext]_(Shared!svars)
<1>1. CASE UNCHANGED vars \/ \E p \in Procs : Attach(p)
  <2>1. queue' = queue /\ head' = head /\ held' = held /\ lost' = lost /\ stale' = stale
    BY <1>1 DEF vars, Attach
  <2>2. FreeIndices' = FreeIndices /\ has' = has /\ IndicesOf(lost)' = IndicesOf(lost)
    BY <2>1 DEF FreeIndices, has, IndicesOf
  <2> QED
    BY <2>1, <2>2 DEF Shared!svars, has
<1>2. ASSUME NEW p \in Procs, Alloc(p) PROVE [Shared!SNext]_(Shared!svars)
  BY <1>2, AllocShared DEF Shared!SNext
<1>3. ASSUME NEW p \in Procs, NEW x \in held[p], Free(p, x) PROVE [Shared!SNext]_(Shared!svars)
  BY <1>3, FreeShared DEF Shared!SNext
<1>4. ASSUME NEW p \in Procs, ResetRing(p) PROVE Shared!SNext
  BY <1>4, ResetRingShared DEF Shared!SNext
<1>5. ASSUME NEW p \in Procs, ResetPut(p) PROVE [Shared!SNext]_(Shared!svars)
  BY <1>5, ResetPutShared DEF Shared!SNext
<1>6. ASSUME NEW p \in Procs, NEW unlink \in BOOLEAN, Destroy(p, unlink) PROVE Shared!SNext
  BY <1>6, DestroyShared DEF Shared!SNext
<1> QED
  BY <1>1, <1>2, <1>3, <1>4, <1>5, <1>6 DEF Next

(* The pool of any processes, with its ring, its addresses and its reset that
   is many ring operations, behaves as mempool_ring.h says an allocator does,
   whoever frees and resets when: only of the blocks that somebody had, or
   another reset was putting back, when the last reset began, nothing is
   promised, and what becomes of them never reaches the others. *)
THEOREM Implements == ASSUME Stored PROVE Spec => ImplementsShared
<1>1. Init => Shared!SInit
  BY InitShared
<1>2. IInv /\ [Next]_vars => [Shared!SNext]_(Shared!svars)
  BY NextShared
<1> QED
  BY <1>1, <1>2, Invariant, PTL DEF Spec, ImplementsShared, Shared!SSpec
=============================================================================
