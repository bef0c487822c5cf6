--------------------------- MODULE MPMCTest_proofs ---------------------------
(***************************************************************************)
(* Theorems about MPMCTest, for any number of producers, of as many        *)
(* consumers and of values, with the ring that answers items               *)
(* (~SlotAddress).                                                         *)
(*                                                                         *)
(* Every step of the test is one of the ring or none, so that the ring's   *)
(* invariant holds (MPMCRing_proofs).  To it TestInv adds what the loops   *)
(* of the test know (Producing, Consuming), and that an item that has been *)
(* put is in one place: in the queue or with one consumer, once            *)
(* (Apart, Fresh).                                                         *)
(***************************************************************************)
EXTENDS MPMCTest, MPMCRing_proofs, FiniteSetTheorems

(* The puts of p that have taken effect, and the items c has been handed,
   the one included that its call is about to answer. *)
Sent(p) == made[p] + (IF ret[p] = OK THEN 1 ELSE 0)
Holds(c) == pc[c] \in {"get_unlock", "return"} /\ ret[c] # NULL
Taken(c) == IF Holds(c) THEN Append(read[c], ret[c]) ELSE read[c]

Producing(p) ==
  /\ made[p] \in 0 .. Ops /\ ret[p] \in {NULL, OK, FULL}
  /\ pc[p] \in {"idle", "return"} \cup PutPCs
  /\ ret[p] = OK => pc[p] \in {"put_unlock", "return"}
  /\ pc[p] # "idle" => made[p] < Ops /\ arg[p] = Values[p][made[p] + 1]

Consuming(c) == /\ ret[c] \in Items \cup {NULL}
                /\ pc[c] \in {"idle", "return"} \cup GetPCs

SentItems == {x \in Items : \E p \in Producers : \E i \in 1 .. Sent(p) : x = Values[p][i]}

(* Consumers have been handed each item once... *)
Apart == \A c, d \in Consumers : \A i \in 1 .. Len(Taken(c)), j \in 1 .. Len(Taken(d)) :
            Taken(c)[i] = Taken(d)[j] => c = d /\ i = j

(* ... those in the queue not yet, and these are there once; all were put. *)
Fresh == /\ \A k, l \in 1 .. Len(fifo) : fifo[k] = fifo[l] => k = l
         /\ \A c \in Consumers : \A i \in 1 .. Len(Taken(c)), k \in 1 .. Len(fifo) :
               Taken(c)[i] # fifo[k]
         /\ \A k \in 1 .. Len(fifo) : fifo[k] \in SentItems
         /\ \A c \in Consumers : \A i \in 1 .. Len(Taken(c)) : Taken(c)[i] \in SentItems

TestInv == /\ IInv
           /\ made \in [Producers -> 0 .. Ops] /\ read \in [Consumers -> Seq(Items)]
           /\ \A p \in Producers : Producing(p)
           /\ \A c \in Consumers : Consuming(c)
           /\ Apart /\ Fresh

-----------------------------------------------------------------------------
LEMMA Roles ==
  /\ Producers \subseteq Threads /\ Consumers \subseteq Threads
  /\ \A p \in Producers : p \notin Consumers
  /\ \A t \in Threads : t \in Producers \/ t \in Consumers
  /\ Ops \in Nat /\ Ops > 0 /\ OK # FULL /\ OK # NULL /\ FULL # NULL /\ NULL \notin Items
  /\ \A p \in Producers : \A i \in 1 .. Ops : Values[p][i] \in Items
BY TestAssumption, RingAssumption

(* The values of the test are all different: there are as many of them as
   there are places for them. *)
LEMMA ValuesDiffer ==
  ASSUME NEW p \in Producers, NEW q \in Producers, NEW i \in 1 .. Ops, NEW j \in 1 .. Ops,
         Values[p][i] = Values[q][j]
  PROVE  p = q /\ i = j
<1> DEFINE S == Producers \X (1 .. Ops)
           f == [x \in S |-> Values[x[1]][x[2]]]
<1>1. IsFiniteSet(1 .. Ops) /\ Cardinality(1 .. Ops) = Ops
  BY Roles, FS_Interval
<1>2. IsFiniteSet(S) /\ Cardinality(S) = Cardinality(Producers) * Ops
  <2>1. IsFiniteSet(Producers)
    BY TestAssumption
  <2> QED
    BY <1>1, <2>1, FS_Product
<1>3. Cardinality(Producers) \in Nat
  BY TestAssumption, FS_CardinalityType
<1>4. Cardinality(S) = Cardinality(Items)
  BY <1>2, <1>3, TestAssumption
<1>5. f \in [S -> Items]
  BY Roles
<1>6. \A x \in Items : \E s \in S : f[s] = x
  <2> SUFFICES ASSUME NEW x \in Items PROVE \E s \in S : f[s] = x
    OBVIOUS
  <2>1. PICK r \in Producers : x \in Range(Values[r])
    BY TestAssumption
  <2>2. DOMAIN Values[r] = 1 .. Ops
    BY TestAssumption
  <2>3. PICK k \in 1 .. Ops : x = Values[r][k]
    BY <2>1, <2>2 DEF Range
  <2>4. <<r, k>> \in S /\ f[<<r, k>>] = x
    BY <2>3
  <2> QED
    BY <2>4
<1>7. f \in Surjection(S, Items)
  BY <1>5, <1>6 DEF Surjection
<1>8. f \in Injection(S, Items)
  BY <1>2, <1>4, <1>7, FS_SurjSameCardinalityImpliesInj
<1>9. <<p, i>> \in S /\ <<q, j>> \in S /\ f[<<p, i>>] = f[<<q, j>>] /\ DOMAIN f = S
  OBVIOUS
<1> HIDE DEF f
<1> QED
  BY <1>8, <1>9 DEF Injection, IsInjective

-----------------------------------------------------------------------------
(* A step of the test is a step of the ring, or none. *)
LEMMA RingSteps ==
  ASSUME TestInv, [TestNext]_tvars
  PROVE  [Next]_vars
<1>1. ASSUME NEW p \in Producers, Producer(p)
      PROVE  Next
  <2>1. p \in Threads
    BY Roles
  <2>2. CASE ProducerCall(p)
    <3>1. made[p] + 1 \in 1 .. Ops
      BY <2>2, Roles DEF TestInv, Producing, ProducerCall
    <3>2. Values[p][made[p] + 1] \in Items
      BY <3>1, Roles
    <3> QED
      BY <2>1, <2>2, <3>2 DEF ProducerCall, Next, Call
  <2>3. CASE InRing(p) \/ ProducerReturn(p)
    BY <2>1, <2>3 DEF InRing, ProducerReturn, Next, Step
  <2> QED
    BY <1>1, <2>2, <2>3 DEF Producer
<1>2. ASSUME NEW c \in Consumers, Consumer(c)
      PROVE  Next
  <2>1. c \in Threads
    BY Roles
  <2> QED
    BY <1>2, <2>1 DEF Consumer, ConsumerCall, InRing, ConsumerReturn, Next, Call, Step
<1>3. CASE UNCHANGED tvars
  BY <1>3 DEF tvars
<1> QED
  BY <1>1, <1>2, <1>3 DEF TestNext

(* What a step of a producer can do: go on, or put its next value. *)
OthersKept(t) == \A u \in Threads \ {t} : pc'[u] = pc[u] /\ ret'[u] = ret[u] /\ arg'[u] = arg[u]
GoesOn(p) == fifo' = fifo /\ Sent(p)' = Sent(p)
PutsNext(p) == /\ Sent(p) < Ops /\ Sent(p)' = Sent(p) + 1
               /\ fifo' = Append(fifo, Values[p][Sent(p) + 1])

ProducerEffect(p) == /\ OthersKept(p) /\ read' = read
                     /\ made' \in [Producers -> 0 .. Ops]
                     /\ \A q \in Producers \ {p} : made'[q] = made[q]
                     /\ Producing(p)' /\ (GoesOn(p) \/ PutsNext(p))

LEMMA ProducerStep ==
  ASSUME TestInv, NEW p \in Producers, Producer(p)
  PROVE  ProducerEffect(p)
<1> USE Roles DEF Goto, Set, ring, locks, locals, Producing, Sent, ProducerEffect,
    OthersKept,
                  GoesOn, PutsNext, InRing, PutPCs
<1>1. /\ pc \in [Threads -> PCs] /\ arg \in [Threads -> Items \cup {NULL}]
      /\ ret \in [Threads -> Answers] /\ p \in Threads
      /\ Producing(p) /\ made \in [Producers -> 0 .. Ops]
  BY DEF TestInv, IInv, TypeOK
<1>2. pc[p] \in {"idle", "put_fast", "put_lock", "put_check", "put_load", "put_write", "put_tail",
                 "put_count"} => ret[p] = NULL
  BY DEF TestInv, IInv, Unanswered, Answered
<1>3. CASE ProducerCall(p)
  BY <1>1, <1>2, <1>3 DEF ProducerCall, CallPut
<1>4. CASE ProducerReturn(p)
  BY <1>1, <1>4 DEF ProducerReturn, Return
<1>5. CASE PutFast(p) /\ InRing(p)
  BY <1>1, <1>2, <1>5 DEF PutFast
<1>6. CASE PutLock(p) /\ InRing(p)
  BY <1>1, <1>2, <1>6 DEF PutLock
<1>7. CASE PutCheck(p) /\ InRing(p)
  BY <1>1, <1>2, <1>7 DEF PutCheck
<1>8. CASE PutLoad(p) /\ InRing(p)
  BY <1>1, <1>2, <1>8 DEF PutLoad
<1>9. CASE PutWrite(p) /\ InRing(p)
  BY <1>1, <1>2, <1>9 DEF PutWrite
<1>10. CASE PutTail(p) /\ InRing(p)
  BY <1>1, <1>2, <1>10 DEF PutTail
<1>11. CASE PutCount(p) /\ InRing(p)
  BY <1>1, <1>2, <1>11 DEF PutCount
<1>12. CASE PutUnlock(p) /\ InRing(p)
  BY <1>1, <1>2, <1>12 DEF PutUnlock
<1>13. ~GetStep(p)
  BY <1>1
  DEF GetStep, GetFast, GetLock, GetCheck, GetLoad, GetRead, GetHead, GetCount, GetUnlock
<1> QED
  BY <1>3, <1>4, <1>5, <1>6, <1>7, <1>8, <1>9, <1>10, <1>11, <1>12, <1>13, Producer(p)
  DEF Producer, PutStep

(* A step of a consumer: go on, or take the oldest item. *)
KeepsTaken(c) == fifo' = fifo /\ Taken(c)' = Taken(c)
TakesOldest(c) == /\ fifo # << >> /\ fifo' = Tail(fifo)
                  /\ Taken(c)' = Append(Taken(c), Head(fifo))

ConsumerEffect(c) == /\ OthersKept(c) /\ made' = made
                     /\ read' \in [Consumers -> Seq(Items)]
                     /\ \A d \in Consumers \ {c} : read'[d] = read[d]
                     /\ Consuming(c)' /\ (KeepsTaken(c) \/ TakesOldest(c))

LEMMA ConsumerStep ==
  ASSUME TestInv, ~SlotAddress, NEW c \in Consumers, Consumer(c)
  PROVE  ConsumerEffect(c)
<1> USE Roles DEF Goto, Set, ring, locks, locals, Consuming, Holds, Taken, ConsumerEffect,
                  OthersKept, KeepsTaken, TakesOldest, InRing, GetPCs
<1>1. /\ pc \in [Threads -> PCs] /\ arg \in [Threads -> Items \cup {NULL}]
      /\ ret \in [Threads -> Answers] /\ c \in Threads
      /\ Consuming(c) /\ read \in [Consumers -> Seq(Items)]
      /\ buffer \in [Slots -> Items \cup {NULL}] /\ idx[c] \in Slots
  BY DEF TestInv, IInv, TypeOK
<1>2. pc[c] \in {"idle", "get_fast", "get_lock", "get_check", "get_load", "get_read"} =>
         ret[c] = NULL
  BY DEF TestInv, IInv, Unanswered, Answered
<1>3. CASE ConsumerCall(c)
  BY <1>1, <1>2, <1>3 DEF ConsumerCall, CallGet
<1>4. CASE ConsumerReturn(c)
  <2>1. CASE ret[c] # NULL
    <3>1. Append(read[c], ret[c]) \in Seq(Items)
      BY <1>1, <2>1
    <3> QED
      BY <1>1, <1>4, <2>1, <3>1 DEF ConsumerReturn, Return
  <2>2. CASE ret[c] = NULL
    BY <1>1, <1>4, <2>2 DEF ConsumerReturn, Return
  <2> QED
    BY <2>1, <2>2
<1>5. CASE GetFast(c) /\ InRing(c)
  BY <1>1, <1>2, <1>5 DEF GetFast
<1>6. CASE GetLock(c) /\ InRing(c)
  BY <1>1, <1>2, <1>6 DEF GetLock
<1>7. CASE GetCheck(c) /\ InRing(c)
  BY <1>1, <1>2, <1>7 DEF GetCheck
<1>8. CASE GetLoad(c) /\ InRing(c)
  BY <1>1, <1>2, <1>8 DEF GetLoad
<1>9. CASE GetRead(c) /\ InRing(c)
  BY <1>1, <1>2, <1>9 DEF GetRead, ItemAt
<1>10. CASE GetHead(c) /\ InRing(c)
  BY <1>1, <1>2, <1>10 DEF GetHead
<1>11. CASE GetCount(c) /\ InRing(c)
  <2>1. fifo # << >> /\ ret[c] = Head(fifo) /\ fifo \in Seq(Items)
    BY <1>1, <1>11, OldestTaken DEF GetCount, ItemAt, TestInv, IInv, TypeOK
  <2>2. Head(fifo) \in Items
    BY <2>1
  <2> QED
    BY <1>1, <1>11, <2>1, <2>2 DEF GetCount
<1>12. CASE GetUnlock(c) /\ InRing(c)
  BY <1>1, <1>2, <1>12 DEF GetUnlock
<1>13. ~PutStep(c)
  BY <1>1
  DEF PutStep, PutFast, PutLock, PutCheck, PutLoad, PutWrite, PutTail, PutCount, PutUnlock
<1> QED
  BY <1>3, <1>4, <1>5, <1>6, <1>7, <1>8, <1>9, <1>10, <1>11, <1>12, <1>13, Consumer(c)
  DEF Consumer, GetStep

-----------------------------------------------------------------------------
(* What consumers were handed, and what is in the queue. *)
LEMMA Handed ==
  ASSUME TestInv
  PROVE  /\ fifo \in Seq(Items)
         /\ \A c \in Consumers : Taken(c) \in Seq(Items)
         /\ \A p \in Producers : Sent(p) \in 0 .. Ops
<1>1. fifo \in Seq(Items)
  BY DEF TestInv, IInv, TypeOK
<1>2. \A c \in Consumers : Taken(c) \in Seq(Items)
  BY DEF TestInv, Consuming, Taken, Holds
<1>3. ASSUME NEW p \in Producers
      PROVE  Sent(p) \in 0 .. Ops
  <2>1. Producing(p)
    BY DEF TestInv
  <2>2. ret[p] = OK => made[p] < Ops
    BY <2>1 DEF Producing
  <2> QED
    BY <2>1, <2>2, Roles DEF Producing, Sent
<1> QED
  BY <1>1, <1>2, <1>3

(* Others' values and items are those of before. *)
LEMMA TakenKept ==
  ASSUME NEW c, pc'[c] = pc[c], ret'[c] = ret[c], read'[c] = read[c]
  PROVE  Taken(c)' = Taken(c)
BY DEF Taken, Holds

LEMMA SentKept ==
  ASSUME NEW p, ret'[p] = ret[p], made'[p] = made[p]
  PROVE  Sent(p)' = Sent(p)
BY DEF Sent

LEMMA ProducingKept ==
  ASSUME NEW p, Producing(p), pc'[p] = pc[p], ret'[p] = ret[p], arg'[p] = arg[p],
         made'[p] = made[p]
  PROVE  Producing(p)'
BY DEF Producing

LEMMA ConsumingKept ==
  ASSUME NEW c, Consuming(c), pc'[c] = pc[c], ret'[c] = ret[c]
  PROVE  Consuming(c)'
BY DEF Consuming

(* No step of a producer disturbs a consumer, or the other way round. *)
LEMMA ProducersOnly ==
  ASSUME TestInv, NEW p \in Producers, ProducerEffect(p)
  PROVE  /\ \A q \in Producers : Producing(q)'
         /\ \A c \in Consumers : Consuming(c)' /\ Taken(c)' = Taken(c)
         /\ \A q \in Producers \ {p} : Sent(q)' = Sent(q)
         /\ Sent(p) <= Sent(p)'
<1>1. ASSUME NEW q \in Producers \ {p}
      PROVE  Producing(q)' /\ Sent(q)' = Sent(q)
  <2>1. q \in Threads \ {p} /\ Producing(q)
    BY Roles DEF TestInv
  <2> QED
    BY <2>1, ProducingKept, SentKept DEF ProducerEffect, OthersKept
<1>2. ASSUME NEW c \in Consumers
      PROVE  Consuming(c)' /\ Taken(c)' = Taken(c)
  <2>1. c \in Threads \ {p} /\ Consuming(c)
    BY Roles DEF TestInv
  <2> QED
    BY <2>1, ConsumingKept, TakenKept DEF ProducerEffect, OthersKept
<1>3. Producing(p)' /\ Sent(p) <= Sent(p)'
  BY Handed DEF ProducerEffect, GoesOn, PutsNext
<1> QED
  BY <1>1, <1>2, <1>3

LEMMA ConsumersOnly ==
  ASSUME TestInv, NEW c \in Consumers, ConsumerEffect(c)
  PROVE  /\ \A p \in Producers : Producing(p)' /\ Sent(p)' = Sent(p)
         /\ \A d \in Consumers : Consuming(d)'
         /\ \A d \in Consumers \ {c} : Taken(d)' = Taken(d)
<1>1. ASSUME NEW p \in Producers
      PROVE  Producing(p)' /\ Sent(p)' = Sent(p)
  <2>1. p \in Threads \ {c} /\ Producing(p)
    BY Roles DEF TestInv
  <2> QED
    BY <2>1, ProducingKept, SentKept DEF ConsumerEffect, OthersKept
<1>2. ASSUME NEW d \in Consumers \ {c}
      PROVE  Consuming(d)' /\ Taken(d)' = Taken(d)
  <2>1. d \in Threads \ {c} /\ Consuming(d)
    BY Roles DEF TestInv
  <2> QED
    BY <2>1, ConsumingKept, TakenKept DEF ConsumerEffect, OthersKept
<1>3. Consuming(c)'
  BY DEF ConsumerEffect
<1> QED
  BY <1>1, <1>2, <1>3

(* The next value of p is nowhere yet. *)
LEMMA NextIsNew ==
  ASSUME TestInv, NEW p \in Producers, Sent(p) < Ops
  PROVE  Values[p][Sent(p) + 1] \notin SentItems
<1> SUFFICES ASSUME NEW q \in Producers, NEW i \in 1 .. Sent(q),
                    Values[p][Sent(p) + 1] = Values[q][i]
             PROVE  FALSE
  BY DEF SentItems
<1>1. Sent(p) \in 0 .. Ops /\ Sent(q) \in 0 .. Ops
  BY Handed
<1>2. Sent(p) + 1 \in 1 .. Ops /\ i \in 1 .. Ops
  BY <1>1, Roles
<1>3. p = q /\ Sent(p) + 1 = i
  BY <1>2, ValuesDiffer
<1> QED
  BY <1>1, <1>3

LEMMA SentItemsStay ==
  ASSUME TestInv, \A p \in Producers : Sent(p) <= Sent(p)' /\ Sent(p)' \in Nat
  PROVE  SentItems \subseteq SentItems'
<1> SUFFICES ASSUME NEW x \in Items, NEW p \in Producers, NEW i \in 1 .. Sent(p),
                    x = Values[p][i]
             PROVE  x \in SentItems'
  BY DEF SentItems
<1>1. Sent(p) \in 0 .. Ops /\ Ops \in Nat
  BY Handed, Roles
<1>2. i \in 1 .. Sent(p)'
  BY <1>1
<1> QED
  BY <1>2 DEF SentItems

-----------------------------------------------------------------------------
LEMMA PutKeeps ==
  ASSUME TestInv, NEW p \in Producers, ProducerEffect(p)
  PROVE  Apart' /\ Fresh'
<1>1. \A c \in Consumers : Taken(c)' = Taken(c)
  BY ProducersOnly
<1>2. Apart'
  BY <1>1 DEF Apart, TestInv
<1>3. fifo \in Seq(Items) /\ Sent(p) \in 0 .. Ops /\ Ops \in Nat
  BY Handed, Roles
<1>4. \A q \in Producers : Sent(q) <= Sent(q)' /\ Sent(q)' \in Nat
  BY <1>3, ProducersOnly, Handed DEF ProducerEffect, GoesOn, PutsNext
<1>5. SentItems \subseteq SentItems'
  BY <1>4, SentItemsStay
<1>6. /\ \A c \in Consumers : \A i \in 1 .. Len(Taken(c)) : Taken(c)[i] \in SentItems'
      /\ \A k \in 1 .. Len(fifo) : fifo[k] \in SentItems'
  BY <1>5 DEF TestInv, Fresh
<1>7. CASE GoesOn(p)
  <2>1. fifo' = fifo /\ Fresh
    BY <1>7 DEF GoesOn, TestInv
  <2>2. \A c \in Consumers : \A i \in 1 .. Len(Taken(c)') : Taken(c)'[i] \in SentItems'
    BY <1>1, <1>6
  <2>3. \A c \in Consumers : \A i \in 1 .. Len(Taken(c)'), k \in 1 .. Len(fifo) :
           Taken(c)'[i] # fifo[k]
    BY <1>1, <2>1 DEF Fresh
  <2> QED
    BY <1>2, <1>6, <2>1, <2>2, <2>3 DEF Fresh
<1>8. CASE PutsNext(p)
  <2> DEFINE v == Values[p][Sent(p) + 1]
  <2>1. /\ Len(fifo') = Len(fifo) + 1 /\ Len(fifo) \in Nat /\ fifo'[Len(fifo) + 1] = v
        /\ \A k \in 1 .. Len(fifo) : fifo'[k] = fifo[k]
    BY <1>3, <1>8 DEF PutsNext
  <2>2. v \notin SentItems
    BY <1>8, NextIsNew DEF PutsNext
  <2>3. v \in SentItems'
    <3>1. Sent(p)' = Sent(p) + 1
      BY <1>8 DEF PutsNext
    <3>2. Sent(p) + 1 \in 1 .. Sent(p)'
      BY <1>3, <3>1
    <3>3. v \in Items
      BY <1>3, <1>8, Roles DEF PutsNext
    <3> QED
      BY <3>2, <3>3 DEF SentItems
  <2> HIDE DEF v
  <2>4. \A k \in 1 .. Len(fifo') : k \in 1 .. Len(fifo) \/ k = Len(fifo) + 1
    BY <2>1
  <2>5. \A k, l \in 1 .. Len(fifo') : fifo'[k] = fifo'[l] => k = l
    <3>1. \A k \in 1 .. Len(fifo) : fifo[k] # v
      BY <2>2 DEF TestInv, Fresh
    <3> QED
      BY <2>1, <2>4, <3>1 DEF TestInv, Fresh
  <2>6. \A c \in Consumers : \A i \in 1 .. Len(Taken(c)), k \in 1 .. Len(fifo') :
           Taken(c)[i] # fifo'[k]
    <3>1. \A c \in Consumers : \A i \in 1 .. Len(Taken(c)) : Taken(c)[i] # v
      BY <2>2 DEF TestInv, Fresh
    <3> QED
      BY <2>1, <2>4, <3>1 DEF TestInv, Fresh
  <2>7. \A k \in 1 .. Len(fifo') : fifo'[k] \in SentItems'
    BY <1>6, <2>1, <2>3, <2>4
  <2>8. \A c \in Consumers : \A i \in 1 .. Len(Taken(c)') :
           /\ Taken(c)'[i] \in SentItems'
           /\ \A k \in 1 .. Len(fifo') : Taken(c)'[i] # fifo'[k]
    BY <1>1, <1>6, <2>6
  <2> QED
    BY <1>2, <2>5, <2>7, <2>8 DEF Fresh
<1> QED
  BY <1>2, <1>7, <1>8 DEF ProducerEffect

LEMMA GetKeeps ==
  ASSUME TestInv, NEW c \in Consumers, ConsumerEffect(c)
  PROVE  Apart' /\ Fresh'
<1>1. \A d \in Consumers \ {c} : Taken(d)' = Taken(d)
  BY ConsumersOnly
<1>2. SentItems' = SentItems
  BY ConsumersOnly DEF SentItems
<1>3. CASE KeepsTaken(c)
  <2>1. \A d \in Consumers : Taken(d)' = Taken(d)
    BY <1>1, <1>3 DEF KeepsTaken
  <2>2. fifo' = fifo /\ Apart /\ Fresh
    BY <1>3 DEF KeepsTaken, TestInv
  <2>3. Apart'
    BY <2>1, <2>2 DEF Apart
  <2> QED
    BY <1>2, <2>1, <2>2, <2>3 DEF Fresh
<1>4. CASE TakesOldest(c)
  <2> DEFINE n == Len(Taken(c))
             h == Head(fifo)
  <2>1. fifo \in Seq(Items) /\ fifo # << >> /\ Taken(c) \in Seq(Items) /\ n \in Nat
    BY <1>4, Handed DEF TakesOldest
  <2>2. /\ h = fifo[1] /\ 1 \in 1 .. Len(fifo) /\ Len(fifo') = Len(fifo) - 1
        /\ \A k \in 1 .. Len(fifo') : /\ fifo'[k] = fifo[k + 1] /\ k + 1 \in 1 .. Len(fifo)
                                      /\ k + 1 # 1
    BY <1>4, <2>1 DEF TakesOldest
  <2>3. /\ Len(Taken(c)') = n + 1 /\ Taken(c)'[n + 1] = h
        /\ \A i \in 1 .. n : Taken(c)'[i] = Taken(c)[i]
    BY <1>4, <2>1 DEF TakesOldest
  <2> HIDE DEF n, h
  <2>4. \A i \in 1 .. Len(Taken(c)') : i \in 1 .. n \/ i = n + 1
    BY <2>1, <2>3
  <2>5. \A d \in Consumers : \A i \in 1 .. Len(Taken(d)) : Taken(d)[i] # h
    BY <2>2 DEF TestInv, Fresh
  <2>6. \A k \in 1 .. Len(fifo') : fifo'[k] # h
    BY <2>2 DEF TestInv, Fresh
  <2>7. Apart'
    <3> SUFFICES ASSUME NEW d \in Consumers, NEW e \in Consumers,
                        NEW i \in 1 .. Len(Taken(d)'), NEW j \in 1 .. Len(Taken(e)'),
                        Taken(d)'[i] = Taken(e)'[j]
                 PROVE  d = e /\ i = j
      BY DEF Apart
    <3>1. CASE d # c /\ e # c
      BY <1>1, <3>1 DEF TestInv, Apart
    <3>2. CASE d = c /\ e # c
      <4>1. Taken(e)' = Taken(e) /\ j \in 1 .. Len(Taken(e))
        BY <1>1, <3>2
      <4>2. CASE i = n + 1
        BY <2>3, <2>5, <3>2, <4>1, <4>2
      <4>3. CASE i \in 1 .. n
        BY <2>3, <3>2, <4>1, <4>3 DEF TestInv, Apart, n
      <4> QED
        BY <2>4, <3>2, <4>2, <4>3
    <3>3. CASE d # c /\ e = c
      <4>1. Taken(d)' = Taken(d) /\ i \in 1 .. Len(Taken(d))
        BY <1>1, <3>3
      <4>2. CASE j = n + 1
        BY <2>3, <2>5, <3>3, <4>1, <4>2
      <4>3. CASE j \in 1 .. n
        BY <2>3, <3>3, <4>1, <4>3 DEF TestInv, Apart, n
      <4> QED
        BY <2>4, <3>3, <4>2, <4>3
    <3>4. CASE d = c /\ e = c
      <4>1. \A k \in 1 .. n : Taken(c)[k] # h
        BY <2>5 DEF n
      <4>2. \A k, l \in 1 .. n : Taken(c)[k] = Taken(c)[l] => k = l
        BY DEF TestInv, Apart, n
      <4> QED
        BY <2>3, <2>4, <3>4, <4>1, <4>2
    <3> QED
      BY <3>1, <3>2, <3>3, <3>4
  <2>8. \A k, l \in 1 .. Len(fifo') : fifo'[k] = fifo'[l] => k = l
    <3> SUFFICES ASSUME NEW k \in 1 .. Len(fifo'), NEW l \in 1 .. Len(fifo'),
                        fifo'[k] = fifo'[l]
                 PROVE  k = l
      OBVIOUS
    <3>1. k + 1 = l + 1
      BY <2>2 DEF TestInv, Fresh
    <3> QED
      BY <3>1
  <2>9. ASSUME NEW d \in Consumers, NEW i \in 1 .. Len(Taken(d)'), NEW k \in 1 .. Len(fifo')
        PROVE  Taken(d)'[i] # fifo'[k]
    <3>1. CASE d = c /\ i = n + 1
      BY <2>3, <2>6, <3>1
    <3>2. CASE ~(d = c /\ i = n + 1)
      <4>1. i \in 1 .. Len(Taken(d)) /\ Taken(d)'[i] = Taken(d)[i]
        BY <1>1, <2>3, <2>4, <3>2 DEF n
      <4> QED
        BY <2>2, <4>1 DEF TestInv, Fresh
    <3> QED
      BY <3>1, <3>2
  <2>10. \A k \in 1 .. Len(fifo') : fifo'[k] \in SentItems'
    BY <1>2, <2>2 DEF TestInv, Fresh
  <2>11. ASSUME NEW d \in Consumers, NEW i \in 1 .. Len(Taken(d)')
         PROVE  Taken(d)'[i] \in SentItems'
    <3>1. CASE d = c /\ i = n + 1
      BY <1>2, <2>2, <2>3, <3>1 DEF TestInv, Fresh
    <3>2. CASE ~(d = c /\ i = n + 1)
      <4>1. i \in 1 .. Len(Taken(d)) /\ Taken(d)'[i] = Taken(d)[i]
        BY <1>1, <2>3, <2>4, <3>2 DEF n
      <4> QED
        BY <1>2, <4>1 DEF TestInv, Fresh
    <3> QED
      BY <3>1, <3>2
  <2> QED
    BY <2>7, <2>8, <2>9, <2>10, <2>11 DEF Fresh
<1> QED
  BY <1>3, <1>4 DEF ConsumerEffect

-----------------------------------------------------------------------------
LEMMA TestInvInit == TestInit => TestInv
<1> SUFFICES ASSUME TestInit PROVE TestInv
  OBVIOUS
<1>1. IInv
  BY InitIInv DEF TestInit
<1>2. \A t \in Threads : pc[t] = "idle" /\ ret[t] = NULL
  BY DEF TestInit, Init
<1>3. made \in [Producers -> 0 .. Ops] /\ read \in [Consumers -> Seq(Items)]
  BY Roles DEF TestInit
<1>4. \A p \in Producers : Producing(p)
  BY <1>2, Roles DEF TestInit, Producing
<1>5. \A c \in Consumers : Consuming(c) /\ Taken(c) = << >>
  BY <1>2, Roles DEF TestInit, Consuming, Taken, Holds
<1>6. fifo = << >>
  BY DEF TestInit, Init
<1> QED
  BY <1>1, <1>3, <1>4, <1>5, <1>6 DEF TestInv, Apart, Fresh

LEMMA TestInvStep ==
  ASSUME TestInv, ~SlotAddress, [TestNext]_tvars
  PROVE  TestInv'
<1>1. IInv'
  BY RingSteps, NextIInv DEF TestInv
<1>2. ASSUME NEW p \in Producers, Producer(p)
      PROVE  TestInv'
  <2>1. ProducerEffect(p)
    BY <1>2, ProducerStep
  <2>2. Apart' /\ Fresh'
    BY <2>1, PutKeeps
  <2>3. /\ made' \in [Producers -> 0 .. Ops] /\ read' = read
        /\ \A q \in Producers : Producing(q)'
        /\ \A c \in Consumers : Consuming(c)'
    BY <2>1, ProducersOnly DEF ProducerEffect
  <2> QED
    BY <1>1, <2>2, <2>3 DEF TestInv
<1>3. ASSUME NEW c \in Consumers, Consumer(c)
      PROVE  TestInv'
  <2>1. ConsumerEffect(c)
    BY <1>3, ConsumerStep
  <2>2. Apart' /\ Fresh'
    BY <2>1, GetKeeps
  <2>3. /\ made' = made /\ read' \in [Consumers -> Seq(Items)]
        /\ \A q \in Producers : Producing(q)'
        /\ \A d \in Consumers : Consuming(d)'
    BY <2>1, ConsumersOnly DEF ConsumerEffect
  <2> QED
    BY <1>1, <2>2, <2>3 DEF TestInv
<1>4. CASE UNCHANGED tvars
  <2> USE <1>4 DEF tvars, vars, ring, locals, locks
  <2>1. \A p \in Producers : Producing(p)' /\ Sent(p)' = Sent(p)
    BY DEF TestInv, Producing, Sent
  <2>2. \A c \in Consumers : Consuming(c)' /\ Taken(c)' = Taken(c)
    BY DEF TestInv, Consuming, Taken, Holds
  <2>3. SentItems' = SentItems
    BY <2>1 DEF SentItems
  <2>4. Apart /\ Fresh
    BY DEF TestInv
  <2>5. Apart'
    BY <2>2, <2>4 DEF Apart
  <2>6. Fresh'
    BY <2>2, <2>3, <2>4 DEF Fresh
  <2> QED
    BY <1>1, <2>1, <2>2, <2>5, <2>6 DEF TestInv
<1> QED
  BY <1>2, <1>3, <1>4 DEF TestNext

(* In every state of the test the ring is in order, and an item that has been
   put is in the queue or with one consumer, once. *)
THEOREM TestInvariant ==
  ASSUME ~SlotAddress
  PROVE  TestSpec => []TestInv
<1>1. TestInv /\ [TestNext]_tvars => TestInv'
  BY TestInvStep
<1> QED
  BY <1>1, TestInvInit, PTL DEF TestSpec

LEMMA ReadIsTaken ==
  ASSUME TestInv, NEW c \in Consumers
  PROVE  /\ read[c] \in Seq(Items) /\ Len(read[c]) <= Len(Taken(c))
         /\ \A i \in 1 .. Len(read[c]) : /\ i \in 1 .. Len(Taken(c))
                                         /\ Taken(c)[i] = read[c][i]
<1>1. read[c] \in Seq(Items)
  BY DEF TestInv
<1>2. CASE Holds(c)
  <2>1. Taken(c) = Append(read[c], ret[c])
    BY <1>2 DEF Taken
  <2> QED
    BY <1>1, <2>1
<1>3. CASE ~Holds(c)
  <2>1. Taken(c) = read[c]
    BY <1>3 DEF Taken
  <2> QED
    BY <1>1, <2>1
<1> QED
  BY <1>2, <1>3

LEMMA ReadOnce ==
  ASSUME TestInv, NEW c \in Consumers, NEW d \in Consumers,
         NEW i \in 1 .. Len(read[c]), NEW j \in 1 .. Len(read[d]), read[c][i] = read[d][j]
  PROVE  c = d /\ i = j
<1>1. /\ i \in 1 .. Len(Taken(c)) /\ Taken(c)[i] = read[c][i]
      /\ j \in 1 .. Len(Taken(d)) /\ Taken(d)[j] = read[d][j]
  BY ReadIsTaken
<1> QED
  BY <1>1 DEF TestInv, Apart

(* However the threads interleave, no value is delivered twice: not to two
   consumers, nor to one. *)
THEOREM NoneTwice ==
  ASSUME ~SlotAddress
  PROVE  TestSpec => []NoValueTwice
<1>1. TestInv => NoValueTwice
  BY ReadOnce DEF NoValueTwice
<1> QED
  BY <1>1, TestInvariant, PTL

(* Consumers that have each read Ops values have read them all. *)
LEMMA AllAreRead ==
  ASSUME TestInv, \A c \in Consumers : Len(read[c]) >= Ops, NEW x \in Items
  PROVE  \E c \in Consumers : \E i \in 1 .. Ops : i \in 1 .. Len(read[c]) /\ read[c][i] = x
<1> DEFINE S == Consumers \X (1 .. Ops)
           f == [s \in S |-> read[s[1]][s[2]]]
<1>1. IsFiniteSet(1 .. Ops) /\ Cardinality(1 .. Ops) = Ops
  BY Roles, FS_Interval
<1>2. IsFiniteSet(S) /\ Cardinality(S) = Cardinality(Consumers) * Ops
  <2>1. IsFiniteSet(Consumers)
    BY TestAssumption
  <2> QED
    BY <1>1, <2>1, FS_Product
<1>3. Cardinality(Consumers) \in Nat
  BY TestAssumption, FS_CardinalityType
<1>4. Cardinality(S) = Cardinality(Items) /\ IsFiniteSet(Items)
  BY <1>2, <1>3, TestAssumption
<1>5. \A c \in Consumers : \A i \in 1 .. Ops : i \in 1 .. Len(read[c])
  BY Roles, ReadIsTaken
<1>6. \A c \in Consumers : \A i \in 1 .. Ops : read[c][i] \in Items
  BY <1>5, ReadIsTaken
<1>7. f \in [S -> Items]
  BY <1>6
<1>8. \A s, t \in S : f[s] = f[t] => s = t
  BY <1>5, ReadOnce
<1>9. f \in Injection(S, Items)
  BY <1>7, <1>8 DEF Injection, IsInjective
<1>10. f \in Surjection(S, Items)
  BY <1>4, <1>9, FS_Injection
<1>11. PICK s \in S : f[s] = x
  BY <1>10 DEF Surjection
<1> QED
  BY <1>5, <1>11

(* If all threads have ended, every value has been delivered, the ring is
   empty and the consumers have shared the values out evenly. *)
THEOREM TestEnds ==
  ASSUME ~SlotAddress
  PROVE  TestSpec => []EndsAllRead
<1>1. TestInv => EndsAllRead
  <2> SUFFICES ASSUME TestInv, AllJoined
               PROVE  /\ UNION {Range(read[c]) : c \in Consumers} = Items
                      /\ count = 0
                      /\ \A c \in Consumers : Len(read[c]) = Ops
    BY DEF EndsAllRead
  <2>1. \A c \in Consumers : read[c] \in Seq(Items) /\ Len(read[c]) \in Nat
    BY ReadIsTaken
  <2>2. \A c \in Consumers : Len(read[c]) >= Ops
    BY <2>1, Roles DEF AllJoined, ConsumerDone, KeepsConsuming
  <2>3. \A x \in Items : \E c \in Consumers : \E i \in 1 .. Ops :
           i \in 1 .. Len(read[c]) /\ read[c][i] = x
    BY <2>2, AllAreRead
  <2>4. \A c \in Consumers : Range(read[c]) = {read[c][i] : i \in 1 .. Len(read[c])}
    BY <2>1 DEF Range
  <2>5. UNION {Range(read[c]) : c \in Consumers} = Items
    <3>1. \A c \in Consumers : \A i \in 1 .. Len(read[c]) : read[c][i] \in Items
      BY <2>1
    <3>2. \A x \in Items : \E c \in Consumers : x \in Range(read[c])
      BY <2>3, <2>4
    <3>3. \A c \in Consumers : Range(read[c]) \subseteq Items
      BY <2>4, <3>1
    <3> QED
      BY <3>2, <3>3
  <2>6. count = 0
    <3>1. fifo \in Seq(Items) /\ count = Len(fifo) /\ Len(fifo) \in Nat
      BY DEF TestInv, IInv, TypeOK, RingHoldsQueue
    <3>2. ASSUME Len(fifo) # 0
          PROVE  FALSE
      <4>1. 1 \in 1 .. Len(fifo) /\ fifo[1] \in Items
        BY <3>1, <3>2
      <4>2. PICK c \in Consumers : \E i \in 1 .. Len(read[c]) : read[c][i] = fifo[1]
        BY <2>3, <4>1
      <4> QED
        BY <4>1, <4>2, ReadIsTaken DEF TestInv, Fresh
    <3> QED
      BY <3>1, <3>2
  <2>7. ASSUME NEW c \in Consumers, Len(read[c]) # Ops
        PROVE  FALSE
    <3>1. Ops + 1 \in 1 .. Len(read[c]) /\ Ops + 1 \notin 1 .. Ops
      BY <2>1, <2>2, <2>7, Roles
    <3>2. read[c][Ops + 1] \in Items
      BY <2>1, <3>1
    <3>3. PICK d \in Consumers : \E i \in 1 .. Ops :
                  i \in 1 .. Len(read[d]) /\ read[d][i] = read[c][Ops + 1]
      BY <2>3, <3>2
    <3> QED
      BY <3>1, <3>3, ReadOnce
  <2> QED
    BY <2>5, <2>6, <2>7
<1> QED
  BY <1>1, TestInvariant, PTL

=============================================================================
