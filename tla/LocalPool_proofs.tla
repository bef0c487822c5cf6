-------------------------- MODULE LocalPool_proofs --------------------------
(***************************************************************************)
(* Theorems about LocalPool, for all three kinds of pool, all sizes of the *)
(* memory and of the blocks, and any number of blocks.                     *)
(*                                                                         *)
(* First the arithmetic of memory_pool_init: a size that it accepts leaves *)
(* room for the pool's own bytes and for all blocks (Laid), also where its *)
(* differences are taken in 32 bits and wrap.  Then the invariant: used    *)
(* and listed blocks part the pool (Parted), the ring holds each listed    *)
(* address once (RingLists, OneEach), the status bytes say which blocks    *)
(* are listed (BytesList).  From it every call maps to one of Allocator.   *)
(***************************************************************************)
EXTENDS LocalPool, TLAPS, FiniteSetTheorems

(* Division of natural numbers. *)
LEMMA Division ==
  ASSUME NEW a \in Nat, NEW b \in Nat \ {0}
  PROVE  /\ a \div b \in Nat
         /\ (a \div b) * b <= a /\ a < (a \div b) * b + b
BY SMT

LEMMA Quotient ==
  ASSUME NEW a \in Nat, NEW b \in Nat \ {0}, NEW q \in Nat, NEW r \in 0 .. b - 1, a = q * b + r
  PROVE  a \div b = q /\ a % b = r
BY SMT

LEMMA Order ==
  ASSUME NEW m \in Nat, NEW n \in Nat, NEW k \in Nat, m <= n
  PROVE  m * k \in Nat /\ n * k \in Nat /\ m * k <= n * k
BY SMT

LEMMA OrderStrict ==
  ASSUME NEW m \in Nat, NEW n \in Nat, NEW k \in Nat, m < n
  PROVE  m * k + k <= n * k
<1>1. (m + 1) * k <= n * k /\ (m + 1) * k = m * k + k
  BY Order, SMT
<1> QED
  BY <1>1

(* More in the dividend is not less in the quotient. *)
LEMMA QuotientGrows ==
  ASSUME NEW a \in Nat, NEW c \in Nat, NEW b \in Nat \ {0}, a <= c
  PROVE  a \div b <= c \div b
<1> DEFINE m == a \div b
           n == c \div b
<1>1. /\ m \in Nat /\ n \in Nat /\ m * b <= a /\ c < n * b + b
  BY Division
<1> HIDE DEF m, n
<1>2. CASE n < m
  <2>1. n * b + b <= m * b /\ n * b \in Nat /\ m * b \in Nat
    BY <1>1, <1>2, OrderStrict, Order
  <2> QED
    BY <1>1, <2>1
<1> QED
  BY <1>1, <1>2 DEF m, n

(* The constants, without a product. *)
LEMMA Given ==
  /\ PointerSize \in Nat \ {0, 1} /\ RingSize \in Nat \ {0} /\ Word \in Nat \ {0}
  /\ 2 * RingSize <= Word
<1>1. RingSize * RingSize >= RingSize
  BY LayoutAssumption, SMT
<1> QED
  BY <1>1, LayoutAssumption, SMT

LEMMA Wraps ==
  ASSUME NEW a \in Nat
  PROVE  /\ a < Word => a % Word = a
         /\ Word <= a /\ a < 2 * Word => a % Word = a - Word
BY Given, SMT

-----------------------------------------------------------------------------
(* What memory_pool_init has computed fits: the number of blocks n, the space
   a block takes w, and the first block's place p. *)
Laid(s, p, own, w, n) == /\ n \in Nat \ {0} /\ w \in Nat \ {0} /\ p \in Nat
                         /\ own <= p /\ p + n * w <= s

LEMMA FlexLaid ==
  ASSUME NEW s \in Nat, NEW b \in Nat, FlexFits(s, b)
  PROVE  LET n == FlexBlocks(s, b) IN
         b >= PointerSize /\ Laid(s, FlexStart(s, b), RingSize + n * PointerSize, b, n)
<1> DEFINE q == s \div b
           p == FlexStart(s, b)
           n == (s - p) \div b
<1>1. b \in Nat \ {0} /\ b >= PointerSize /\ s > p + b
  BY Given DEF FlexFits, Reasonable
<1>2. q \in Nat
  BY <1>1, Division
<1>3. p = RingSize + q * PointerSize /\ q * PointerSize \in Nat /\ p \in Nat
  BY <1>2, Given, Order DEF FlexStart, RingBytes
<1> HIDE DEF p
<1>4. s - p \in Nat /\ s - p <= s
  BY <1>1, <1>3
<1>5. n \in Nat /\ n * b <= s - p /\ s - p < n * b + b
  BY <1>1, <1>4, Division
<1>6. n <= q
  BY <1>1, <1>4, QuotientGrows
<1> HIDE DEF q, n
<1>7. n * PointerSize <= q * PointerSize /\ n * PointerSize \in Nat /\ n * b \in Nat
  BY <1>1, <1>2, <1>5, <1>6, Given, Order
<1>8. n # 0
  BY <1>1, <1>3, <1>5, SMT
<1> QED
  BY <1>1, <1>3, <1>4, <1>5, <1>7, <1>8, Given DEF Laid, FlexBlocks, n, p

LEMMA StatusLaid ==
  ASSUME NEW s \in Nat, NEW b \in Nat, b < Word, StatusFits(s, b)
  PROVE  b # 0 /\ StatusStride(b) = b + 1 /\ Laid(s, 0, 0, StatusStride(b), StatusBlocks(s, b))
<1>1. StatusStride(b) = b + 1
  <2>1. b + 1 < Word => (b + 1) % Word = b + 1
    BY Wraps
  <2>2. b + 1 >= Word => (b + 1) % Word = 0
    <3>1. b + 1 >= Word => b + 1 = Word /\ b + 1 < 2 * Word
      BY Given
    <3> QED
      BY <3>1, Wraps, Given
  <2>3. (b + 1) % Word # 0
    BY DEF StatusFits, StatusStride, Add32
  <2> QED
    BY <2>1, <2>2, <2>3, Given DEF StatusStride, Add32
<1> DEFINE n == s \div (b + 1)
<1>2. b >= 1 /\ n # 0
  BY <1>1 DEF StatusFits, Reasonable, StatusBlocks
<1>3. n \in Nat /\ n * (b + 1) <= s
  BY Division
<1> QED
  BY <1>1, <1>2, <1>3 DEF Laid, StatusBlocks

(* The memory holds the structure: no difference wraps. *)
LEMMA ArrayLaid ==
  ASSUME NEW s \in Nat, NEW b \in Nat, s < Word, RingSize <= s,
         ArrayFits(s, b), ArrayBlocks(s, b) # 0
  PROVE  LET n == ArrayBlocks(s, b) IN
         b >= PointerSize /\ Laid(s, ArrayStart(s, b), RingSize + n * PointerSize, b, n)
<1> DEFINE d == s - RingSize
           q == d \div b
           x == q * PointerSize
           o == RingSize + x
           n == (s - o) \div b
           y == n * PointerSize
<1>1. b \in Nat \ {0} /\ b >= PointerSize /\ b <= s
  BY Given DEF ArrayFits, Reasonable
<1>2. d \in Nat /\ d = s - RingSize /\ Sub32(s, RingSize) = d
  <2>1. s + Word - RingSize \in Nat /\ (s + Word - RingSize) - Word = d
        /\ Word <= s + Word - RingSize /\ s + Word - RingSize < 2 * Word /\ d \in Nat
    BY Given
  <2> QED
    BY <2>1, Wraps DEF Sub32
<1> HIDE DEF d
<1>3. Potential(s, b) = q /\ q \in Nat /\ q * b <= d
  BY <1>1, <1>2, Division DEF Potential
<1> HIDE DEF q
<1>4. x <= d /\ x \in Nat
  <2>1. PointerSize * q <= b * q
    BY <1>1, <1>3, Order, Given
  <2>2. PointerSize * q = x /\ b * q = q * b /\ x \in Nat /\ q * b \in Nat
    BY <1>1, <1>3, Order, Given, SMT
  <2> QED
    BY <1>2, <1>3, <2>1, <2>2
<1>5. o \in Nat /\ o <= s /\ Overhead(s, b) = o
  <2>1. RingSize + x \in Nat /\ RingSize + x <= s /\ RingSize + x < Word
    <3> HIDE DEF x
    <3> QED
      BY <1>2, <1>4, Given
  <2>2. (RingSize + x) % Word = RingSize + x
    BY <2>1, Wraps
  <2> QED
    BY <1>3, <2>1, <2>2 DEF Overhead, Add32
<1> HIDE DEF o
<1>6. s - o \in Nat /\ Sub32(s, o) = s - o
  <2>1. s + Word - o \in Nat /\ (s + Word - o) - Word = s - o /\ s - o \in Nat
        /\ Word <= s + Word - o /\ s + Word - o < 2 * Word
    BY <1>5, Given
  <2> QED
    BY <2>1, Wraps DEF Sub32
<1>7. ArrayBlocks(s, b) = n /\ n # 0
  BY <1>5, <1>6 DEF ArrayBlocks
<1>8. n \in Nat /\ n * b <= s - o
  BY <1>1, <1>6, Division
<1>9. n <= q
  <2>1. s - o <= d
    <3> HIDE DEF x
    <3> QED
      BY <1>2, <1>4, <1>5, Given DEF o
  <2> QED
    BY <1>1, <1>2, <1>6, <2>1, QuotientGrows DEF q
<1>10. ArrayStart(s, b) = RingSize + y
  BY <1>7 DEF ArrayStart
<1> HIDE DEF n
<1>11. y <= x /\ y \in Nat /\ n * b \in Nat
  BY <1>1, <1>3, <1>8, <1>9, Given, Order
<1>12. RingSize + y \in Nat /\ (RingSize + y) + n * b <= s
  <2> DEFINE z == n * b
  <2>1. z \in Nat /\ z <= s - o /\ o = RingSize + x
    BY <1>8, <1>11 DEF o
  <2> HIDE DEF x, y, z
  <2>2. RingSize + y \in Nat /\ (RingSize + y) + z <= s
    BY <1>4, <1>5, <1>11, <2>1, Given
  <2> QED
    BY <2>2 DEF z
<1>13. Laid(s, RingSize + y, RingSize + y, b, n)
  BY <1>1, <1>7, <1>8, <1>12 DEF Laid
<1> QED
  BY <1>1, <1>7, <1>10, <1>13

(* Less memory than the structure takes is refused, although the differences
   wrap: what they wrap to is too large. *)
LEMMA ArrayWraps ==
  ASSUME NEW s \in Nat, NEW b \in Nat, s < RingSize
  PROVE  ~ArrayFits(s, b)
<1> SUFFICES ASSUME ArrayFits(s, b) PROVE FALSE
  OBVIOUS
<1> DEFINE d == s + Word - RingSize
           q == d \div b
           x == q * PointerSize
<1>1. /\ b \in Nat \ {0} /\ b >= PointerSize /\ b <= s
      /\ s > Add32(Overhead(s, b), b)
  BY Given DEF ArrayFits, Reasonable
<1>2. d \in Nat /\ d = s + Word - RingSize /\ d < Word /\ Sub32(s, RingSize) = d
  <2>1. d \in Nat /\ d < Word
    BY Given
  <2> QED
    BY <2>1, Wraps DEF Sub32
<1> HIDE DEF d
<1>3. Potential(s, b) = q /\ q \in Nat /\ q * b <= d /\ d < q * b + b
  BY <1>1, <1>2, Division DEF Potential
<1> HIDE DEF q
<1>4. x \in Nat /\ Overhead(s, b) = (RingSize + x) % Word
  BY <1>3, Given, Order DEF Overhead, Add32
<1>5. ASSUME NEW o \in Nat, Overhead(s, b) = o, s < o + b, o + b < Word PROVE FALSE
  <2>1. (o + b) % Word = o + b
    BY <1>1, <1>5, Wraps
  <2> QED
    BY <1>1, <1>5, <2>1 DEF Add32
<1>6. CASE b = PointerSize
  <2>1. x <= d /\ d < x + b
    BY <1>3, <1>6
  <2> HIDE DEF x
  <2>2. /\ Word <= RingSize + x /\ RingSize + x < 2 * Word
        /\ RingSize + x - Word \in Nat /\ RingSize + x - Word <= s
        /\ s < (RingSize + x - Word) + b /\ (RingSize + x - Word) + b < Word
    BY <1>1, <1>2, <1>4, <2>1, Given
  <2>3. (RingSize + x) % Word = RingSize + x - Word
    BY <1>4, <2>2, Wraps, Given
  <2> QED
    BY <1>4, <1>5, <2>2, <2>3
<1>7. CASE b > PointerSize
  <2>1. x + q <= d
    <3>1. (PointerSize + 1) * q <= b * q
      BY <1>1, <1>3, <1>7, Order, Given
    <3>2. (PointerSize + 1) * q = x + q /\ b * q = q * b /\ q * b \in Nat
      BY <1>1, <1>3, Given, Order, SMT
    <3> QED
      BY <1>2, <1>3, <1>4, <3>1, <3>2
  <2>2. q >= 2 * RingSize
    <3>1. CASE q < 2 * RingSize
      <4>1. q * b + b <= (2 * RingSize) * b /\ q * b \in Nat
        BY <1>1, <1>3, <3>1, Given, OrderStrict, Order
      <4>2. b * (2 * RingSize) + 2 * RingSize <= RingSize * (2 * RingSize)
        BY <1>1, Given, OrderStrict
      <4>3. /\ b * (2 * RingSize) = (2 * RingSize) * b
            /\ RingSize * (2 * RingSize) = 2 * RingSize * RingSize
        BY <1>1, Given, SMT
      <4> DEFINE u == (2 * RingSize) * b
      <4>4. u \in Nat /\ d < u /\ u + 2 * RingSize <= Word
        BY <1>1, <1>2, <1>3, <4>1, <4>2, <4>3, Given, Order, LayoutAssumption
      <4> HIDE DEF u
      <4> QED
        BY <1>2, <4>4, Given
    <3> QED
      BY <1>3, <3>1, Given
  <2> HIDE DEF x
  <2>3. /\ RingSize + x \in Nat /\ s < (RingSize + x) + b
        /\ (RingSize + x) + b < Word /\ RingSize + x < Word
    BY <1>1, <1>2, <1>3, <1>4, <2>1, <2>2, Given
  <2>4. (RingSize + x) % Word = RingSize + x
    BY <2>3, Wraps
  <2> QED
    BY <1>4, <1>5, <2>3, <2>4
<1> QED
  BY <1>1, <1>6, <1>7, Given

-----------------------------------------------------------------------------
(* A pool that memory_pool_init has accepted. *)
Accepted == /\ kind \in {"flexible", "array", "status"}
            /\ size \in 0 .. Word - 1 /\ block \in 0 .. Word - 1
            /\ Fits(kind, size, block)

LEMMA Pool ==
  ASSUME Accepted
  PROVE  /\ num \in Nat \ {0} /\ pool_start \in Nat /\ size \in Nat
         /\ block \in Nat \ {0} /\ stride \in Nat \ {0, 1}
         /\ Header \in {0, 1} /\ Header + block = stride
         /\ pool_start + num * stride <= size
         /\ kind = "status" => Header = 1
         /\ kind # "status" => /\ Header = 0
                               /\ RingSize + num * PointerSize <= pool_start
<1>1. size \in Nat /\ block \in Nat /\ size < Word
  BY Given DEF Accepted
<1>2. CASE kind = "flexible"
  <2>1. FlexFits(size, block)
    BY <1>2 DEF Accepted, Fits
  <2>2. num = FlexBlocks(size, block) /\ pool_start = FlexStart(size, block)
        /\ stride = block /\ Header = 0
    BY <1>2 DEF num, NumBlocks, pool_start, stride, Header
  <2> QED
    BY <1>1, <1>2, <2>1, <2>2, FlexLaid, Given DEF Laid
<1>3. CASE kind = "array"
  <2>1. ArrayFits(size, block) /\ ArrayBlocks(size, block) # 0
    BY <1>3 DEF Accepted, Fits
  <2>2. RingSize <= size
    BY <1>1, <2>1, ArrayWraps, Given
  <2>3. num = ArrayBlocks(size, block) /\ pool_start = ArrayStart(size, block)
        /\ stride = block /\ Header = 0
    BY <1>3 DEF num, NumBlocks, pool_start, stride, Header
  <2> QED
    BY <1>1, <1>3, <2>1, <2>2, <2>3, ArrayLaid, Given DEF Laid
<1>4. CASE kind = "status"
  <2>1. StatusFits(size, block)
    BY <1>4 DEF Accepted, Fits
  <2>2. num = StatusBlocks(size, block) /\ pool_start = 0
        /\ stride = StatusStride(block) /\ Header = 1
    BY <1>4 DEF num, NumBlocks, pool_start, stride, Header
  <2>3. block < Word
    BY Given DEF Accepted
  <2> QED
    BY <1>1, <1>4, <2>1, <2>2, <2>3, StatusLaid DEF Laid
<1> QED
  BY <1>2, <1>3, <1>4 DEF Accepted

(* Where the blocks are: one stride after the other, up to the end. *)
LEMMA Within ==
  ASSUME Accepted, NEW i \in Indices
  PROVE  /\ Address(i) \in Nat /\ i \in Nat /\ i * stride \in Nat
         /\ pool_start + Header <= Address(i)
         /\ Address(i) + block <= size
         /\ Address(i) + block <= pool_start + num * stride
<1>1. i \in Nat /\ i < num
  BY Pool DEF Indices
<1>2. i * stride + stride <= num * stride /\ i * stride \in Nat /\ num * stride \in Nat
  BY <1>1, Pool, OrderStrict, Order
<1> DEFINE x == i * stride
           y == num * stride
<1>3. x \in Nat /\ y \in Nat /\ x + stride <= y /\ pool_start + y <= size
      /\ Address(i) = pool_start + x + Header
  BY <1>2, Pool DEF Address
<1> HIDE DEF x, y
<1>4. /\ Address(i) \in Nat /\ pool_start + Header <= Address(i)
      /\ Address(i) + block <= size /\ Address(i) + block <= pool_start + y
  BY <1>3, Pool
<1> QED
  BY <1>1, <1>2, <1>4 DEF y

LEMMA Apart ==
  ASSUME Accepted, NEW i \in Indices, NEW j \in Indices, i < j
  PROVE  Address(i) + stride <= Address(j)
<1>1. i * stride + stride <= j * stride /\ i * stride \in Nat /\ j * stride \in Nat
  BY Within, Pool, OrderStrict
<1> QED
  BY <1>1, Pool DEF Address

(* No two blocks have the same address. *)
LEMMA Distinct ==
  ASSUME Accepted, NEW i \in Indices, NEW j \in Indices, Address(i) = Address(j)
  PROVE  i = j
<1>1. i \in Nat /\ j \in Nat /\ Address(i) \in Nat /\ stride \in Nat \ {0}
  BY Within, Pool
<1>2. ~(i < j) /\ ~(j < i)
  BY <1>1, Apart
<1> QED
  BY <1>1, <1>2

LEMMA OwnRing ==
  ASSUME kind # "status", num * PointerSize \in Nat
  PROVE  OwnBytes = 0 .. (RingSize + num * PointerSize) - 1
<1>1. RingSize + num * PointerSize - 1 = (RingSize + num * PointerSize) - 1
  BY Given, SMT
<1>2. OwnBytes = 0 .. RingSize + num * PointerSize - 1
  BY Zenon DEF OwnBytes
<1> QED
  BY <1>1, <1>2, Zenon

(* Every accepted size gives a sound layout. *)
LEMMA AcceptedSound ==
  ASSUME Accepted
  PROVE  LayoutSound
<1>1. ASSUME NEW i \in Indices
      PROVE  /\ Bytes(i) \subseteq 0 .. size - 1
             /\ Bytes(i) \cap OwnBytes = {}
  <2>1. /\ Address(i) \in Nat /\ size \in Nat /\ block \in Nat \ {0}
        /\ pool_start \in Nat /\ pool_start + Header <= Address(i) /\ Address(i) + block <= size
    BY Within, Pool
  <2>2. Bytes(i) \subseteq 0 .. size - 1
    BY <2>1 DEF Bytes
  <2>3. CASE kind = "status"
    <3>1. ASSUME NEW j \in Indices PROVE Address(j) - 1 \notin Bytes(i)
      <4>1. /\ Address(j) \in Nat /\ i \in Nat /\ j \in Nat
            /\ i < j => Address(i) + stride <= Address(j)
            /\ j < i => Address(j) + stride <= Address(i)
            /\ stride = block + 1
        BY <2>3, Within, Apart, Pool
      <4>2. CASE i = j
        BY <2>1, <4>1, <4>2 DEF Bytes
      <4>3. CASE i < j
        BY <2>1, <4>1, <4>3 DEF Bytes
      <4>4. CASE j < i
        BY <2>1, <4>1, <4>4 DEF Bytes
      <4> QED
        BY <4>1, <4>2, <4>3, <4>4
    <3> QED
      BY <2>2, <2>3, <3>1 DEF OwnBytes
  <2>4. CASE kind # "status"
    <3> DEFINE own == RingSize + num * PointerSize
    <3>1. own \in Nat /\ own <= Address(i)
      <4>1. num * PointerSize \in Nat
        BY Pool, Given, Order
      <4> QED
        BY <4>1, <2>1, <2>4, Pool, Given
    <3>2. OwnBytes = 0 .. own - 1
      <4>1. num * PointerSize \in Nat
        BY Pool, Given, Order
      <4> QED
        BY <4>1, OwnRing, <2>4, Zenon
    <3> HIDE DEF own
    <3> QED
      BY <2>1, <2>2, <3>1, <3>2 DEF Bytes
  <2> QED
    BY <2>3, <2>4
<1>2. OwnBytes \subseteq 0 .. size - 1
  <2>1. CASE kind = "status"
    <3>1. ASSUME NEW i \in Indices PROVE Address(i) - 1 \in 0 .. size - 1
      BY <2>1, Within, Pool
    <3> QED
      BY <2>1, <3>1 DEF OwnBytes
  <2>2. CASE kind # "status"
    <3> DEFINE own == RingSize + num * PointerSize
               all == num * stride
    <3>1. own \in Nat /\ own <= size
      <4>1. num * PointerSize \in Nat /\ all \in Nat /\ pool_start + all <= size
            /\ own <= pool_start
        BY <2>2, Pool, Given, Order
      <4>2. own \in Nat
        BY <4>1, Given
      <4> HIDE DEF own, all
      <4> QED
        BY <4>1, <4>2, Pool
    <3>2. OwnBytes = 0 .. own - 1
      <4>1. num * PointerSize \in Nat
        BY Pool, Given, Order
      <4> QED
        BY <4>1, OwnRing, <2>2, Zenon
    <3> HIDE DEF own
    <3> QED
      BY <3>1, <3>2, Pool
  <2> QED
    BY <2>1, <2>2
<1>3. ASSUME NEW i \in Indices, NEW j \in Indices, i # j
      PROVE  Bytes(i) \cap Bytes(j) = {}
  <2>1. /\ Address(i) \in Nat /\ Address(j) \in Nat /\ i \in Nat /\ j \in Nat
        /\ block \in Nat /\ block <= stride /\ stride \in Nat
        /\ i < j => Address(i) + stride <= Address(j)
        /\ j < i => Address(j) + stride <= Address(i)
    BY Within, Apart, Pool
  <2>2. CASE i < j
    BY <2>1, <2>2 DEF Bytes
  <2>3. CASE j < i
    BY <2>1, <2>3 DEF Bytes
  <2> QED
    BY <1>3, <2>1, <2>2, <2>3
<1>4. num # 0
  BY Pool
<1> QED
  BY <1>1, <1>2, <1>3, <1>4 DEF LayoutSound

-----------------------------------------------------------------------------
(* The c places of a ring of n slots, from h on, and what they hold. *)
Place(n, h, k) == IF h + k < n THEN h + k ELSE h + k - n
Around(n, s, h, c) == {s[(h + k) % n] : k \in 0 .. c - 1}
OneEach(n, s, h, c) == \A j, k \in 0 .. c - 1 : s[(h + j) % n] = s[(h + k) % n] => j = k

LEMMA Places ==
  ASSUME NEW n \in Nat \ {0}, NEW h \in 0 .. n - 1, NEW k \in 0 .. n
  PROVE  (h + k) % n = Place(n, h, k) /\ Place(n, h, k) \in 0 .. n - 1
<1>1. CASE h + k < n
  BY <1>1, SMT DEF Place
<1>2. CASE ~(h + k < n)
  <2>1. (h + k) % n = h + k - n
    BY <1>2, SMT
  <2> QED
    BY <1>2, <2>1 DEF Place
<1> QED
  BY <1>1, <1>2

(* Taking from the front. *)
LEMMA AroundGet ==
  ASSUME NEW n \in Nat \ {0}, NEW s, NEW h \in 0 .. n - 1, NEW c \in 1 .. n, OneEach(n, s, h, c)
  PROVE  LET h2 == (h + 1) % n IN
         /\ h2 \in 0 .. n - 1 /\ (h2 + (c - 1)) % n = (h + c) % n
         /\ Around(n, s, h2, c - 1) = Around(n, s, h, c) \ {s[h]}
         /\ OneEach(n, s, h2, c - 1) /\ s[h] \in Around(n, s, h, c)
<1> DEFINE h2 == (h + 1) % n
<1>1. h2 = Place(n, h, 1) /\ h2 \in 0 .. n - 1
  <2>1. 1 \in 0 .. n
    OBVIOUS
  <2> QED
    BY <2>1, Places, Zenon
<1>2. ASSUME NEW k \in 0 .. c - 1
      PROVE  (h2 + k) % n = (h + (k + 1)) % n
  <2>1. (h2 + k) % n = Place(n, h2, k) /\ (h + (k + 1)) % n = Place(n, h, k + 1)
    <3> HIDE DEF h2
    <3>1. k \in 0 .. n /\ k + 1 \in 0 .. n
      OBVIOUS
    <3> QED
      BY <1>1, <3>1, Places, Zenon
  <2>2. Place(n, Place(n, h, 1), k) = Place(n, h, k + 1)
    BY DEF Place
  <2> QED
    BY <1>1, <2>1, <2>2
<1>3. (h + 0) % n = h
  <2>1. 0 \in 0 .. n /\ Place(n, h, 0) = h
    BY DEF Place
  <2> QED
    BY <2>1, Places, Zenon
<1> HIDE DEF h2
<1>4. (h2 + (c - 1)) % n = (h + c) % n
  <2>1. c - 1 \in 0 .. c - 1 /\ (c - 1) + 1 = c
    OBVIOUS
  <2> QED
    BY <1>2, <2>1
<1>5. OneEach(n, s, h2, c - 1)
  <2> SUFFICES ASSUME NEW j \in 0 .. (c - 1) - 1, NEW k \in 0 .. (c - 1) - 1,
                      s[(h2 + j) % n] = s[(h2 + k) % n]
               PROVE  j = k
    BY DEF OneEach
  <2>1. s[(h + (j + 1)) % n] = s[(h + (k + 1)) % n]
    BY <1>2
  <2>2. j + 1 \in 0 .. c - 1 /\ k + 1 \in 0 .. c - 1
    OBVIOUS
  <2>3. j + 1 = k + 1
    BY <2>1, <2>2 DEF OneEach
  <2> QED
    BY <2>3
<1>6. s[h] \in Around(n, s, h, c)
  <2>1. 0 \in 0 .. c - 1
    OBVIOUS
  <2> QED
    BY <1>3, <2>1 DEF Around
<1>7. ASSUME NEW x \in Around(n, s, h2, c - 1) PROVE x \in Around(n, s, h, c) \ {s[h]}
  <2>1. PICK k \in 0 .. (c - 1) - 1 : x = s[(h2 + k) % n]
    BY <1>7 DEF Around
  <2>2. x = s[(h + (k + 1)) % n] /\ k + 1 \in 0 .. c - 1 /\ k + 1 # 0 /\ 0 \in 0 .. c - 1
    BY <1>2, <2>1
  <2>3. x # s[h]
    BY <1>3, <2>2 DEF OneEach
  <2> QED
    BY <2>2, <2>3 DEF Around
<1>8. ASSUME NEW x \in Around(n, s, h, c), x # s[h] PROVE x \in Around(n, s, h2, c - 1)
  <2>1. PICK k \in 0 .. c - 1 : x = s[(h + k) % n]
    BY <1>8 DEF Around
  <2>2. k # 0
    BY <1>3, <1>8, <2>1
  <2>3. k - 1 \in 0 .. (c - 1) - 1 /\ k - 1 \in 0 .. c - 1 /\ (k - 1) + 1 = k
    BY <2>2
  <2>4. x = s[(h2 + (k - 1)) % n]
    BY <1>2, <2>1, <2>3
  <2> QED
    BY <2>3, <2>4 DEF Around
<1> QED
  BY <1>1, <1>4, <1>5, <1>6, <1>7, <1>8 DEF h2

(* Putting at the back: x goes to place t, which makes s2 of s. *)
PutAt(n, B, s, h, c, x, t, s2) ==
  /\ n \in Nat \ {0} /\ h \in 0 .. n - 1 /\ c \in 0 .. n - 1 /\ t = (h + c) % n
  /\ s \in [0 .. n - 1 -> B] /\ OneEach(n, s, h, c)
  /\ x \in B /\ x \notin Around(n, s, h, c)
  /\ s2 \in [0 .. n - 1 -> B] /\ s2[t] = x
  /\ \A i \in 0 .. n - 1 : i # t => s2[i] = s[i]

LEMMA AroundPut ==
  ASSUME NEW n, NEW B, NEW s, NEW h, NEW c, NEW x, NEW t, NEW s2,
         PutAt(n, B, s, h, c, x, t, s2)
  PROVE  /\ (t + 1) % n = (h + (c + 1)) % n /\ (t + 1) % n \in 0 .. n - 1
         /\ Around(n, s2, h, c + 1) = Around(n, s, h, c) \cup {x}
         /\ OneEach(n, s2, h, c + 1)
<1> USE DEF PutAt
<1>1. t = Place(n, h, c) /\ t \in 0 .. n - 1
  <2>1. n \in Nat \ {0} /\ h \in 0 .. n - 1 /\ c \in 0 .. n /\ t = (h + c) % n
    OBVIOUS
  <2> HIDE DEF PutAt
  <2> QED
    BY <2>1, Places, Zenon
<1>2. (t + 1) % n = (h + (c + 1)) % n /\ (t + 1) % n \in 0 .. n - 1
  <2>1. (t + 1) % n = Place(n, t, 1) /\ Place(n, t, 1) \in 0 .. n - 1
    <3>1. n \in Nat \ {0} /\ 1 \in 0 .. n
      OBVIOUS
    <3> HIDE DEF PutAt
    <3> QED
      BY <1>1, <3>1, Places, Zenon
  <2>2. (h + (c + 1)) % n = Place(n, h, c + 1)
    BY Places
  <2>3. Place(n, Place(n, h, c), 1) = Place(n, h, c + 1)
    BY DEF Place
  <2> QED
    BY <1>1, <2>1, <2>2, <2>3
<1>3. ASSUME NEW k \in 0 .. c - 1
      PROVE  (h + k) % n \in 0 .. n - 1 /\ (h + k) % n # t
  <2>1. (h + k) % n = Place(n, h, k) /\ Place(n, h, k) \in 0 .. n - 1
    <3>1. n \in Nat \ {0} /\ h \in 0 .. n - 1 /\ k \in 0 .. n
      OBVIOUS
    <3> HIDE DEF PutAt
    <3> QED
      BY <3>1, Places, Zenon
  <2>2. Place(n, h, k) # Place(n, h, c)
    BY DEF Place
  <2> QED
    BY <1>1, <2>1, <2>2
<1>4. (h + c) % n = t
  OBVIOUS
<1>5. s2[t] = x /\ \A i \in 0 .. n - 1 : i # t => s2[i] = s[i]
  OBVIOUS
<1>6. \A k \in 0 .. c : s2[(h + k) % n] = IF k = c THEN x ELSE s[(h + k) % n]
  <2> SUFFICES ASSUME NEW k \in 0 .. c
               PROVE  s2[(h + k) % n] = IF k = c THEN x ELSE s[(h + k) % n]
    OBVIOUS
  <2>1. CASE k = c
    BY <1>4, <1>5, <2>1
  <2>2. CASE k # c
    <3>1. k \in 0 .. c - 1
      BY <2>2
    <3> QED
      BY <1>3, <1>5, <2>2, <3>1
  <2> QED
    BY <2>1, <2>2
<1>7. 0 .. (c + 1) - 1 = 0 .. c
  OBVIOUS
<1>8. ASSUME NEW k \in 0 .. c PROVE k = c \/ k \in 0 .. c - 1
  OBVIOUS
<1>9. c \in 0 .. c /\ 0 .. c - 1 \subseteq 0 .. c /\ c \notin 0 .. c - 1
  OBVIOUS
<1>10. Around(n, s2, h, c + 1) = Around(n, s, h, c) \cup {x}
  <2>1. ASSUME NEW y \in Around(n, s2, h, c + 1) PROVE y \in Around(n, s, h, c) \cup {x}
    <3>1. PICK k \in 0 .. c : y = s2[(h + k) % n]
      BY <1>7, <2>1 DEF Around
    <3> QED
      BY <1>6, <1>8, <3>1 DEF Around
  <2>2. x \in Around(n, s2, h, c + 1)
    BY <1>6, <1>7, <1>9 DEF Around
  <2>3. ASSUME NEW y \in Around(n, s, h, c) PROVE y \in Around(n, s2, h, c + 1)
    <3>1. PICK k \in 0 .. c - 1 : y = s[(h + k) % n]
      BY <2>3 DEF Around
    <3>2. k \in 0 .. c /\ k # c
      BY <1>9
    <3>3. y = s2[(h + k) % n]
      BY <1>6, <3>1, <3>2
    <3> QED
      BY <1>7, <3>2, <3>3 DEF Around
  <2> QED
    BY <2>1, <2>2, <2>3
<1>11. OneEach(n, s2, h, c + 1)
  <2> SUFFICES ASSUME NEW j \in 0 .. c, NEW k \in 0 .. c,
                      s2[(h + j) % n] = s2[(h + k) % n]
               PROVE  j = k
    BY <1>7 DEF OneEach
  <2>1. \A i \in 0 .. c - 1 : s[(h + i) % n] # x
    BY DEF Around
  <2>2. CASE j = c \/ k = c
    BY <1>6, <1>8, <2>1, <2>2
  <2>3. CASE j # c /\ k # c
    <3>1. j \in 0 .. c - 1 /\ k \in 0 .. c - 1
      BY <1>8, <2>3
    <3> QED
      BY <1>6, <2>3, <3>1 DEF OneEach
  <2> QED
    BY <2>2, <2>3
<1> QED
  BY <1>2, <1>10, <1>11

-----------------------------------------------------------------------------
(* The inductive invariant: every block is used or listed, and the ring or
   the bytes list each of the others once. *)
Parted == /\ used \cup Listed = Blocks /\ used \cap Listed = {}
          /\ Cardinality(Listed) = count /\ count \in 0 .. num

RingLists == kind # "status" =>
                /\ slots \in [0 .. num - 1 -> Blocks]
                /\ head \in 0 .. num - 1 /\ tail = (head + count) % num
                /\ tail \in 0 .. num - 1
                /\ OneEach(num, slots, head, count)

BytesList == kind = "status" => status \in [Indices -> {BLOCK_FREE, BLOCK_USED}]

IInv == Accepted /\ Parted /\ RingLists /\ BytesList

-----------------------------------------------------------------------------
LEMMA LeastIn ==
  ASSUME NEW S \in SUBSET Nat, S # {}
  PROVE  Min(S) \in S
<1>1. PICK x \in S : \A y \in S : ~(<<y, x>> \in OpToRel(<, Nat))
  BY WFMin, NatLessThanWellFounded
<1>2. ASSUME NEW y \in S PROVE x <= y
  <2>1. <<y, x>> \in Nat \X Nat /\ x \in Nat /\ y \in Nat
    OBVIOUS
  <2>2. <<y, x>>[1] < <<y, x>>[2] <=> y < x
    OBVIOUS
  <2>3. ~(y < x)
    BY <1>1, <2>1, <2>2, Zenon DEF OpToRel
  <2> QED
    BY <2>1, <2>3
<1> QED
  BY <1>2 DEF Min

LEMMA BlocksFinite ==
  ASSUME Accepted
  PROVE  IsFiniteSet(Blocks) /\ Cardinality(Blocks) = num
<1> DEFINE f == [i \in Indices |-> Address(i)]
<1>1. num \in Nat
  BY Pool
<1>2. IsFiniteSet(Indices) /\ Cardinality(Indices) = num
  <2>1. IsFiniteSet(0 .. num - 1) /\ Cardinality(0 .. num - 1)
            = (IF 0 > num - 1 THEN 0 ELSE (num - 1) - 0 + 1)
    BY <1>1, FS_Interval
  <2> QED
    BY <1>1, <2>1 DEF Indices
<1>3. f \in Bijection(Indices, Blocks)
  BY Distinct DEF Bijection, Injection, Surjection, IsInjective, Blocks
<1> QED
  BY <1>2, <1>3, FS_Bijection DEF ExistsBijection

(* What follows of the sizes of the two parts. *)
LEMMA PartSizes ==
  ASSUME Accepted, Parted
  PROVE  /\ IsFiniteSet(used) /\ IsFiniteSet(Listed)
         /\ Cardinality(used) = num - count
         /\ count = 0 => used = Blocks
         /\ count >= num => used = {}
<1>1. IsFiniteSet(Blocks) /\ Cardinality(Blocks) = num /\ num \in Nat
  BY BlocksFinite, Pool
<1>2. Listed \subseteq Blocks /\ used = Blocks \ Listed /\ Blocks \cap Listed = Listed
  BY DEF Parted
<1>3. IsFiniteSet(used) /\ IsFiniteSet(Listed)
      /\ (Cardinality(Listed) = Cardinality(Blocks) => Listed = Blocks)
  BY <1>1, <1>2, FS_Subset
<1>4. Cardinality(Blocks \ Listed) = Cardinality(Blocks) - Cardinality(Blocks \cap Listed)
  BY <1>1, FS_Difference
<1>5. count = 0 => Listed = {}
  BY <1>3, FS_EmptySet DEF Parted
<1>6. count >= num => Listed = Blocks
  BY <1>1, <1>3 DEF Parted
<1> QED
  BY <1>1, <1>2, <1>3, <1>4, <1>5, <1>6 DEF Parted

(* The arguments of memory_pool_init stay, and with them the layout. *)
LEMMA Kept ==
  ASSUME UNCHANGED config
  PROVE  /\ kind' = kind /\ num' = num /\ Header' = Header /\ stride' = stride
         /\ pool_start' = pool_start
         /\ Indices' = Indices /\ Blocks' = Blocks /\ (Accepted' <=> Accepted)
<1>1. num' = num /\ Header' = Header /\ stride' = stride /\ pool_start' = pool_start
  BY DEF config, num, Header, stride, pool_start
<1>2. Indices' = Indices
  BY <1>1 DEF Indices
<1>3. Blocks' = Blocks
  BY <1>1, <1>2 DEF Blocks, Address
<1> QED
  BY <1>1, <1>2, <1>3 DEF config, Accepted

LEMMA ListedIs ==
  /\ kind # "status" => Listed = Around(num, slots, head, count)
  /\ kind = "status" => Listed = {Address(i) : i \in {j \in Indices : status[j] = BLOCK_FREE}}
BY DEF Listed, Around

LEMMA ListedNext ==
  ASSUME UNCHANGED config
  PROVE  /\ kind # "status" => Listed' = Around(num, slots', head', count')
         /\ kind = "status" =>
              Listed' = {Address(i) : i \in {j \in Indices : status'[j] = BLOCK_FREE}}
<1>1. kind' = kind /\ num' = num /\ Indices' = Indices
  BY Kept
<1>2. \A i : Address(i)' = Address(i)
  BY Kept DEF Address
<1> QED
  BY <1>1, <1>2 DEF Listed, Around

(* A block changes sides. *)
LEMMA Taken ==
  ASSUME Accepted, Parted, UNCHANGED config, NEW x \in Listed,
         Listed' = Listed \ {x}, used' = used \cup {x}, count' = count - 1
  PROVE  Parted'
<1>1. Cardinality(Listed \ {x}) = Cardinality(Listed) - 1 /\ IsFiniteSet(Listed)
  BY PartSizes, FS_RemoveElement
<1>2. count # 0 /\ num \in Nat
  BY <1>1, FS_EmptySet, Pool DEF Parted
<1>3. count - 1 \in 0 .. num
  BY <1>2 DEF Parted
<1> QED
  BY <1>1, <1>3, Kept DEF Parted

LEMMA Returned ==
  ASSUME Accepted, Parted, UNCHANGED config, NEW x \in used,
         Listed' = Listed \cup {x}, used' = used \ {x}, count' = count + 1
  PROVE  Parted'
<1>1. x \notin Listed
  BY DEF Parted
<1>2. Cardinality(Listed \cup {x}) = Cardinality(Listed) + 1
  BY <1>1, PartSizes, FS_AddElement
<1>3. ~(count >= num) /\ num \in Nat
  BY PartSizes, Pool
<1>4. count + 1 \in 0 .. num
  BY <1>3 DEF Parted
<1>5. (used \ {x}) \cup (Listed \cup {x}) = used \cup Listed
      /\ (used \ {x}) \cap (Listed \cup {x}) = used \cap Listed
  BY <1>1
<1> QED
  BY <1>2, <1>4, <1>5, Kept DEF Parted

-----------------------------------------------------------------------------
(* Where a pointer lies, from the first block on. *)
LEMMA Offset ==
  ASSUME Accepted, NEW i \in Indices
  PROVE  /\ Address(i) - Header - pool_start = i * stride
         /\ (Address(i) + 1) - Header - pool_start = i * stride + 1
         /\ i * stride \in Nat /\ i \in Nat /\ i * stride < num * stride /\ num * stride \in Nat
<1>1. i \in Nat /\ i < num /\ num \in Nat /\ stride \in Nat \ {0}
  BY Pool DEF Indices
<1>2. i * stride + stride <= num * stride /\ i * stride \in Nat /\ num * stride \in Nat
  BY <1>1, OrderStrict, Order
<1> DEFINE x == i * stride
           y == num * stride
<1>3. Address(i) = pool_start + x + Header /\ x \in Nat /\ y \in Nat /\ x + stride <= y
  BY <1>2 DEF Address
<1> HIDE DEF x, y
<1>4. Address(i) - Header - pool_start = x /\ (Address(i) + 1) - Header - pool_start = x + 1
      /\ x < y
  BY <1>1, <1>3, Pool
<1> QED
  BY <1>1, <1>3, <1>4 DEF x, y

LEMMA Multiple ==
  ASSUME Accepted, NEW i \in Nat
  PROVE  /\ (i * stride) % stride = 0 /\ (i * stride) \div stride = i
         /\ (i * stride + 1) % stride = 1
<1> DEFINE x == i * stride
<1>1. /\ stride \in Nat \ {0, 1} /\ 0 \in 0 .. stride - 1 /\ 1 \in 0 .. stride - 1
      /\ x \in Nat /\ x = i * stride + 0
  BY Pool, Order
<1>2. x \div stride = i /\ x % stride = 0
  BY <1>1, Quotient
<1>3. (x + 1) % stride = 1
  <2>1. x + 1 \in Nat /\ x + 1 = i * stride + 1
    BY <1>1
  <2> HIDE DEF x
  <2> QED
    BY <1>1, <2>1, Quotient
<1> QED
  BY <1>2, <1>3

LEMMA BlockValid ==
  ASSUME Accepted, NEW i \in Indices
  PROVE  Valid(Address(i)) /\ IndexOf(Address(i)) = i
<1>1. Address(i) - Header >= pool_start
  BY Within, Pool
<1>2. /\ Address(i) - Header <= pool_start + num * stride
      /\ kind # "status" => Address(i) < pool_start + num * stride
  <2> DEFINE x == i * stride
             y == num * stride
  <2>1. /\ Address(i) = pool_start + x + Header /\ x \in Nat /\ y \in Nat /\ x < y
    BY Offset DEF Address
  <2> HIDE DEF x, y
  <2>2. /\ Address(i) - Header <= pool_start + y
        /\ kind # "status" => Address(i) < pool_start + y
    BY <2>1, Pool
  <2> QED
    BY <2>2 DEF y
<1> QED
  BY <1>1, <1>2, Offset, Multiple DEF Valid, IndexOf

(* The mistakes are found out. *)
LEMMA StrayRefused ==
  ASSUME Accepted, used \subseteq Blocks, NEW p \in Stray
  PROVE  ~Valid(p) \/ (kind = "status" /\ p \in Blocks \ used)
<1>1. ASSUME NEW q \in used, p = q + 1 PROVE ~Valid(p)
  <2>1. PICK i \in Indices : q = Address(i)
    BY DEF Blocks
  <2> QED
    BY <1>1, <2>1, Offset, Multiple DEF Valid
<1>2. ASSUME kind = "status", p = Address(num + 1) PROVE ~Valid(p)
  <2> DEFINE x == (num + 1) * stride
             y == num * stride
  <2>1. y + stride <= x /\ y \in Nat /\ x \in Nat
    BY Pool, OrderStrict, Order
  <2>2. p = pool_start + x + Header
    BY <1>2 DEF Address
  <2> HIDE DEF x, y
  <2>3. pool_start \in Nat /\ Header \in Nat /\ stride \in Nat \ {0}
    BY Pool
  <2>4. ~(p - Header <= pool_start + y)
    BY <2>1, <2>2, <2>3
  <2> QED
    BY <1>2, <2>4 DEF Valid, y
<1>3. ASSUME kind # "status", p = Address(num) PROVE ~Valid(p)
  <2> DEFINE y == num * stride
  <2>1. y \in Nat /\ p = pool_start + y + Header
    BY <1>3, Pool, Order DEF Address
  <2> HIDE DEF y
  <2>2. ~(p < pool_start + y)
    BY <1>3, <2>1, Pool
  <2> QED
    BY <1>3, <2>2 DEF Valid, y
<1> QED
  BY <1>1, <1>2, <1>3 DEF Stray

(* A free of used memory finds a place, and no other free does. *)
LEMMA UsedFreeable ==
  ASSUME IInv, NEW p \in used
  PROVE  /\ Valid(p) /\ count < num /\ p \in Blocks /\ p \notin Listed
         /\ kind = "status" => IndexOf(p) \in Indices /\ status[IndexOf(p)] = BLOCK_USED
                               /\ Address(IndexOf(p)) = p
<1>1. PICK i \in Indices : p = Address(i)
  BY DEF IInv, Parted, Blocks
<1>2. Valid(p) /\ IndexOf(p) = i
  BY <1>1, BlockValid DEF IInv
<1>3. count < num
  BY PartSizes, Pool DEF IInv, Parted
<1>4. p \notin Listed /\ p \in Blocks
  BY DEF IInv, Parted
<1>5. kind = "status" => status[i] # BLOCK_FREE
  BY <1>1, <1>4, ListedIs
<1> QED
  BY <1>1, <1>2, <1>3, <1>4, <1>5 DEF IInv, BytesList

LEMMA FreedIsUsed ==
  ASSUME IInv, NEW p \in used \cup Stray, Valid(p),
         kind = "status" => status[IndexOf(p)] # BLOCK_FREE
  PROVE  p \in used
<1>1. CASE kind = "status" /\ p \in Blocks \ used
  <2>1. PICK i \in Indices : p = Address(i) /\ status[i] = BLOCK_FREE
    BY <1>1, ListedIs DEF IInv, Parted
  <2>2. IndexOf(p) = i
    BY <2>1, BlockValid DEF IInv
  <2> QED
    BY <1>1, <2>1, <2>2
<1> QED
  BY <1>1, StrayRefused DEF IInv, Parted

-----------------------------------------------------------------------------
(* The allocations. *)
LEMMA RingAllocKeeps ==
  ASSUME IInv, RingAlloc
  PROVE  /\ IInv' /\ slots[head] \in Blocks \ used
         /\ used' = used \cup {slots[head]} /\ answer' = <<"alloc", slots[head], TRUE>>
<1> DEFINE x == slots[head]
<1>1. /\ kind # "status" /\ UNCHANGED config /\ slots' = slots
      /\ head' = (head + 1) % num /\ tail' = tail /\ count' = count - 1
      /\ used' = used \cup {x} /\ answer' = <<"alloc", x, TRUE>>
  BY DEF RingAlloc, Get, Alloced
<1>2. /\ num \in Nat \ {0} /\ head \in 0 .. num - 1 /\ count \in 1 .. num
      /\ OneEach(num, slots, head, count)
  BY <1>1, Pool DEF IInv, RingAlloc, Get, Parted, RingLists
<1>3. /\ head' \in 0 .. num - 1 /\ (head' + (count - 1)) % num = (head + count) % num
      /\ Around(num, slots, head', count - 1) = Around(num, slots, head, count) \ {x}
      /\ OneEach(num, slots, head', count - 1) /\ x \in Around(num, slots, head, count)
  <2> DEFINE h2 == (head + 1) % num
  <2>1. /\ h2 \in 0 .. num - 1 /\ (h2 + (count - 1)) % num = (head + count) % num
        /\ Around(num, slots, h2, count - 1) = Around(num, slots, head, count) \ {x}
        /\ OneEach(num, slots, h2, count - 1) /\ x \in Around(num, slots, head, count)
    BY <1>2, AroundGet, Zenon
  <2> QED
    BY <1>1, <2>1, Zenon
<1>4. Listed' = Listed \ {x} /\ x \in Listed
  BY <1>1, <1>3, ListedIs, ListedNext
<1>5. Parted'
  BY <1>1, <1>4, Taken DEF IInv
<1>6. RingLists' /\ BytesList'
  BY <1>1, <1>3, Kept DEF IInv, RingLists, BytesList
<1>7. x \in Blocks \ used
  BY <1>4 DEF IInv, Parted
<1> QED
  BY <1>1, <1>5, <1>6, <1>7, Kept DEF IInv

LEMMA StatusAllocKeeps ==
  ASSUME IInv, StatusAlloc
  PROVE  /\ IInv'
         /\ \E x \in Blocks \ used : used' = used \cup {x} /\ answer' = <<"alloc", x, TRUE>>
<1> DEFINE free == {i \in Indices : status[i] = BLOCK_FREE}
           m == Min(free)
           x == Address(m)
<1>1. /\ kind = "status" /\ UNCHANGED config /\ free # {}
      /\ status' = [status EXCEPT ![m] = BLOCK_USED]
      /\ count' = count - 1 /\ used' = used \cup {x} /\ answer' = <<"alloc", x, TRUE>>
  BY DEF StatusAlloc, Alloced
<1>2. m \in free
  <2>1. free \in SUBSET Nat
    BY Pool DEF IInv, Indices
  <2> QED
    BY <1>1, <2>1, LeastIn
<1>3. m \in Indices /\ status[m] = BLOCK_FREE
  BY <1>2
<1> HIDE DEF m
<1>4. /\ status' \in [Indices -> {BLOCK_FREE, BLOCK_USED}]
      /\ \A i \in Indices : status'[i] = BLOCK_FREE <=> i # m /\ status[i] = BLOCK_FREE
  BY <1>1, <1>3 DEF IInv, BytesList, BLOCK_FREE, BLOCK_USED
<1>5. Listed' = Listed \ {x} /\ x \in Listed
  <2>1. \A i \in Indices : Address(i) = x => i = m
    BY <1>3, Distinct DEF IInv
  <2>2. Listed = {Address(i) : i \in free}
    BY <1>1, ListedIs
  <2>3. Listed' = {Address(i) : i \in {j \in Indices : status'[j] = BLOCK_FREE}}
    BY <1>1, ListedNext
  <2> QED
    BY <1>3, <1>4, <2>1, <2>2, <2>3
<1>6. Parted'
  BY <1>1, <1>5, Taken DEF IInv
<1>7. RingLists' /\ BytesList'
  BY <1>1, <1>4, Kept DEF RingLists, BytesList
<1>8. x \in Blocks \ used
  BY <1>5 DEF IInv, Parted
<1> QED
  BY <1>1, <1>6, <1>7, <1>8, Kept DEF IInv

LEMMA AllocNoneKeeps ==
  ASSUME IInv, AllocNone
  PROVE  /\ IInv' /\ used = Blocks /\ used' = used /\ answer' = <<"alloc", NULL, FALSE>>
<1>1. /\ UNCHANGED <<config, ring, status, count, used>>
      /\ answer' = <<"alloc", NULL, FALSE>>
  BY DEF AllocNone
<1>2. used = Blocks
  <2>1. CASE count = 0
    BY <2>1, PartSizes DEF IInv
  <2>2. CASE kind = "status" /\ \A i \in Indices : status[i] # BLOCK_FREE
    <3>1. Listed = {}
      BY <2>2, ListedIs
    <3> QED
      BY <3>1 DEF IInv, Parted
  <2> QED
    BY <2>1, <2>2 DEF AllocNone
<1>3. Listed' = Listed
  BY <1>1, ListedIs, ListedNext DEF ring
<1> QED
  BY <1>1, <1>2, <1>3, Kept DEF IInv, Parted, RingLists, BytesList, ring

(* The frees. *)
LEMMA RingFreeKeeps ==
  ASSUME IInv, NEW p \in used \cup Stray, RingFree(p)
  PROVE  /\ IInv' /\ p \in used /\ used' = used \ {p} /\ answer' = <<"free", p, TRUE>>
<1>1. /\ kind # "status" /\ Valid(p) /\ UNCHANGED config /\ count < num
      /\ slots' = [slots EXCEPT ![tail] = p] /\ head' = head
      /\ tail' = (tail + 1) % num /\ count' = count + 1
      /\ used' = used \ {p} /\ answer' = <<"free", p, TRUE>>
  BY DEF RingFree, Put, Freed
<1>2. p \in used
  BY <1>1, FreedIsUsed
<1>3. p \in Blocks /\ p \notin Listed
  BY <1>2, UsedFreeable
<1>4. /\ num \in Nat \ {0} /\ slots \in [0 .. num - 1 -> Blocks] /\ head \in 0 .. num - 1
      /\ count \in 0 .. num - 1 /\ OneEach(num, slots, head, count)
      /\ tail = (head + count) % num
  <2>1. num \in Nat \ {0} /\ count \in 0 .. num /\ count < num
    BY <1>1, Pool DEF IInv, Parted
  <2>2. count \in 0 .. num - 1
    BY <2>1
  <2> QED
    BY <1>1, <2>1, <2>2 DEF IInv, RingLists
<1>5. p \notin Around(num, slots, head, count)
  BY <1>1, <1>3, ListedIs
<1>6. /\ (tail + 1) % num = (head + (count + 1)) % num /\ (tail + 1) % num \in 0 .. num - 1
      /\ slots' \in [0 .. num - 1 -> Blocks]
      /\ Around(num, slots', head, count + 1) = Around(num, slots, head, count) \cup {p}
      /\ OneEach(num, slots', head, count + 1)
  <2>1. /\ slots' \in [0 .. num - 1 -> Blocks] /\ slots'[tail] = p
        /\ \A i \in 0 .. num - 1 : i # tail => slots'[i] = slots[i]
    BY <1>1, <1>3, <1>4 DEF IInv, RingLists
  <2>2. /\ (tail + 1) % num = (head + (count + 1)) % num /\ (tail + 1) % num \in 0 .. num - 1
        /\ Around(num, slots', head, count + 1) = Around(num, slots, head, count) \cup {p}
        /\ OneEach(num, slots', head, count + 1)
    <3>1. PutAt(num, Blocks, slots, head, count, p, tail, slots')
      BY <1>3, <1>4, <1>5, <2>1 DEF PutAt
    <3> QED
      BY <3>1, AroundPut, Zenon
  <2> QED
    BY <2>1, <2>2
<1>7. Listed' = Listed \cup {p}
  BY <1>1, <1>6, ListedIs, ListedNext
<1>8. Parted'
  BY <1>1, <1>2, <1>7, Returned DEF IInv
<1>9. RingLists' /\ BytesList'
  BY <1>1, <1>4, <1>6, Kept DEF RingLists, BytesList
<1> QED
  BY <1>1, <1>2, <1>8, <1>9, Kept DEF IInv

LEMMA StatusFreeKeeps ==
  ASSUME IInv, NEW p \in used \cup Stray, StatusFree(p)
  PROVE  /\ IInv' /\ p \in used /\ used' = used \ {p} /\ answer' = <<"free", p, TRUE>>
<1> DEFINE m == IndexOf(p)
<1>1. /\ kind = "status" /\ Valid(p) /\ UNCHANGED config /\ status[m] # BLOCK_FREE
      /\ status' = [status EXCEPT ![m] = BLOCK_FREE] /\ count' = count + 1
      /\ used' = used \ {p} /\ answer' = <<"free", p, TRUE>>
  BY DEF StatusFree, Freed
<1>2. p \in used
  BY <1>1, FreedIsUsed
<1>3. m \in Indices /\ p = Address(m)
  BY <1>1, <1>2, UsedFreeable
<1> HIDE DEF m
<1>4. /\ status' \in [Indices -> {BLOCK_FREE, BLOCK_USED}]
      /\ \A i \in Indices : status'[i] = BLOCK_FREE <=> i = m \/ status[i] = BLOCK_FREE
  BY <1>1, <1>3 DEF IInv, BytesList, BLOCK_FREE, BLOCK_USED
<1>5. Listed' = Listed \cup {p}
  <2>1. Listed = {Address(i) : i \in {j \in Indices : status[j] = BLOCK_FREE}}
    BY <1>1, ListedIs
  <2>2. Listed' = {Address(i) : i \in {j \in Indices : status'[j] = BLOCK_FREE}}
    BY <1>1, ListedNext
  <2> QED
    BY <1>3, <1>4, <2>1, <2>2
<1>6. Parted'
  BY <1>1, <1>2, <1>5, Returned DEF IInv
<1>7. RingLists' /\ BytesList'
  BY <1>1, <1>4, Kept DEF RingLists, BytesList
<1> QED
  BY <1>1, <1>2, <1>6, <1>7, Kept DEF IInv

LEMMA FreeRefusedKeeps ==
  ASSUME IInv, NEW p \in used \cup Stray, FreeRefused(p)
  PROVE  IInv' /\ p \notin used /\ used' = used /\ answer' = <<"free", p, FALSE>>
<1>1. /\ UNCHANGED <<config, ring, status, count, used>>
      /\ answer' = <<"free", p, FALSE>>
  BY DEF FreeRefused
<1>2. p \notin used
  <2> SUFFICES ASSUME p \in used PROVE FALSE
    OBVIOUS
  <2>1. Valid(p) /\ count < num /\ count \in Nat /\ num \in Nat
        /\ (kind = "status" => status[IndexOf(p)] # BLOCK_FREE)
    BY UsedFreeable, Pool DEF IInv, Parted, BLOCK_FREE, BLOCK_USED
  <2> QED
    BY <2>1 DEF FreeRefused
<1>3. Listed' = Listed
  BY <1>1, ListedIs, ListedNext DEF ring
<1> QED
  BY <1>1, <1>2, <1>3, Kept DEF IInv, Parted, RingLists, BytesList, ring

(* All blocks put in order into an empty ring. *)
LEMMA FilledLists ==
  ASSUME Accepted
  PROVE  /\ Filled \in [0 .. num - 1 -> Blocks] /\ OneEach(num, Filled, 0, num)
         /\ Around(num, Filled, 0, num) = Blocks /\ (0 + num) % num = 0
<1>1. num \in Nat \ {0} /\ Indices = 0 .. num - 1
  BY Pool DEF Indices
<1>2. ASSUME NEW k \in 0 .. num - 1 PROVE (0 + k) % num = k
  <2>1. 0 \in 0 .. num - 1 /\ k \in 0 .. num /\ Place(num, 0, k) = k
    BY <1>1 DEF Place
  <2> QED
    BY <1>1, <2>1, Places, Zenon
<1>3. (0 + num) % num = 0
  <2>1. 0 \in 0 .. num - 1 /\ num \in 0 .. num /\ Place(num, 0, num) = 0
    BY <1>1 DEF Place
  <2> QED
    BY <1>1, <2>1, Places, Zenon
<1>4. Filled \in [0 .. num - 1 -> Blocks] /\ \A i \in 0 .. num - 1 : Filled[i] = Address(i)
  BY <1>1 DEF Filled, Blocks
<1>5. OneEach(num, Filled, 0, num)
  BY <1>1, <1>2, <1>4, Distinct DEF OneEach
<1>6. Around(num, Filled, 0, num) = Blocks
  BY <1>1, <1>2, <1>4 DEF Around, Blocks
<1> QED
  BY <1>3, <1>4, <1>5, <1>6

LEMMA ResetKeeps ==
  ASSUME IInv, Reset
  PROVE  IInv' /\ used' = {} /\ answer' = <<"reset", NULL, TRUE>>
<1>1. /\ kind # "status" /\ slots' = Filled /\ head' = 0 /\ tail' = 0 /\ count' = num
      /\ used' = {} /\ answer' = <<"reset", NULL, TRUE>> /\ UNCHANGED config
  BY DEF Reset, Emptied
<1>2. Listed' = Blocks
  BY <1>1, FilledLists, ListedNext DEF IInv
<1>3. num \in Nat \ {0} /\ 0 \in 0 .. num - 1 /\ num \in 0 .. num /\ Cardinality(Blocks) = num
  BY Pool, BlocksFinite DEF IInv
<1>4. Parted'
  BY <1>1, <1>2, <1>3, Kept DEF Parted
<1>5. RingLists' /\ BytesList'
  BY <1>1, <1>3, FilledLists, Kept DEF IInv, RingLists, BytesList
<1> QED
  BY <1>1, <1>4, <1>5, Kept DEF IInv

LEMMA InitIInv == Init => IInv
<1> SUFFICES ASSUME Init PROVE IInv
  OBVIOUS
<1>1. Accepted
  BY PoolAssumption DEF Init, Accepted
<1>2. num \in Nat \ {0} /\ 0 \in 0 .. num - 1 /\ num \in 0 .. num /\ Cardinality(Blocks) = num
  BY <1>1, Pool, BlocksFinite
<1>3. Listed = Blocks
  <2>1. CASE kind # "status"
    BY <1>1, <2>1, FilledLists, ListedIs DEF Init, RingInit, StatusInit
  <2>2. CASE kind = "status"
    <3>1. \A i \in Indices : status[i] = BLOCK_FREE
      BY <2>2 DEF Init, RingInit, StatusInit
    <3> QED
      BY <2>2, <3>1, ListedIs DEF Blocks
  <2> QED
    BY <2>1, <2>2
<1>4. Parted
  BY <1>2, <1>3 DEF Init, Parted
<1>5. RingLists /\ BytesList
  BY <1>1, <1>2, FilledLists DEF Init, RingInit, StatusInit, RingLists, BytesList
<1> QED
  BY <1>1, <1>4, <1>5 DEF IInv

LEMMA NextIInv == IInv /\ [Next]_vars => IInv'
<1> SUFFICES ASSUME IInv, [Next]_vars PROVE IInv'
  OBVIOUS
<1>1. CASE RingAlloc \/ StatusAlloc \/ AllocNone \/ Reset
  BY <1>1, RingAllocKeeps, StatusAllocKeeps, AllocNoneKeeps, ResetKeeps
<1>2. ASSUME NEW p \in used \cup Stray, RingFree(p) \/ StatusFree(p) \/ FreeRefused(p)
      PROVE  IInv'
  BY <1>2, RingFreeKeeps, StatusFreeKeeps, FreeRefusedKeeps
<1>3. CASE UNCHANGED vars
  <2>1. UNCHANGED config /\ UNCHANGED <<slots, head, tail, status, count, used>>
    BY <1>3 DEF vars, ring
  <2>2. Listed' = Listed
    BY <2>1, ListedIs, ListedNext
  <2> QED
    BY <2>1, <2>2, Kept DEF IInv, Parted, RingLists, BytesList
<1> QED
  BY <1>1, <1>2, <1>3 DEF Next

(* The invariant holds for every size of the memory and of the blocks. *)
THEOREM Invariant == Spec => []IInv
  BY InitIInv, NextIInv, PTL DEF Spec

(* Whatever sizes memory_pool_init accepts, all three divisions of the memory
   give blocks that lie inside it, apart from each other and from the pool's
   own bytes (03_ring_buffers_mempool_imp/mempool_ring.c:23-45,
   03_ring_buffers_mempool_imp_old/mempool_ring.c:27-44 with its 32-bit
   differences, 01_memory_pool_imp/mem_pool.c:20-46). *)
THEOREM Layout == Spec => []LayoutSound
<1>1. IInv => LayoutSound
  BY AcceptedSound DEF IInv
<1> QED
  BY <1>1, Invariant, PTL

(* After any calls every block is either used or listed as free, once, and
   both counts are exact (mem_pool.h:14, mempool_ring.h:55-61). *)
THEOREM Accounting == Spec => []Accounted
<1>1. IInv => Accounted
  <2> SUFFICES ASSUME IInv PROVE Accounted
    OBVIOUS
  <2>1. Cardinality(used) = num - count
    BY PartSizes DEF IInv
  <2> QED
    BY <2>1, Pool DEF IInv, Parted, RingLists, Accounted, used_count, Indices
<1> QED
  BY <1>1, Invariant, PTL

-----------------------------------------------------------------------------
(* Every call answers as the allocator may. *)
LEMMA CallRefines ==
  ASSUME IInv, Next
  PROVE  A!ANext
<1>1. Blocks' = Blocks
  <2>1. UNCHANGED config
    BY DEF Next, RingAlloc, StatusAlloc, AllocNone, Reset, RingFree, StatusFree, FreeRefused
  <2> QED
    BY <2>1, Kept
<1>2. CASE RingAlloc \/ StatusAlloc
  <2>1. \E b \in Blocks \ used : used' = used \cup {b} /\ answer' = <<"alloc", b, TRUE>>
    BY <1>2, RingAllocKeeps, StatusAllocKeeps
  <2> QED
    BY <1>1, <2>1 DEF A!ANext, A!AAlloc
<1>3. CASE AllocNone
  BY <1>1, <1>3, AllocNoneKeeps DEF A!ANext, A!AAlloc
<1>4. CASE Reset
  BY <1>1, <1>4, ResetKeeps DEF A!ANext, A!AReset
<1>5. ASSUME NEW p \in used \cup Stray, RingFree(p) \/ StatusFree(p) \/ FreeRefused(p)
      PROVE  A!ANext
  <2>1. used' = used \ {p} /\ answer' = <<"free", p, p \in used>>
    <3>1. CASE RingFree(p) \/ StatusFree(p)
      <4>1. p \in used /\ used' = used \ {p} /\ answer' = <<"free", p, TRUE>>
        BY <3>1, RingFreeKeeps, StatusFreeKeeps
      <4>2. (p \in used) = TRUE
        BY <4>1, Zenon
      <4> QED
        BY <4>1, <4>2, Zenon
    <3>2. CASE FreeRefused(p)
      <4>1. p \notin used /\ used' = used /\ answer' = <<"free", p, FALSE>>
        BY <3>2, FreeRefusedKeeps
      <4>2. used \ {p} = used
        BY <4>1
      <4>3. (p \in used) = FALSE
        BY <4>1, SMT
      <4> QED
        BY <4>1, <4>2, <4>3, Zenon
    <3> QED
      BY <1>5, <3>1, <3>2
  <2>2. answer'[2] = p
    BY <2>1
  <2> QED
    BY <1>1, <2>1, <2>2 DEF A!ANext, A!AFree
<1> QED
  BY <1>2, <1>3, <1>4, <1>5 DEF Next

(* The three pools, for all sizes, are allocators: a block is handed out only
   if it is not in use, NULL is answered only if all are, and a free is taken
   exactly if the block is in use, the calls of test_invalid_free in
   memory_pool_tester.c included. *)
THEOREM Implements == Spec => ImplementsAllocator
<1>1. Init => A!AInit
  BY DEF Init, A!AInit
<1>2. IInv /\ [Next]_vars => [A!ANext]_(A!avars)
  <2> SUFFICES ASSUME IInv, [Next]_vars PROVE [A!ANext]_(A!avars)
    OBVIOUS
  <2>1. CASE Next
    BY <2>1, CallRefines
  <2>2. CASE UNCHANGED vars
    <3>1. Blocks' = Blocks /\ used' = used /\ answer' = answer
      BY <2>2, Kept DEF vars
    <3> QED
      BY <3>1 DEF A!avars
  <2> QED
    BY <2>1, <2>2
<1> QED
  BY <1>1, <1>2, Invariant, PTL DEF Spec, ImplementsAllocator, A!ASpec
=============================================================================
