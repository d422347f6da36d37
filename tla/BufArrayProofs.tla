--------------------------- MODULE BufArrayProofs ---------------------------
(***************************************************************************)
(* BufArray proved for every set of sizes and every number of buffers:     *)
(* type correctness, conservation of the buffers, and that the ring        *)
(* implements the bounded queue.  The invariant is TypeOK /\ ItemsConserved*)
(* itself: that the walk from head to tail finds only buffers, each once,  *)
(* is what makes a pulled item a buffer nobody else has.                   *)
(***************************************************************************)
EXTENDS BufArray, SequenceTheorems, TLAPS

-----------------------------------------------------------------------------
(* The ring operators: where the walk from head to tail goes, and what a   *)
(* push and a pull do to the sequence it reads.                            *)

\* The walk of a ring is shorter than the ring, and its length tells empty from
\* full.
LEMMA WalkLength ==
    ASSUME NEW n \in Nat \ {0, 1}, NEW A, NEW r \in Rings(n, A)
    PROVE  /\ Length(r) \in 0 .. n - 1
           /\ IsEmpty(r) <=> Length(r) = 0
           /\ IsFull(r) <=> Length(r) = n - 1
           /\ Length(r) # 0 => Slot(r, 1) = r.head
<1>1. r.head \in 0 .. n - 1 /\ r.tail \in 0 .. n - 1 /\ r.num_item = n
  BY DEF Rings
<1>2. Length(r) \in 0 .. n - 1
  BY <1>1 DEF Length
<1>3. IsEmpty(r) <=> Length(r) = 0
  BY <1>1 DEF Length, IsEmpty
<1>4. IsFull(r) <=> Length(r) = n - 1
  BY <1>1 DEF Length, IsFull, After
<1>5. Slot(r, 1) = r.head
  BY <1>1 DEF Slot
<1> QED
  BY <1>2, <1>3, <1>4, <1>5

\* The walk stays inside the slots, stops short of the slot tail points at, and
\* visits no slot twice.
LEMMA WalkSlots ==
    ASSUME NEW n \in Nat \ {0, 1}, NEW A, NEW r \in Rings(n, A),
           NEW k \in 1 .. Length(r)
    PROVE  /\ Slot(r, k) \in 0 .. n - 1
           /\ Slot(r, k) # r.tail
           /\ \A j \in 1 .. Length(r) : Slot(r, j) = Slot(r, k) => j = k
<1>1. r.head \in 0 .. n - 1 /\ r.tail \in 0 .. n - 1 /\ r.num_item = n
  BY DEF Rings
<1>2. Length(r) \in 0 .. n - 1 /\ k \in Int
  BY WalkLength
<1>3. Slot(r, k) \in 0 .. n - 1
  BY <1>1, <1>2 DEF Slot
<1>4. Slot(r, k) # r.tail
  BY <1>1, <1>2 DEF Slot, Length
<1>5. ASSUME NEW j \in 1 .. Length(r), Slot(r, j) = Slot(r, k)
      PROVE  j = k
  BY <1>1, <1>2, <1>5 DEF Slot
<1> QED
  BY <1>3, <1>4, <1>5

\* push_item on a ring that is not full: one slot longer, the walk of the old
\* items unchanged, the new item last.
LEMMA PushWalk ==
    ASSUME NEW n \in Nat \ {0, 1}, NEW A, NEW r \in Rings(n, A),
           ~IsFull(r), NEW item \in A
    PROVE  LET p == PushItem(r, item)
           IN  /\ p \in Rings(n, A)
               /\ Length(p) = Length(r) + 1
               /\ \A k \in 1 .. Length(r) :
                     /\ Slot(p, k) = Slot(r, k)
                     /\ p.data[Slot(p, k)] = r.data[Slot(r, k)]
               /\ p.data[Slot(p, Length(p))] = item
<1> DEFINE p == PushItem(r, item)
<1>1. r.head \in 0 .. n - 1 /\ r.tail \in 0 .. n - 1 /\ r.num_item = n
  BY DEF Rings
<1>2. r.data \in [0 .. n - 1 -> A]
  BY DEF Rings
<1>3. After(r, r.tail) \in 0 .. n - 1
  BY <1>1 DEF After
<1>4. p \in Rings(n, A)
  BY <1>1, <1>3 DEF Rings, PushItem
<1>5. /\ p.head = r.head
      /\ p.tail = After(r, r.tail)
      /\ p.num_item = n
      /\ p.data = [r.data EXCEPT ![r.tail] = item]
  BY <1>1 DEF Rings, PushItem
<1>6. Length(p) = Length(r) + 1
  BY <1>1, <1>5 DEF After, IsFull, Length
<1>7. Slot(p, Length(p)) = r.tail
  BY <1>1, <1>5, <1>6 DEF After, IsFull, Length, Slot
<1>8. \A k \in 1 .. Length(r) : Slot(p, k) = Slot(r, k)
  BY <1>1, <1>5 DEF Slot
<1>9. \A k \in 1 .. Length(r) : p.data[Slot(r, k)] = r.data[Slot(r, k)]
  BY <1>2, <1>5, WalkSlots
<1>10. p.data[r.tail] = item
  BY <1>1, <1>2, <1>5
<1> QED
  BY <1>4, <1>6, <1>7, <1>8, <1>9, <1>10

\* pull_item on a ring that is not empty: the walk loses its first slot.
LEMMA PullWalk ==
    ASSUME NEW n \in Nat \ {0, 1}, NEW A, NEW r \in Rings(n, A), ~IsEmpty(r)
    PROVE  LET p == PullItem(r)
           IN  /\ p \in Rings(n, A)
               /\ p.data = r.data
               /\ Length(p) = Length(r) - 1
               /\ \A k \in 1 .. Length(p) : Slot(p, k) = Slot(r, k + 1)
<1> DEFINE p == PullItem(r)
<1>1. r.head \in 0 .. n - 1 /\ r.tail \in 0 .. n - 1 /\ r.num_item = n
  BY DEF Rings
<1>2. After(r, r.head) \in 0 .. n - 1
  BY <1>1 DEF After
<1>3. p \in Rings(n, A)
  BY <1>2 DEF Rings, PullItem
<1>4. /\ p.head = After(r, r.head)
      /\ p.tail = r.tail
      /\ p.num_item = n
      /\ p.data = r.data
  BY <1>1 DEF Rings, PullItem
<1>5. Length(p) = Length(r) - 1
  BY <1>1, <1>4 DEF After, IsEmpty, Length
<1>6. ASSUME NEW k \in 1 .. Length(p)
      PROVE  Slot(p, k) = Slot(r, k + 1)
  <2>1. k \in 1 .. n - 1
    BY <1>3, WalkLength
  <2> QED
    BY <1>1, <1>4, <2>1 DEF After, Slot
<1> QED
  BY <1>3, <1>4, <1>5, <1>6

\* Read as sequences: the queue is a sequence as long as the walk ...
LEMMA ContentsSeq ==
    ASSUME NEW n \in Nat \ {0, 1}, NEW A, NEW r \in Rings(n, A)
    PROVE  /\ Contents(r) \in Seq(A)
           /\ Len(Contents(r)) = Length(r)
           /\ \A k \in 1 .. Length(r) : Contents(r)[k] = r.data[Slot(r, k)]
<1>1. Length(r) \in Nat
  BY WalkLength
<1>2. \A k \in 1 .. Length(r) : r.data[Slot(r, k)] \in A
  BY WalkSlots DEF Rings
<1> QED
  BY <1>1, <1>2 DEF Contents

\* ... push_item appends to it ...
LEMMA PushContents ==
    ASSUME NEW n \in Nat \ {0, 1}, NEW A, NEW r \in Rings(n, A),
           ~IsFull(r), NEW item \in A
    PROVE  Contents(PushItem(r, item)) = Append(Contents(r), item)
<1> DEFINE p == PushItem(r, item)
           c == Contents(r)
           d == Contents(p)
<1>1. Length(r) \in Nat /\ Length(p) = Length(r) + 1 /\ p \in Rings(n, A)
  BY WalkLength, PushWalk
<1>2. c \in Seq(A) /\ Len(c) = Length(r)
  BY ContentsSeq
<1>3. d \in Seq(A) /\ Len(d) = Length(r) + 1
  BY <1>1, ContentsSeq
<1>4. /\ Append(c, item) \in Seq(A)
      /\ Len(Append(c, item)) = Length(r) + 1
      /\ \A k \in 1 .. Length(r) : Append(c, item)[k] = c[k]
      /\ Append(c, item)[Length(r) + 1] = item
  BY <1>2, AppendProperties
<1>5. \A k \in 1 .. Length(r) : d[k] = c[k]
  BY <1>1, PushWalk, ContentsSeq
<1>6. d[Length(r) + 1] = item
  <2>1. Length(p) \in 1 .. Length(p)
    BY <1>1
  <2>2. d[Length(p)] = p.data[Slot(p, Length(p))]
    BY <1>1, <2>1, ContentsSeq
  <2> QED
    BY <1>1, <2>2, PushWalk
<1>7. \A k \in 1 .. Len(d) : d[k] = Append(c, item)[k]
  BY <1>1, <1>3, <1>4, <1>5, <1>6
<1> HIDE DEF p, c, d
<1>8. d = Append(c, item)
  BY <1>3, <1>4, <1>7, SeqEqual
<1> QED
  BY <1>8 DEF p, c, d

\* ... and pull_item returns its head and leaves its tail.
LEMMA PullContents ==
    ASSUME NEW n \in Nat \ {0, 1}, NEW A, NEW r \in Rings(n, A), ~IsEmpty(r)
    PROVE  /\ Contents(r) # <<>>
           /\ PulledItem(r) = Head(Contents(r))
           /\ Contents(PullItem(r)) = Tail(Contents(r))
<1> DEFINE p == PullItem(r)
           c == Contents(r)
           d == Contents(p)
<1>1. /\ Length(r) \in Nat \ {0}
      /\ Length(p) = Length(r) - 1
      /\ p \in Rings(n, A)
  BY WalkLength, PullWalk
<1>2. c \in Seq(A) /\ Len(c) = Length(r)
  BY ContentsSeq
<1>3. d \in Seq(A) /\ Len(d) = Length(r) - 1
  BY <1>1, ContentsSeq
<1>4. c # <<>> /\ Head(c) = c[1]
  BY <1>1, <1>2
<1>5. c[1] = PulledItem(r)
  BY <1>1, WalkLength, ContentsSeq DEF PulledItem
<1>6. /\ Tail(c) \in Seq(A)
      /\ Len(Tail(c)) = Length(r) - 1
      /\ \A k \in 1 .. Length(r) - 1 : Tail(c)[k] = c[k + 1]
  BY <1>2, <1>4, HeadTailProperties
<1>7. ASSUME NEW k \in 1 .. Length(r) - 1
      PROVE  d[k] = c[k + 1]
  <2>1. d[k] = p.data[Slot(p, k)]
    BY <1>1, ContentsSeq
  <2>2. c[k + 1] = r.data[Slot(r, k + 1)]
    BY <1>1, ContentsSeq
  <2> QED
    BY <1>1, <2>1, <2>2, PullWalk
<1> HIDE DEF p, c, d
<1>8. d = Tail(c)
  BY <1>3, <1>6, <1>7, SeqEqual
<1> QED
  BY <1>4, <1>5, <1>8 DEF p, c, d

-----------------------------------------------------------------------------
\* Rounding up to a multiple of a positive base keeps order and sign.
LEMMA Rounding ==
    ASSUME NEW base \in Nat \ {0}, NEW x \in Nat, NEW y \in Nat, x <= y
    PROVE  /\ ToMultipleOf(x, base) \in Nat
           /\ ToMultipleOf(x, base) <= ToMultipleOf(y, base)
           /\ x <= ToMultipleOf(x, base)
<1> DEFINE p == x + base - 1
           q == y + base - 1
           P == p \div base
           Q == q \div base
<1>1. p \in Nat /\ q \in Nat /\ p <= q
  OBVIOUS
<1>2. P \in Nat /\ p = base * P + (p % base) /\ p % base \in 0 .. base - 1
  BY <1>1
<1>3. Q \in Nat /\ q = base * Q + (q % base) /\ q % base \in 0 .. base - 1
  BY <1>1
<1>4. base * P \in Nat /\ x <= base * P
  BY <1>2
<1>5. P <= Q
  BY <1>1, <1>2, <1>3
<1>6. base * P <= base * Q
  BY <1>2, <1>3, <1>5
<1> QED
  BY <1>4, <1>6 DEF ToMultipleOf

-----------------------------------------------------------------------------
(* The sizes of a ring, and the slots of its walk.                         *)

USE DEF NULL

LEMMA InitSizes ==
    ASSUME NEW n \in NumItems, NEW m \in NMallocs
    PROVE  /\ Slots(n) \in Nat \ {0, 1}
           /\ Allocated(n, m) \in 0 .. Slots(n) - 1
           /\ Allocated(n, m) <= NumBuffers
<1>1. n \in Nat \ {0} /\ m \in Int /\ Allocated(n, m) <= NumBuffers
  BY BufArrayAssumption
<1>2. ToMultipleOf(n, Granule) \in Nat /\ n <= ToMultipleOf(n, Granule)
  BY <1>1, Rounding, GranuleAssumption
<1>3. CASE m < 0 \/ m >= n
  BY <1>1, <1>2, <1>3 DEF Slots, Allocated
<1>4. CASE m \in Nat /\ m < n
  <2>1. /\ ToMultipleOf(m, Granule) \in Nat
        /\ ToMultipleOf(m, Granule) <= ToMultipleOf(n, Granule)
    BY <1>1, <1>4, Rounding, GranuleAssumption
  <2> QED
    BY <1>1, <1>2, <1>4, <2>1 DEF Slots, Allocated
<1> QED
  BY <1>1, <1>3, <1>4

\* No two slots of the walk hold the same buffer.
Distinct(r) ==
    \A j, k \in 1 .. Length(r) : r.data[Slot(r, j)] = r.data[Slot(r, k)] => j = k

Address == Item \union {NULL}

LEMMA InitRing ==
    ASSUME NEW n \in NumItems, NEW m \in NMallocs
    PROVE  LET r == InitBuf(n, m)
           IN  /\ r \in Rings(Slots(n), Address)
               /\ r.num_item = Slots(n)
               /\ r.head = 0
               /\ \A k \in 1 .. Length(r) : r.data[Slot(r, k)] = k /\ k \in Item
<1> DEFINE r == InitBuf(n, m)
           c == Allocated(n, m)
           s == Slots(n)
<1>1. s \in Nat \ {0, 1} /\ c \in 0 .. s - 1 /\ c <= NumBuffers
  BY InitSizes
<1>2. NumBuffers \in Nat
  BY BufArrayAssumption
<1>3. /\ r.head = 0
      /\ r.tail = c
      /\ r.num_item = s
      /\ r.data = [i \in 0 .. s - 1 |-> IF i < c THEN i + 1 ELSE NULL]
  BY DEF InitBuf
<1> HIDE DEF c, s
<1>4. \A i \in 0 .. s - 1 : (IF i < c THEN i + 1 ELSE NULL) \in Address
  BY <1>1, <1>2 DEF Address, Item
<1>5. r.data \in [0 .. s - 1 -> Address]
  BY <1>3, <1>4
<1>6. r \in Rings(s, Address)
  <2>1. r = [head |-> 0, tail |-> c, num_item |-> s, data |-> r.data]
    BY <1>3 DEF InitBuf, c, s
  <2> HIDE DEF r
  <2> QED
    BY <1>1, <1>5, <2>1 DEF Rings
<1> HIDE DEF r
<1>7. Length(r) = c
  BY <1>1, <1>3 DEF Length
<1>8. ASSUME NEW k \in 1 .. Length(r)
      PROVE  r.data[Slot(r, k)] = k /\ k \in Item
  <2>1. Slot(r, k) = k - 1 /\ k - 1 \in 0 .. s - 1 /\ k - 1 < c
    BY <1>1, <1>3, <1>7 DEF Slot
  <2> QED
    BY <1>1, <1>2, <1>3, <1>7, <2>1 DEF Item
<1> QED
  BY <1>3, <1>6, <1>8 DEF r, s

\* A push adds one buffer to those the ring holds; a pull takes one away.
LEMMA PushItems ==
    ASSUME NEW n \in Nat \ {0, 1}, NEW r \in Rings(n, Address), ~IsFull(r),
           NEW item \in Address, item \notin ItemsOf(r), Distinct(r)
    PROVE  /\ Distinct(PushItem(r, item))
           /\ ItemsOf(PushItem(r, item)) = ItemsOf(r) \union {item}
<1> DEFINE p == PushItem(r, item)
<1>1. Length(r) \in Nat /\ Length(p) = Length(r) + 1
  BY WalkLength, PushWalk
<1>2. /\ \A k \in 1 .. Length(r) : p.data[Slot(p, k)] = r.data[Slot(r, k)]
      /\ p.data[Slot(p, Length(r) + 1)] = item
  BY <1>1, PushWalk
<1> HIDE DEF p
<1>3. \A k \in 1 .. Length(r) : r.data[Slot(r, k)] # item
  BY DEF ItemsOf
<1>4. Distinct(p)
  BY <1>1, <1>2, <1>3 DEF Distinct
<1>5. ItemsOf(p) = ItemsOf(r) \union {item}
  BY <1>1, <1>2 DEF ItemsOf
<1> QED
  BY <1>4, <1>5 DEF p

LEMMA PullItems ==
    ASSUME NEW n \in Nat \ {0, 1}, NEW r \in Rings(n, Address), ~IsEmpty(r),
           Distinct(r)
    PROVE  /\ Distinct(PullItem(r))
           /\ PulledItem(r) \in ItemsOf(r)
           /\ ItemsOf(PullItem(r)) = ItemsOf(r) \ {PulledItem(r)}
<1> DEFINE p == PullItem(r)
<1>1. Length(r) \in Nat \ {0} /\ Length(p) = Length(r) - 1
  BY WalkLength, PullWalk
<1>2. \A k \in 1 .. Length(r) - 1 : p.data[Slot(p, k)] = r.data[Slot(r, k + 1)]
  BY <1>1, PullWalk
<1>3. PulledItem(r) = r.data[Slot(r, 1)]
  BY <1>1, WalkLength DEF PulledItem
<1> HIDE DEF p
<1>4. Distinct(p)
  BY <1>1, <1>2 DEF Distinct
<1>5. PulledItem(r) \in ItemsOf(r)
  BY <1>1, <1>3 DEF ItemsOf
<1>6. ItemsOf(p) = ItemsOf(r) \ {PulledItem(r)}
  <2>1. ASSUME NEW k \in 1 .. Length(p)
        PROVE  p.data[Slot(p, k)] \in ItemsOf(r) \ {PulledItem(r)}
    <3>1. k + 1 \in 1 .. Length(r) /\ 1 \in 1 .. Length(r) /\ k + 1 # 1
      BY <1>1
    <3> QED
      BY <1>1, <1>2, <1>3, <3>1 DEF ItemsOf, Distinct
  <2>2. ASSUME NEW k \in 1 .. Length(r), r.data[Slot(r, k)] # PulledItem(r)
        PROVE  r.data[Slot(r, k)] \in ItemsOf(p)
    <3>1. k - 1 \in 1 .. Length(p) /\ k = (k - 1) + 1
      BY <1>1, <1>3, <2>2
    <3> QED
      BY <1>1, <1>2, <3>1 DEF ItemsOf
  <2> QED
    BY <2>1, <2>2 DEF ItemsOf
<1> QED
  BY <1>4, <1>5, <1>6 DEF p

-----------------------------------------------------------------------------
\* What the two invariants say of the ring that still counts.
LiveOK ==
    /\ Live \in Rings(buf.num_item, Address)
    /\ Distinct(Live)
    /\ ItemsOf(Live) \subseteq Item
    /\ ItemsOf(Live) \intersect (held \union freed) = {}
    /\ held \union freed \union ItemsOf(Live) = Item

BufInv == TypeOK /\ ItemsConserved

LEMMA LiveProperties ==
    ASSUME BufInv
    PROVE  LiveOK /\ buf.num_item \in Nat \ {0, 1}
<1>1. /\ buf.num_item \in Nat \ {0, 1}
      /\ buf \in Rings(buf.num_item, Address)
      /\ itrhead \in 0 .. buf.num_item - 1
  BY DEF BufInv, TypeOK, Address
<1>2. Live \in Rings(buf.num_item, Address)
  BY <1>1 DEF Live, Rings
<1> QED
  BY <1>1, <1>2 DEF BufInv, TypeOK, ItemsConserved, LiveOK, Distinct, ItemsOf

LEMMA InitInv == Init => BufInv
<1> SUFFICES ASSUME Init PROVE BufInv
  OBVIOUS
<1>1. PICK n \in NumItems, m \in NMallocs : buf = InitBuf(n, m)
  BY DEF Init
<1>2. Slots(n) \in Nat \ {0, 1}
  BY InitSizes
<1>3. /\ buf \in Rings(Slots(n), Address)
      /\ buf.num_item = Slots(n)
      /\ buf.head = 0
      /\ \A k \in 1 .. Length(buf) : buf.data[Slot(buf, k)] = k /\ k \in Item
  BY <1>1, InitRing
<1>4. Live = buf
  BY DEF Init, Live
<1>5. TypeOK
  BY <1>2, <1>3, <1>4 DEF Init, TypeOK, Address
<1>6. ItemsOf(buf) \subseteq Item /\ Distinct(buf)
  BY <1>3 DEF ItemsOf, Distinct
<1>7. ItemsConserved
  BY <1>4, <1>6 DEF Init, ItemsConserved, Distinct
<1> QED
  BY <1>5, <1>7 DEF BufInv

\* Each operation replaces Live by what PushItem or PullItem makes of it and
\* moves the buffer it took between Live, held and freed.
LEMMA StepInv == BufInv /\ [Next]_vars => BufInv'
<1> SUFFICES ASSUME BufInv, [Next]_vars PROVE BufInv'
  OBVIOUS
<1> DEFINE n == buf.num_item
<1>1. LiveOK /\ n \in Nat \ {0, 1}
  BY LiveProperties
<1>2. /\ buf \in Rings(n, Address) /\ held \subseteq Item /\ freed \subseteq Item
      /\ open \in BOOLEAN /\ itrhead \in 0 .. n - 1 /\ ret \in Item \union {NULL}
      /\ held \intersect freed = {}
  BY DEF BufInv, TypeOK, ItemsConserved, Address
\* It is enough that the step leaves the ring a ring and Live in order.
<1>3. ASSUME /\ buf' \in Rings(n, Address) /\ held' \subseteq Item
             /\ freed' \subseteq Item /\ open' \in BOOLEAN
             /\ itrhead' \in 0 .. n - 1 /\ ret' \in Item \union {NULL}
             /\ held' \intersect freed' = {}
             /\ Distinct(Live')
             /\ ItemsOf(Live') \subseteq Item
             /\ ItemsOf(Live') \intersect (held' \union freed') = {}
             /\ held' \union freed' \union ItemsOf(Live') = Item
      PROVE  BufInv'
  <2>1. buf'.num_item = n
    BY <1>3 DEF Rings
  <2>2. TypeOK'
    BY <1>1, <1>3, <2>1 DEF TypeOK, Address, ItemsOf
  <2>3. ItemsConserved'
    BY <1>3 DEF ItemsConserved, Distinct
  <2> QED
    BY <2>2, <2>3 DEF BufInv
<1>4. ASSUME NEW item \in Item, Push(item)
      PROVE  BufInv'
  <2>1. CASE IsFull(buf)
    <3>1. UNCHANGED <<buf, held, freed, open, itrhead>> /\ ret' \in Item \union {NULL}
      BY <1>4, <2>1 DEF Push
    <3>2. Live' = Live
      BY <3>1 DEF Live
    <3> QED
      BY <1>1, <1>2, <1>3, <3>1, <3>2 DEF LiveOK
  <2>2. CASE ~IsFull(buf)
    <3>1. /\ open /\ open' /\ item \in held
          /\ buf' = PushItem(buf, item) /\ held' = held \ {item} /\ ret' = item
          /\ UNCHANGED <<freed, itrhead>>
      BY <1>4, <2>2 DEF Push
    <3>2. Live = buf /\ Live' = PushItem(buf, item)
      BY <3>1 DEF Live
    <3>3. item \in Address /\ item \notin ItemsOf(buf) /\ Distinct(buf)
      BY <1>1, <3>1, <3>2 DEF LiveOK, Address
    <3>4. PushItem(buf, item) \in Rings(n, Address)
      BY <1>1, <1>2, <2>2, <3>3, PushWalk
    <3>5. /\ Distinct(PushItem(buf, item))
          /\ ItemsOf(PushItem(buf, item)) = ItemsOf(buf) \union {item}
      BY <1>1, <1>2, <2>2, <3>3, PushItems
    <3> QED
      BY <1>1, <1>2, <1>3, <3>1, <3>2, <3>4, <3>5 DEF LiveOK
  <2> QED
    BY <2>1, <2>2
<1>5. ASSUME Pull
      PROVE  BufInv'
  <2>1. CASE IsEmpty(buf)
    <3>1. UNCHANGED <<buf, held, freed, open, itrhead>> /\ ret' \in Item \union {NULL}
      BY <1>5, <2>1 DEF Pull
    <3>2. Live' = Live
      BY <3>1 DEF Live
    <3> QED
      BY <1>1, <1>2, <1>3, <3>1, <3>2 DEF LiveOK
  <2>2. CASE ~IsEmpty(buf)
    <3> DEFINE item == PulledItem(buf)
    <3>1. /\ open /\ open'
          /\ buf' = PullItem(buf) /\ held' = held \union {item} /\ ret' = item
          /\ UNCHANGED <<freed, itrhead>>
      BY <1>5, <2>2 DEF Pull
    <3>2. Live = buf /\ Live' = PullItem(buf)
      BY <3>1 DEF Live
    <3>3. Distinct(buf)
      BY <1>1, <3>2 DEF LiveOK
    <3>4. PullItem(buf) \in Rings(n, Address)
      BY <1>1, <1>2, <2>2, PullWalk
    <3>5. /\ Distinct(PullItem(buf))
          /\ item \in ItemsOf(buf)
          /\ ItemsOf(PullItem(buf)) = ItemsOf(buf) \ {item}
      BY <1>1, <1>2, <2>2, <3>3, PullItems
    <3> QED
      BY <1>1, <1>2, <1>3, <3>1, <3>2, <3>4, <3>5 DEF LiveOK
  <2> QED
    BY <2>1, <2>2
<1>6. ASSUME ClearBuf
      PROVE  BufInv'
  <2>1. /\ open /\ open' = FALSE /\ itrhead' = buf.head
        /\ UNCHANGED <<buf, held, freed, ret>>
    BY <1>6 DEF ClearBuf
  <2>2. Live' = Live /\ buf.head \in 0 .. n - 1
    BY <1>2, <2>1 DEF Live, Rings
  <2> QED
    BY <1>1, <1>2, <1>3, <2>1, <2>2 DEF LiveOK
<1>7. ASSUME ClearStep
      PROVE  BufInv'
  <2> DEFINE item == PulledItem(Live)
  <2>1. /\ ~open /\ itrhead # buf.tail
        /\ freed' = freed \union {buf.data[itrhead]}
        /\ itrhead' = (itrhead + 1) % n
        /\ UNCHANGED <<buf, held, open, ret>>
    BY <1>7 DEF ClearStep
  <2>2. itrhead' = IF itrhead + 1 = n THEN 0 ELSE itrhead + 1
    BY <1>1, <1>2, <2>1
  <2>3. /\ Live = [buf EXCEPT !.head = itrhead]
        /\ Live' = [buf EXCEPT !.head = itrhead']
    BY <2>1 DEF Live
  <2>4. /\ Live.head = itrhead /\ Live.tail = buf.tail
        /\ Live.num_item = n /\ Live.data = buf.data
    BY <1>2, <2>3 DEF Rings
  <2>5. ~IsEmpty(Live) /\ item = buf.data[itrhead] /\ Live' = PullItem(Live)
    BY <1>2, <2>1, <2>2, <2>3, <2>4 DEF IsEmpty, PulledItem, PullItem, After, Rings
  <2>6. /\ Distinct(PullItem(Live))
        /\ item \in ItemsOf(Live)
        /\ ItemsOf(PullItem(Live)) = ItemsOf(Live) \ {item}
    BY <1>1, <2>5, PullItems DEF LiveOK
  <2>7. itrhead' \in 0 .. n - 1
    BY <1>1, <1>2, <2>2
  <2> QED
    BY <1>1, <1>2, <1>3, <2>1, <2>5, <2>6, <2>7 DEF LiveOK
<1>8. CASE UNCHANGED vars
  <2>1. UNCHANGED <<buf, held, freed, open, itrhead, ret>>
    BY <1>8 DEF vars
  <2>2. Live' = Live
    BY <2>1 DEF Live
  <2> QED
    BY <1>1, <1>2, <1>3, <2>1, <2>2 DEF LiveOK
<1> QED
  BY <1>4, <1>5, <1>6, <1>7, <1>8 DEF Next, Cleared

\* The ring's indices stay inside its slots, every slot between head and tail
\* holds a buffer, and no buffer is lost, doubled or freed twice: for every size
\* init_buf is called with and every number of buffers.
THEOREM BufArraySafety == Spec => [](TypeOK /\ ItemsConserved)
  BY InitInv, StepInv, PTL DEF Spec, BufInv

\* The indices of pull_item, push_item and the walk of clear_buf stay inside the
\* slots, and every slot between them holds a buffer, never NULL: for every size
\* and every number of buffers.
THEOREM BufArrayTypes == Spec => []TypeOK
  BY BufArraySafety, PTL

\* get_num_contained_items answers the length of every ring but the empty one.
THEOREM CountCorrect == Spec => []CountOfContained
<1>1. BufInv => CountOfContained
  <2> SUFFICES ASSUME BufInv PROVE CountOfContained
    OBVIOUS
  <2>1. /\ buf.num_item \in Nat \ {0, 1}
        /\ buf.head \in 0 .. buf.num_item - 1 /\ buf.tail \in 0 .. buf.num_item - 1
    BY DEF BufInv, TypeOK, Rings
  <2> QED
    BY <2>1 DEF CountOfContained, GetNumContainedItems, Length, IsEmpty
<1> QED
  BY <1>1, InitInv, StepInv, PTL DEF Spec

-----------------------------------------------------------------------------
\* The sequence the refinement reads is the walk of Live.
LEMMA QueueFacts ==
    ASSUME BufInv
    PROVE  /\ Contents(Live) \in Seq(Item)
           /\ Len(Contents(Live)) = Length(Live)
           /\ Length(Live) \in 0 .. buf.num_item - 1
           /\ {Contents(Live)[k] : k \in 1 .. Len(Contents(Live))} = ItemsOf(Live)
           /\ Contents(Live) = <<>> <=> IsEmpty(Live)
<1>1. LiveOK /\ buf.num_item \in Nat \ {0, 1}
  BY LiveProperties
<1>2. /\ Contents(Live) \in Seq(Address)
      /\ Len(Contents(Live)) = Length(Live)
      /\ \A k \in 1 .. Length(Live) : Contents(Live)[k] = Live.data[Slot(Live, k)]
  BY <1>1, ContentsSeq DEF LiveOK
<1>3. /\ Length(Live) \in 0 .. buf.num_item - 1
      /\ IsEmpty(Live) <=> Length(Live) = 0
  BY <1>1, WalkLength DEF LiveOK
<1>4. {Contents(Live)[k] : k \in 1 .. Len(Contents(Live))} = ItemsOf(Live)
  BY <1>2 DEF ItemsOf
<1>5. Contents(Live) \in Seq(Item)
  <2>1. \A k \in 1 .. Length(Live) : Live.data[Slot(Live, k)] \in Item
    BY <1>1 DEF LiveOK, ItemsOf
  <2>2. Length(Live) \in Nat
    BY <1>3
  <2> QED
    BY <2>1, <2>2 DEF Contents
<1>6. Contents(Live) = <<>> <=> Len(Contents(Live)) = 0
  BY <1>2
<1> QED
  BY <1>2, <1>3, <1>4, <1>5, <1>6

LEMMA InitFifo == Init => Fifo!Init
<1> SUFFICES ASSUME Init PROVE Fifo!Init
  OBVIOUS
<1>1. BufInv
  BY InitInv
<1>2. Live = buf /\ buf.num_item \in Nat \ {0, 1}
  BY <1>1 DEF Init, Live, BufInv, TypeOK
<1> QED
  BY <1>1, <1>2, QueueFacts DEF Init, Fifo!Init

\* A step of the ring is a step of the queue, or leaves the queue unchanged.
LEMMA StepFifo == BufInv /\ BufInv' /\ [Next]_vars => [Fifo!Next]_Fifo!vars
<1> SUFFICES ASSUME BufInv, BufInv', [Next]_vars
             PROVE  Fifo!Next \/ UNCHANGED Fifo!vars
  OBVIOUS
<1> DEFINE n == buf.num_item
           queue == Contents(Live)
           capacity == buf.num_item - 1
<1>1. LiveOK /\ n \in Nat \ {0, 1} /\ buf \in Rings(n, Address)
  BY LiveProperties DEF BufInv, TypeOK, Address
<1>2. /\ queue \in Seq(Item)
      /\ Len(queue) = Length(Live)
      /\ queue = <<>> <=> IsEmpty(Live)
  BY QueueFacts
<1>3. ASSUME NEW item \in Item, Push(item)
      PROVE  Fifo!Push(item)
  <2>1. /\ open /\ item \in held /\ Live = buf /\ UNCHANGED <<freed, open, itrhead>>
    BY <1>3 DEF Push, Live
  <2>2. IsFull(buf) <=> Length(buf) = n - 1
    BY <1>1, WalkLength
  <2>3. CASE IsFull(buf)
    <3>1. ret' = NULL /\ UNCHANGED <<buf, held>>
      BY <1>3, <2>3 DEF Push
    <3>2. Live' = Live
      BY <2>1, <3>1 DEF Live
    <3> QED
      BY <1>2, <2>1, <2>2, <2>3, <3>1, <3>2 DEF Fifo!Push
  <2>4. CASE ~IsFull(buf)
    <3>1. buf' = PushItem(buf, item) /\ held' = held \ {item} /\ ret' = item
      BY <1>3, <2>4 DEF Push
    <3>2. item \in Address /\ buf'.num_item = n /\ Live' = buf'
      <4>1. item \in Address
        BY DEF Address
      <4>2. buf' \in Rings(n, Address)
        BY <1>1, <2>4, <3>1, <4>1, PushWalk
      <4> QED
        BY <2>1, <4>1, <4>2 DEF Rings, Live
    <3>3. Contents(buf') = Append(Contents(buf), item)
      BY <1>1, <2>4, <3>1, <3>2, PushContents
    <3>4. Length(buf) < n - 1
      BY <1>1, <2>2, <2>4, WalkLength
    <3> QED
      BY <1>2, <2>1, <3>1, <3>2, <3>3, <3>4 DEF Fifo!Push
  <2> QED
    BY <2>3, <2>4
<1>4. ASSUME Pull
      PROVE  Fifo!Pull
  <2>1. /\ open /\ Live = buf /\ UNCHANGED <<freed, open, itrhead>>
    BY <1>4 DEF Pull, Live
  <2>2. CASE IsEmpty(buf)
    <3>1. ret' = NULL /\ UNCHANGED <<buf, held>>
      BY <1>4, <2>2 DEF Pull
    <3>2. Live' = Live
      BY <2>1, <3>1 DEF Live
    <3> QED
      BY <1>2, <2>1, <2>2, <3>1, <3>2 DEF Fifo!Pull
  <2>3. CASE ~IsEmpty(buf)
    <3>1. /\ buf' = PullItem(buf) /\ held' = held \union {PulledItem(buf)}
          /\ ret' = PulledItem(buf)
      BY <1>4, <2>3 DEF Pull
    <3>2. buf'.num_item = n /\ Live' = buf'
      BY <1>1, <2>1, <2>3, <3>1, PullWalk DEF Rings, Live
    <3>3. /\ PulledItem(buf) = Head(Contents(buf))
          /\ Contents(buf') = Tail(Contents(buf))
      BY <1>1, <2>3, <3>1, PullContents
    <3> QED
      BY <1>2, <2>1, <2>3, <3>1, <3>2, <3>3 DEF Fifo!Pull
  <2> QED
    BY <2>2, <2>3
<1>5. ASSUME ClearBuf
      PROVE  Fifo!Close
  <2>1. /\ open /\ open' = FALSE /\ itrhead' = buf.head
        /\ UNCHANGED <<buf, held, freed, ret>>
    BY <1>5 DEF ClearBuf
  <2>2. Live' = Live
    BY <1>1, <2>1 DEF Live, Rings
  <2> QED
    BY <2>1, <2>2 DEF Fifo!Close
<1>6. ASSUME ClearStep
      PROVE  Fifo!FreeOldest
  <2>1. /\ ~open /\ itrhead # buf.tail
        /\ freed' = freed \union {buf.data[itrhead]}
        /\ itrhead' = (itrhead + 1) % n
        /\ UNCHANGED <<buf, held, open, ret>>
    BY <1>6 DEF ClearStep
  <2>2. itrhead \in 0 .. n - 1
    BY DEF BufInv, TypeOK
  <2>3. itrhead' = IF itrhead + 1 = n THEN 0 ELSE itrhead + 1
    BY <1>1, <2>1, <2>2
  <2>4. /\ Live = [buf EXCEPT !.head = itrhead]
        /\ Live' = [buf EXCEPT !.head = itrhead']
    BY <2>1 DEF Live
  <2>5. /\ Live.head = itrhead /\ Live.tail = buf.tail
        /\ Live.num_item = n /\ Live.data = buf.data
    BY <1>1, <2>4 DEF Rings
  <2>6. /\ ~IsEmpty(Live)
        /\ PulledItem(Live) = buf.data[itrhead]
        /\ Live' = PullItem(Live)
    BY <1>1, <2>1, <2>3, <2>4, <2>5 DEF IsEmpty, PulledItem, PullItem, After, Rings
  <2>7. /\ PulledItem(Live) = Head(queue)
        /\ Contents(Live') = Tail(queue)
    BY <1>1, <2>6, PullContents DEF LiveOK
  <2> QED
    BY <1>2, <2>1, <2>6, <2>7 DEF Fifo!FreeOldest
<1>7. CASE UNCHANGED vars
  BY <1>7 DEF vars, Fifo!vars, Live
<1> QED
  BY <1>3, <1>4, <1>5, <1>6, <1>7 DEF Next, Cleared, Fifo!Next

\* The circular queue implements the bounded first-in first-out queue, for
\* every size and every number of buffers: order is kept across every wrap, a
\* push is refused only by a full queue and a pull only by an empty one, and
\* clear_buf frees exactly what is left, oldest first.
THEOREM RingImplementsFifo == Spec => ImplementsFifo
<1>1. BufInv /\ [Next]_vars => BufInv'
  BY StepInv
<1> QED
  BY InitInv, <1>1, InitFifo, StepFifo, PTL DEF Spec, ImplementsFifo, Fifo!Spec
=============================================================================
