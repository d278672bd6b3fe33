--------------------------- MODULE PoolBuffersProofs ---------------------------
(***************************************************************************)
(* The buffers in the memory pool, for every page size, alignment and      *)
(* width of the capacity.  The first part is about rounded sizes, the      *)
(* second about what an allocation and a write do to a pool, the third     *)
(* shows for each operation that it keeps the invariant and what becomes   *)
(* of the strings that the buffers hold.                                   *)
(***************************************************************************)
EXTENDS PoolBuffers, SequenceTheorems, TLAPS

\* Rounding up to a multiple of a adds less than a.
LEMMA Division ==
  ASSUME NEW n \in Nat, NEW a \in Nat \ {0}
  PROVE  /\ (n + a - 1) \div a \in Nat
         /\ n <= ((n + a - 1) \div a) * a
         /\ ((n + a - 1) \div a) * a <= n + a - 1
<1> DEFINE x == n + a - 1
           q == x \div a
<1>1. x \in Nat /\ q \in Int
  BY SMT
<1>2. x = a * q + (x % a) /\ x % a \in 0 .. a - 1
  BY <1>1, SMT
<1>3. q >= 0
  BY <1>1, <1>2, SMT
<1>4. a * q <= x /\ x < a * q + a
  BY <1>1, <1>2, SMT
<1> QED
  BY <1>1, <1>3, <1>4, SMT

\* bfdev_align_high_adj never makes a size smaller, and adds less than a.
LEMMA AlignLemma ==
  ASSUME NEW n \in Nat, NEW a \in Nat \ {0}
  PROVE  AlignHigh(n, a) \in Nat /\ n <= AlignHigh(n, a) /\ AlignHigh(n, a) <= n + a - 1
BY Division, SMT DEF AlignHigh

\* A piece that is shorter than a page still fits one when it is rounded.
LEMMA CutLemma ==
  ASSUME NEW n \in Nat
  PROVE  Cut(n) \in Nat /\ n <= Cut(n) /\ (n < PageSize => Cut(n) <= PageSize)
<1>1. Cut(n) \in Nat /\ n <= Cut(n)
  BY PoolAssumption, AlignLemma DEF Cut
<1>2. ASSUME n < PageSize PROVE Cut(n) <= PageSize
  <2> DEFINE a == AlignSize
             k == PageSize \div a
             q == (n + a - 1) \div a
  <2>1. k \in Int /\ PageSize = a * k
    BY PoolAssumption, SMT
  <2>2. q \in Nat /\ q * a <= n + a - 1
    BY PoolAssumption, Division
  <2> HIDE DEF k, q
  <2>3. ASSUME q > k PROVE FALSE
    <3>1. q * a >= (k + 1) * a
      BY <2>1, <2>2, <2>3, PoolAssumption, SMT
    <3>2. (k + 1) * a = a * k + a
      BY <2>1, <2>2, <2>3, PoolAssumption, SMT
    <3> QED
      BY <3>1, <3>2, <2>1, <2>2, <1>2, PoolAssumption, SMT
  <2>4. q * a <= k * a
    BY <2>1, <2>2, <2>3, PoolAssumption, SMT
  <2> QED
    BY <2>1, <2>2, <2>4, PoolAssumption, SMT DEF Cut, AlignHigh, q
<1> QED
  BY <1>1, <1>2

\* A value below the width does not wrap around.
LEMMA SmallModulo ==
  ASSUME NEW n \in Nat, NEW w \in Nat, n < w
  PROVE  n % w = n
OBVIOUS

-----------------------------------------------------------------------------
AreaType == [m : Nat, from : Nat, size : Nat]

Pool(cache, last, block, mem, heap) ==
  [cache |-> cache, last |-> last, block |-> block, mem |-> mem, heap |-> heap]

\* The first page of a pool is a whole page.
PoolOK(p) ==
  /\ p = Pool(p.cache, p.last, p.block, p.mem, p.heap)
  /\ p.cache \in Seq(Nat) /\ p.last \in Nat /\ p.block \in Seq(Nat)
  /\ p.mem \in Seq(Seq(Byte)) /\ p.heap \in Int
  /\ p.cache # <<>> =>
       /\ Head(p.cache) \in 1 .. Len(p.mem)
       /\ Len(p.mem[Head(p.cache)]) = PageSize
       /\ p.last <= PageSize

\* The area a lies in a page or block, and in the part of the first page that
\* was handed out.
Inside(p, a) ==
  /\ a.m \in 1 .. Len(p.mem)
  /\ a.from + a.size <= Len(p.mem[a.m])
  /\ p.cache # <<>> /\ a.m = Head(p.cache) => a.from + a.size <= p.last

Placed(p, a) == a = NoArea \/ Inside(p, a)

StaysIn(p, q) == \A x \in AreaType : Inside(p, x) => Inside(q, x)

Owed(p) == p.heap - 2 * Len(p.cache) - 2 * Len(p.block)

\* Every page and block of p is in q as it was.
Grown(p, q) ==
  /\ Len(p.mem) <= Len(q.mem)
  /\ \A m \in 1 .. Len(p.mem) : q.mem[m] = p.mem[m]

\* Two more allocations and one more page, or one more block, owe the same.
LEMMA OweSame ==
  ASSUME NEW n \in Int, NEW c \in Nat, NEW b \in Nat
  PROVE  /\ (n + 2) - 2 * (c + 1) - 2 * b = n - 2 * c - 2 * b
         /\ (n + 2) - 2 * c - 2 * (b + 1) = n - 2 * c - 2 * b
OBVIOUS

\* The lengths of the lists of a pool are numbers, and its pages are strings.
LEMMA PoolLens ==
  ASSUME NEW p, PoolOK(p)
  PROVE  /\ Len(p.cache) \in Nat /\ Len(p.block) \in Nat /\ Len(p.mem) \in Nat
         /\ \A m \in 1 .. Len(p.mem) : p.mem[m] \in Seq(Byte) /\ Len(p.mem[m]) \in Nat
         /\ p = Pool(p.cache, p.last, p.block, p.mem, p.heap)
<1>1. p.cache \in Seq(Nat) /\ p.block \in Seq(Nat) /\ p.mem \in Seq(Seq(Byte))
  BY DEF PoolOK
<1>2. Len(p.cache) \in Nat /\ Len(p.block) \in Nat /\ Len(p.mem) \in Nat
  BY <1>1, LenProperties
<1>3. ASSUME NEW m \in 1 .. Len(p.mem) PROVE p.mem[m] \in Seq(Byte) /\ Len(p.mem[m]) \in Nat
  BY <1>1, <1>2, LenProperties
<1> QED
  BY <1>2, <1>3 DEF PoolOK

\* A fresh page has the length that was asked for.
LEMMA FreshBytes ==
  ASSUME NEW n \in Nat
  PROVE  Fresh(n) \in Seq(Byte) /\ Len(Fresh(n)) = n
<1>1. \A i \in 1 .. n : Junk \in Byte
  BY DEF Byte
<1>2. Fresh(n) \in Seq(Byte)
  BY <1>1, IsASeq DEF Fresh
<1> QED
  BY <1>2 DEF Fresh

\* A new page or block in front of a list.
LEMMA Front ==
  ASSUME NEW m \in Nat, NEW list \in Seq(Nat)
  PROVE  /\ <<m>> \o list \in Seq(Nat)
         /\ Len(<<m>> \o list) = Len(list) + 1
         /\ <<m>> \o list # <<>>
         /\ Head(<<m>> \o list) = m
<1>1. <<m>> \in Seq(Nat) /\ Len(<<m>>) = 1
  OBVIOUS
<1>2. /\ <<m>> \o list \in Seq(Nat)
      /\ Len(<<m>> \o list) = Len(list) + 1
      /\ (<<m>> \o list)[1] = m
  BY <1>1, ConcatProperties
<1> QED
  BY <1>2, HeadTailProperties

\* Allocating a page keeps the pool whole and the areas where they are.
LEMMA AddPageOK ==
  ASSUME NEW p, PoolOK(p)
  PROVE  LET q == AddPage(p)
         IN  /\ PoolOK(q) /\ Grown(p, q) /\ Owed(q) = Owed(p)
             /\ q.cache # <<>> /\ q.last = 0 /\ Head(q.cache) = Len(p.mem) + 1
             /\ \A x \in AreaType : Inside(p, x) => Inside(q, x)
<1> DEFINE q    == AddPage(p)
           page == Fresh(PageSize)
           m    == Len(p.mem) + 1
<1>1. page \in Seq(Byte) /\ Len(page) = PageSize /\ m \in Nat
  BY FreshBytes, PoolAssumption, PoolLens
<1>2. /\ q.cache = <<m>> \o p.cache /\ q.last = 0 /\ q.block = p.block
      /\ q.mem = Append(p.mem, page) /\ q.heap = p.heap + 2
      /\ q = Pool(q.cache, q.last, q.block, q.mem, q.heap)
  <2>1. q = [p EXCEPT !.cache = <<m>> \o p.cache, !.last = 0, !.mem = Append(p.mem, page),
                      !.heap = p.heap + 2]
    BY DEF AddPage
  <2>2. p = [cache |-> p.cache, last |-> p.last, block |-> p.block, mem |-> p.mem, heap |-> p.heap]
    BY PoolLens DEF Pool
  <2> HIDE DEF q, m, page
  <2> QED
    BY <2>1, <2>2 DEF Pool
<1> HIDE DEF page, q
<1>3. /\ q.mem \in Seq(Seq(Byte)) /\ Len(q.mem) = m
      /\ q.mem[m] = page
      /\ \A i \in 1 .. Len(p.mem) : q.mem[i] = p.mem[i]
  BY <1>1, <1>2, AppendProperties DEF PoolOK
<1>4. /\ q.cache \in Seq(Nat) /\ Len(q.cache) = Len(p.cache) + 1
      /\ q.cache # <<>> /\ Head(q.cache) = m
  BY <1>1, <1>2, Front DEF PoolOK
<1>5. PoolOK(q)
  BY <1>1, <1>2, <1>3, <1>4, PoolAssumption DEF PoolOK
<1>6. Grown(p, q) /\ Owed(q) = Owed(p)
  <2>1. Len(p.cache) \in Nat /\ Len(p.block) \in Nat /\ Len(p.mem) \in Nat /\ p.heap \in Int
    BY PoolLens DEF PoolOK
  <2>2. Grown(p, q)
    BY <1>3, <2>1 DEF Grown
  <2>3. Owed(q) = Owed(p)
    <3>1. q.heap = p.heap + 2 /\ Len(q.cache) = Len(p.cache) + 1 /\ Len(q.block) = Len(p.block)
      BY <1>2, <1>4
    <3>2. (p.heap + 2) - 2 * (Len(p.cache) + 1) - 2 * Len(p.block)
             = p.heap - 2 * Len(p.cache) - 2 * Len(p.block)
      BY <2>1, OweSame
    <3> QED
      BY <3>1, <3>2, Zenon DEF Owed
  <2> QED
    BY <2>2, <2>3
<1>7. ASSUME NEW x \in AreaType, Inside(p, x) PROVE Inside(q, x)
  <2>1. Len(p.mem) \in Nat
    BY PoolLens
  <2>2. x.m \in 1 .. Len(p.mem) /\ x.from + x.size <= Len(p.mem[x.m])
    BY <1>7 DEF Inside
  <2>3. x.m \in 1 .. Len(q.mem) /\ q.mem[x.m] = p.mem[x.m] /\ x.m # Head(q.cache)
    BY <1>3, <1>4, <2>1, <2>2
  <2> QED
    BY <2>2, <2>3 DEF Inside
<1> QED
  BY <1>2, <1>4, <1>5, <1>6, <1>7 DEF q

\* An allocation keeps a pool sound, hits no assertion, and hands out an area
\* that lies in the pool and overlaps none that was there before.  The page or
\* block it lies in is less than a page longer than what was asked for.
LEMMA PallocOK ==
  ASSUME NEW p, PoolOK(p), NEW n \in Nat
  PROVE  LET q == Palloc(p, n)
             a == PallocArea(p, n)
         IN  /\ PoolOK(q) /\ Grown(p, q) /\ Owed(q) = Owed(p)
             /\ ~HitsBug(p, n)
             /\ a \in AreaType /\ a.size = n /\ Inside(q, a)
             /\ Len(q.mem[a.m]) <= n + PageSize
             /\ \A x \in AreaType : Inside(p, x) =>
                  Inside(q, x) /\ ~Overlap(x, a) /\ ~Overlap(a, x)
<1> DEFINE q == Palloc(p, n)
           a == PallocArea(p, n)
<1>1. CASE n < PageSize
  <2> DEFINE r == FirstPage(p, n)
             c == Cut(n)
  <2>1. c \in Nat /\ n <= c /\ c <= PageSize
    BY <1>1, CutLemma
  <2>2. /\ PoolOK(r) /\ Grown(p, r) /\ Owed(r) = Owed(p)
        /\ r.cache # <<>> /\ r.last + c <= PageSize
        /\ \A x \in AreaType : Inside(p, x) => Inside(r, x)
    <3>1. CASE FitsPage(p, n)
      BY <3>1 DEF FirstPage, FitsPage, Grown, PoolOK
    <3>2. CASE ~FitsPage(p, n)
      <4>1. r = AddPage(p)
        BY <3>2 DEF FirstPage
      <4> HIDE DEF c, r
      <4> QED
        BY <2>1, <4>1, AddPageOK
    <3> QED
      BY <3>1, <3>2
  <2>3. q = [r EXCEPT !.last = r.last + c] /\ a = [m |-> Head(r.cache), from |-> r.last, size |-> n]
    BY <1>1 DEF Palloc, PallocArea, Area
  <2>4. ~HitsBug(p, n)
    <3>1. HitsBug(p, n) => r.last + c > PageSize
      BY DEF HitsBug
    <3> HIDE DEF r, c
    <3>2. r.last \in Nat
      BY <2>2 DEF PoolOK
    <3> QED
      BY <3>1, <3>2, <2>1, <2>2, PoolAssumption
  <2> HIDE DEF r, c, q, a
  <2>50. /\ Len(r.cache) \in Nat /\ Len(r.block) \in Nat /\ Len(r.mem) \in Nat
         /\ r.heap \in Int /\ r.last \in Nat
         /\ Head(r.cache) \in 1 .. Len(r.mem) /\ Len(r.mem[Head(r.cache)]) = PageSize
    BY <2>2, PoolLens DEF PoolOK
  <2>5. /\ q.cache = r.cache /\ q.last = r.last + c /\ q.block = r.block
        /\ q.mem = r.mem /\ q.heap = r.heap
        /\ q = Pool(q.cache, q.last, q.block, q.mem, q.heap)
    BY <2>1, <2>2, <2>3 DEF PoolOK, Pool
  <2>6. PoolOK(q) /\ Grown(p, q) /\ Owed(q) = Owed(p)
    <3>1. r.last + c \in Nat /\ r.last + c <= PageSize
      BY <2>1, <2>2, <2>50
    <3>2. PoolOK(q)
      BY <2>2, <2>5, <3>1 DEF PoolOK
    <3>3. Grown(p, q) /\ Owed(q) = Owed(p)
      BY <2>2, <2>5 DEF Grown, Owed
    <3> QED
      BY <3>2, <3>3
  <2>7. a \in AreaType /\ a.size = n /\ Inside(q, a) /\ Len(q.mem[a.m]) <= n + PageSize
    <3>1. Head(r.cache) \in Nat
      BY <2>50
    <3>2. a.m = Head(r.cache) /\ a.from = r.last /\ a.size = n
      BY <2>3
    <3>3. a \in AreaType
      BY <2>3, <2>50, <3>1 DEF AreaType
    <3>4. Len(q.mem[a.m]) = PageSize /\ a.m \in 1 .. Len(q.mem)
      BY <2>5, <2>50, <3>2
    <3>6. PageSize <= n + PageSize
      BY PoolAssumption
    <3>5. a.from + a.size <= r.last + c /\ a.from + a.size <= PageSize
      BY <2>1, <2>2, <2>50, <3>2, PoolAssumption
    <3> QED
      BY <2>5, <3>2, <3>3, <3>4, <3>5, <3>6 DEF Inside
  <2>8. ASSUME NEW x \in AreaType, Inside(p, x)
        PROVE  Inside(q, x) /\ ~Overlap(x, a) /\ ~Overlap(a, x)
    <3>1. Inside(r, x)
      BY <2>2, <2>8
    <3> QED
      BY <3>1, <2>1, <2>2, <2>3, <2>5 DEF Inside, Overlap, AreaType, PoolOK
  <2> QED
    BY <2>4, <2>6, <2>7, <2>8 DEF q, a
<1>2. CASE ~(n < PageSize)
  <2> DEFINE k     == AlignHigh(n, PageSize)
             block == Fresh(k)
             m     == Len(p.mem) + 1
  <2>1. k \in Nat /\ n <= k /\ k <= n + PageSize /\ m \in Nat
    <3>1. m \in Nat
      BY PoolLens
    <3>2. k \in Nat /\ n <= k /\ k <= n + PageSize - 1
      BY PoolAssumption, AlignLemma
    <3> HIDE DEF k, m
    <3> QED
      BY <3>1, <3>2, PoolAssumption
  <2>2. block \in Seq(Byte) /\ Len(block) = k
    BY <2>1, FreshBytes
  <2>3. /\ q.cache = p.cache /\ q.last = p.last /\ q.block = <<m>> \o p.block
        /\ q.mem = Append(p.mem, block) /\ q.heap = p.heap + 2
        /\ q = Pool(q.cache, q.last, q.block, q.mem, q.heap)
        /\ a = [m |-> m, from |-> 0, size |-> n]
    BY <1>2 DEF Palloc, PallocArea, AddBlock, Area, PoolOK, Pool
  <2> HIDE DEF k, block, q, a
  <2>4. /\ q.mem \in Seq(Seq(Byte)) /\ Len(q.mem) = m
        /\ q.mem[m] = block
        /\ \A i \in 1 .. Len(p.mem) : q.mem[i] = p.mem[i]
    BY <2>2, <2>3, AppendProperties DEF PoolOK
  <2>5. q.block \in Seq(Nat) /\ Len(q.block) = Len(p.block) + 1
    BY <2>1, <2>3, Front DEF PoolOK
  <2>6. PoolOK(q)
    <3>1. Len(p.mem) \in Nat /\ p.heap \in Int /\ p.last \in Nat /\ p.cache \in Seq(Nat)
      BY PoolLens DEF PoolOK
    <3>2. q.heap \in Int /\ q.last \in Nat /\ q.cache \in Seq(Nat)
      BY <2>3, <3>1
    <3>3. ASSUME q.cache # <<>>
          PROVE  /\ Head(q.cache) \in 1 .. Len(q.mem)
                 /\ Len(q.mem[Head(q.cache)]) = PageSize
                 /\ q.last <= PageSize
      <4>1. /\ Head(p.cache) \in 1 .. Len(p.mem)
            /\ Len(p.mem[Head(p.cache)]) = PageSize /\ p.last <= PageSize
        BY <2>3, <3>3 DEF PoolOK
      <4>2. Head(p.cache) \in 1 .. m
        BY <3>1, <4>1
      <4> HIDE DEF m
      <4> QED
        BY <2>3, <2>4, <4>1, <4>2
    <3> QED
      BY <2>3, <2>4, <2>5, <3>2, <3>3 DEF PoolOK
  <2>7. Grown(p, q) /\ Owed(q) = Owed(p)
    <3>1. Len(p.cache) \in Nat /\ Len(p.block) \in Nat /\ Len(p.mem) \in Nat /\ p.heap \in Int
      BY PoolLens DEF PoolOK
    <3>2. Grown(p, q)
      BY <2>4, <3>1 DEF Grown
    <3>3. Owed(q) = Owed(p)
      <4>1. q.heap = p.heap + 2 /\ Len(q.cache) = Len(p.cache) /\ Len(q.block) = Len(p.block) + 1
        BY <2>3, <2>5
      <4>2. (p.heap + 2) - 2 * Len(p.cache) - 2 * (Len(p.block) + 1)
               = p.heap - 2 * Len(p.cache) - 2 * Len(p.block)
        BY <3>1, OweSame
      <4> QED
        BY <4>1, <4>2, Zenon DEF Owed
    <3> QED
      BY <3>2, <3>3
  <2>8. ~HitsBug(p, n)
    BY <1>2 DEF HitsBug
  <2>9. a \in AreaType /\ a.size = n /\ Inside(q, a) /\ Len(q.mem[a.m]) <= n + PageSize
    <3>1. a.m = m /\ a.from = 0 /\ a.size = n
      BY <2>3
    <3>2. a \in AreaType
      BY <2>1, <2>3 DEF AreaType
    <3>3. Len(q.mem[a.m]) = k /\ a.m \in 1 .. Len(q.mem)
      <4>1. Len(p.mem) \in Nat
        BY PoolLens
      <4> QED
        BY <2>2, <2>4, <3>1, <4>1
    <3>4. p.cache # <<>> => a.m # Head(p.cache)
      <4>1. p.cache # <<>> => Head(p.cache) \in 1 .. Len(p.mem)
        BY DEF PoolOK
      <4>2. Len(p.mem) \in Nat
        BY PoolLens
      <4> QED
        BY <3>1, <4>1, <4>2
    <3> QED
      BY <2>1, <2>3, <3>1, <3>2, <3>3, <3>4 DEF Inside
  <2>10. ASSUME NEW x \in AreaType, Inside(p, x)
         PROVE  Inside(q, x) /\ ~Overlap(x, a) /\ ~Overlap(a, x)
    <3>1. Len(p.mem) \in Nat
      BY PoolLens
    <3>2. x.m \in 1 .. Len(p.mem) /\ x.from + x.size <= Len(p.mem[x.m])
      BY <2>10 DEF Inside
    <3>3. x.m \in 1 .. Len(q.mem) /\ q.mem[x.m] = p.mem[x.m] /\ x.m # m
      BY <2>4, <3>1, <3>2
    <3>4. Inside(q, x)
      BY <2>3, <2>10, <3>2, <3>3 DEF Inside
    <3> QED
      BY <2>3, <3>3, <3>4 DEF Overlap
  <2> QED
    BY <2>6, <2>7, <2>8, <2>9, <2>10 DEF q, a
<1> QED
  BY <1>1, <1>2

-----------------------------------------------------------------------------
\* Writing into a page keeps its length.
LEMMA PatchedOK ==
  ASSUME NEW page \in Seq(Byte), NEW k \in Nat, NEW s \in Seq(Byte)
  PROVE  /\ Patched(page, k, s) \in Seq(Byte)
         /\ Len(Patched(page, k, s)) = Len(page)
         /\ \A i \in 1 .. Len(page) :
              Patched(page, k, s)[i] = IF i - k \in 1 .. Len(s) THEN s[i - k] ELSE page[i]
<1>1. Len(page) \in Nat /\ Len(s) \in Nat
  BY LenProperties
<1>2. \A i \in 1 .. Len(page) : (IF i - k \in 1 .. Len(s) THEN s[i - k] ELSE page[i]) \in Byte
  BY <1>1
<1>3. Patched(page, k, s) \in Seq(Byte)
  BY <1>1, <1>2, IsASeq DEF Patched
<1> QED
  BY <1>1, <1>3 DEF Patched

\* n bytes are read from the offset o of the area x; the bytes s are written to
\* the offset o of the area a, which turns the pool p into q.
Reads(p, x, o, n) ==
  /\ PoolOK(p) /\ x \in AreaType /\ Inside(p, x)
  /\ o \in Nat /\ n \in Nat /\ o + n <= x.size

Writes(p, a, o, s, q) ==
  /\ PoolOK(p) /\ a \in AreaType /\ Inside(p, a)
  /\ o \in Nat /\ s \in Seq(Byte) /\ o + Len(s) <= a.size
  /\ q = [p EXCEPT !.mem = Written(p.mem, a, o, s)]

\* Writing into an area that lies in the pool keeps the pool whole and every
\* area where it is, and does not leave the page or block.
LEMMA WrittenOK ==
  ASSUME NEW p, NEW a, NEW o, NEW s, NEW q, Writes(p, a, o, s, q)
  PROVE  /\ PoolOK(q) /\ Owed(q) = Owed(p)
         /\ q.mem = Written(p.mem, a, o, s)
         /\ StaysIn(p, q)
         /\ ~Overruns(p.mem, a, o, Len(s))
<1> /\ PoolOK(p) /\ a \in AreaType /\ Inside(p, a)
    /\ o \in Nat /\ s \in Seq(Byte) /\ o + Len(s) <= a.size
  BY DEF Writes
<1> DEFINE mem == p.mem
           w   == Written(mem, a, o, s)
<1>0. q = [p EXCEPT !.mem = w]
  BY DEF Writes
<1>1. mem \in Seq(Seq(Byte)) /\ a.m \in 1 .. Len(mem)
  BY DEF PoolOK, Inside
<1>2. /\ w \in Seq(Seq(Byte)) /\ Len(w) = Len(mem)
      /\ \A m \in 1 .. Len(mem) : Len(w[m]) = Len(mem[m])
  <2> DEFINE new == Patched(mem[a.m], a.from + o, s)
  <2>1. mem[a.m] \in Seq(Byte) /\ a.from + o \in Nat
    BY <1>1 DEF AreaType
  <2>2. new \in Seq(Byte) /\ Len(new) = Len(mem[a.m])
    BY <2>1, PatchedOK
  <2>3. w = [mem EXCEPT ![a.m] = new]
    BY DEF Written
  <2> HIDE DEF mem, w, new
  <2>4. /\ w \in Seq(Seq(Byte)) /\ Len(w) = Len(mem)
        /\ \A j \in 1 .. Len(mem) : w[j] = IF j = a.m THEN new ELSE mem[j]
    BY <1>1, <2>2, <2>3, ExceptSeq
  <2> QED
    BY <2>2, <2>4
<1> HIDE DEF w
<1>3. p = [cache |-> p.cache, last |-> p.last, block |-> p.block, mem |-> p.mem, heap |-> p.heap]
  BY PoolLens DEF Pool
<1>4. /\ q.cache = p.cache /\ q.last = p.last /\ q.block = p.block /\ q.mem = w /\ q.heap = p.heap
      /\ q = Pool(q.cache, q.last, q.block, q.mem, q.heap)
  BY <1>0, <1>3 DEF Pool
<1>5. PoolOK(q)
  <2>1. /\ p.cache \in Seq(Nat) /\ p.last \in Nat /\ p.block \in Seq(Nat) /\ p.heap \in Int
        /\ p.cache # <<>> => /\ Head(p.cache) \in 1 .. Len(mem)
                             /\ Len(mem[Head(p.cache)]) = PageSize /\ p.last <= PageSize
    BY DEF PoolOK
  <2> HIDE DEF mem
  <2> QED
    BY <1>2, <1>4, <2>1 DEF PoolOK
<1>6. Owed(q) = Owed(p)
  BY <1>4 DEF Owed
<1>7. ASSUME NEW x \in AreaType, Inside(p, x) PROVE Inside(q, x)
  <2>1. /\ x.m \in 1 .. Len(mem) /\ x.from + x.size <= Len(mem[x.m])
        /\ p.cache # <<>> /\ x.m = Head(p.cache) => x.from + x.size <= p.last
    BY <1>7 DEF Inside
  <2> HIDE DEF mem
  <2> QED
    BY <1>2, <1>4, <2>1 DEF Inside
<1>8. ~Overruns(p.mem, a, o, Len(s))
  <2>1. Len(p.mem[a.m]) \in Nat /\ Len(s) \in Nat
    BY <1>1, PoolLens
  <2>2. a.from \in Nat /\ a.size \in Nat
    BY DEF AreaType
  <2>3. a.from + o + Len(s) <= a.from + a.size
    BY <2>1, <2>2
  <2> QED
    BY <2>1, <2>2, <2>3 DEF Overruns, Inside
<1> QED
  BY <1>4, <1>5, <1>6, <1>7, <1>8 DEF w, StaysIn

\* What is read from an area.
LEMMA BytesShape ==
  ASSUME NEW p, NEW x, NEW o, NEW n, Reads(p, x, o, n)
  PROVE  /\ Bytes(p.mem, x, o, n) \in Seq(Byte)
         /\ Len(Bytes(p.mem, x, o, n)) = n
         /\ \A i \in 1 .. n : /\ x.from + o + i \in 1 .. Len(p.mem[x.m])
                              /\ Bytes(p.mem, x, o, n)[i] = p.mem[x.m][x.from + o + i]
<1> /\ PoolOK(p) /\ x \in AreaType /\ Inside(p, x)
    /\ o \in Nat /\ n \in Nat /\ o + n <= x.size
  BY DEF Reads
<1>1. /\ x.m \in 1 .. Len(p.mem) /\ p.mem[x.m] \in Seq(Byte) /\ Len(p.mem[x.m]) \in Nat
      /\ x.from + x.size <= Len(p.mem[x.m])
      /\ x.from \in Nat /\ x.size \in Nat
  BY PoolLens DEF Inside, AreaType
<1>2. \A i \in 1 .. n : x.from + o + i \in 1 .. Len(p.mem[x.m])
  <2>1. /\ Len(p.mem[x.m]) \in Nat /\ x.from \in Nat /\ x.size \in Nat
        /\ x.from + x.size <= Len(p.mem[x.m])
    BY <1>1
  <2>2. \A f, z, l \in Nat : f + z <= l /\ o + n <= z => \A i \in 1 .. n : f + o + i \in 1 .. l
    OBVIOUS
  <2> QED
    BY <2>1, <2>2
<1>3. \A i \in 1 .. n : p.mem[x.m][x.from + o + i] \in Byte
  <2>1. \A j \in 1 .. Len(p.mem[x.m]) : p.mem[x.m][j] \in Byte
    BY <1>1
  <2> QED
    BY <1>2, <2>1
<1>4. Bytes(p.mem, x, o, n) \in Seq(Byte)
  BY <1>3, IsASeq DEF Bytes
<1> QED
  BY <1>2, <1>4 DEF Bytes

\* An area reads the same in a pool that has grown.
LEMMA BytesGrown ==
  ASSUME NEW p, PoolOK(p), NEW q, Grown(p, q), NEW x \in AreaType, Inside(p, x),
         NEW o, NEW n
  PROVE  Bytes(q.mem, x, o, n) = Bytes(p.mem, x, o, n)
<1>1. q.mem[x.m] = p.mem[x.m]
  BY DEF Grown, Inside
<1> QED
  BY <1>1 DEF Bytes

\* Writing into one area is not seen in another.
LEMMA Apart ==
  ASSUME NEW af \in Nat, NEW az \in Nat, NEW xf \in Nat, NEW xz \in Nat,
         NEW o \in Nat, NEW l \in Nat, NEW i \in Nat, NEW n \in Nat,
         o + l <= az, i + n <= xz, NEW k \in 1 .. n,
         (xf + i + k) - (af + o) \in 1 .. l
  PROVE  af < xf + xz /\ xf < af + az
<1>1. /\ (xf + i + k) - (af + o) >= 1 /\ (xf + i + k) - (af + o) <= l
      /\ k \in Int /\ 1 <= k /\ k <= n
  OBVIOUS
<1>2. af < xf + xz
  BY <1>1
<1>3. xf < af + az
  BY <1>1
<1> QED
  BY <1>2, <1>3

\* A write does not change what is read of an area that does not overlap.
LEMMA BytesOther ==
  ASSUME NEW p, NEW a, NEW o, NEW s, NEW q, Writes(p, a, o, s, q),
         NEW x, NEW i, NEW n, Reads(p, x, i, n), ~Overlap(x, a)
  PROVE  Bytes(q.mem, x, i, n) = Bytes(p.mem, x, i, n)
<1> /\ PoolOK(p) /\ a \in AreaType /\ Inside(p, a)
    /\ o \in Nat /\ s \in Seq(Byte) /\ o + Len(s) <= a.size
  BY DEF Writes
<1> /\ PoolOK(p) /\ x \in AreaType /\ Inside(p, x)
    /\ i \in Nat /\ n \in Nat /\ i + n <= x.size
  BY DEF Reads
<1> DEFINE mem == p.mem
           w   == Written(mem, a, o, s)
<1>1. mem \in Seq(Seq(Byte)) /\ a.m \in 1 .. Len(mem) /\ x.m \in 1 .. Len(mem)
  BY DEF PoolOK, Inside
<1>2. \A m \in 1 .. Len(mem) : w[m] = IF m = a.m THEN Patched(mem[a.m], a.from + o, s) ELSE mem[m]
  <2> HIDE DEF mem
  <2> QED
    BY <1>1 DEF Written
<1> HIDE DEF mem
<1>3. /\ a.from \in Nat /\ a.size \in Nat /\ x.from \in Nat /\ x.size \in Nat
      /\ Len(s) \in Nat /\ mem[a.m] \in Seq(Byte)
  BY <1>1 DEF AreaType
<1>4. \A k \in 1 .. n : x.from + i + k \in 1 .. Len(mem[x.m])
  BY BytesShape DEF mem
<1> HIDE DEF w
<1>5. ASSUME NEW k \in 1 .. n
      PROVE  w[x.m][x.from + i + k] = mem[x.m][x.from + i + k]
  <2> DEFINE j == x.from + i + k
  <2>1. CASE x.m # a.m
    BY <1>1, <1>2, <2>1
  <2>2. CASE x.m = a.m
    <3>1. ~(a.from < x.from + x.size /\ x.from < a.from + a.size)
      BY <2>2 DEF Overlap
    <3>2. ~(j - (a.from + o) \in 1 .. Len(s))
      BY <1>3, <3>1, Apart
    <3>3. j \in 1 .. Len(mem[a.m]) /\ a.from + o \in Nat
      BY <1>3, <1>4, <2>2
    <3> HIDE DEF j
    <3>4. Patched(mem[a.m], a.from + o, s)[j] = mem[a.m][j]
      BY <3>2, <3>3 DEF Patched
    <3>5. w[x.m][j] = mem[x.m][j]
      BY <1>1, <1>2, <2>2, <3>4
    <3> QED
      BY <3>5 DEF j
  <2> QED
    BY <2>1, <2>2
<1>6. q.mem = w
  BY WrittenOK DEF w, mem
<1> QED
  BY <1>5, <1>6 DEF Bytes, mem

\* Writing s behind the first n bytes of an area appends it to them.
LEMMA BytesAppended ==
  ASSUME NEW p, NEW a, NEW x, NEW s, NEW q, Writes(p, a, x, s, q),
         NEW o \in Nat, NEW n \in Nat, x = o + n
  PROVE  Bytes(q.mem, a, o, n + Len(s)) = Bytes(p.mem, a, o, n) \o s
<1> /\ PoolOK(p) /\ a \in AreaType /\ Inside(p, a)
    /\ s \in Seq(Byte) /\ x + Len(s) <= a.size
  BY DEF Writes
<1> DEFINE mem == p.mem
           w   == Written(mem, a, o + n, s)
           l   == Len(s)
           new == Bytes(w, a, o, n + l)
           old == Bytes(mem, a, o, n)
<1>1. mem \in Seq(Seq(Byte)) /\ a.m \in 1 .. Len(mem) /\ mem[a.m] \in Seq(Byte)
  BY DEF PoolOK, Inside
<1>2. a.from \in Nat /\ a.size \in Nat /\ l \in Nat
  BY DEF AreaType
<1>3. Reads(p, a, o, n) /\ Reads(p, a, o, n + l) /\ n + l \in Nat
  BY <1>2 DEF Reads
<1>4. Reads(q, a, o, n + l) /\ q.mem = w
  <2>1. PoolOK(q) /\ q.mem = Written(p.mem, a, x, s) /\ StaysIn(p, q)
    BY WrittenOK
  <2> QED
    BY <1>3, <2>1 DEF StaysIn, Reads
<1>5. w[a.m] = Patched(mem[a.m], a.from + (o + n), s)
  <2> HIDE DEF mem
  <2> QED
    BY <1>1 DEF Written
<1> HIDE DEF w
<1>6. /\ new \in Seq(Byte) /\ Len(new) = n + l
      /\ \A k \in 1 .. n + l : new[k] = w[a.m][a.from + o + k]
  <2>1. Bytes(q.mem, a, o, n + l) \in Seq(Byte)
    BY <1>4, BytesShape
  <2>2. Len(Bytes(q.mem, a, o, n + l)) = n + l
    BY <1>4, BytesShape
  <2>3. \A i \in 1 .. n + l : Bytes(q.mem, a, o, n + l)[i] = q.mem[a.m][a.from + o + i]
    BY <1>3 DEF Bytes
  <2> QED
    BY <1>4, <2>1, <2>2, <2>3
<1>7. /\ old \in Seq(Byte) /\ Len(old) = n
      /\ \A k \in 1 .. n : old[k] = mem[a.m][a.from + o + k]
  <2>1. Bytes(p.mem, a, o, n) \in Seq(Byte)
    BY <1>3, BytesShape
  <2>2. Len(Bytes(p.mem, a, o, n)) = n
    BY <1>3, BytesShape
  <2>3. \A k \in 1 .. n : Bytes(p.mem, a, o, n)[k] = p.mem[a.m][a.from + o + k]
    BY <1>3, BytesShape
  <2> QED
    BY <2>1, <2>2, <2>3
<1>8. \A k \in 1 .. n + l : a.from + o + k \in 1 .. Len(mem[a.m])
  BY <1>3, BytesShape
<1> HIDE DEF new, old, mem
<1>9. /\ old \o s \in Seq(Byte) /\ Len(old \o s) = n + l
      /\ \A k \in 1 .. n + l : (old \o s)[k] = IF k <= n THEN old[k] ELSE s[k - n]
  BY <1>7, ConcatProperties DEF l
<1>10. ASSUME NEW i \in 1 .. n + l PROVE new[i] = (old \o s)[i]
  <2> DEFINE j == a.from + o + i
             f == a.from + (o + n)
  <2>1. j - f = i - n /\ f \in Nat
    BY <1>2
  <2>2. new[i] = w[a.m][j] /\ j \in 1 .. Len(mem[a.m])
    BY <1>6, <1>8
  <2>3. w[a.m] = Patched(mem[a.m], f, s)
    BY <1>5
  <2> HIDE DEF j, f
  <2>4. w[a.m][j] = IF j - f \in 1 .. Len(s) THEN s[j - f] ELSE mem[a.m][j]
    BY <1>1, <2>1, <2>2, <2>3, PatchedOK
  <2>5. CASE i <= n
    <3>1. i \in 1 .. n /\ ~(i - n \in 1 .. Len(s))
      BY <2>5, <1>2 DEF l
    <3>2. new[i] = mem[a.m][j]
      BY <2>1, <2>2, <2>4, <3>1
    <3>3. old[i] = mem[a.m][j]
      BY <1>7, <3>1 DEF j
    <3>4. (old \o s)[i] = old[i]
      BY <1>9, <2>5
    <3> QED
      BY <3>2, <3>3, <3>4
  <2>6. CASE ~(i <= n)
    <3>1. i - n \in 1 .. Len(s)
      BY <2>6, <1>2 DEF l
    <3>2. new[i] = s[i - n]
      BY <2>1, <2>2, <2>4, <3>1
    <3> QED
      BY <1>9, <2>6, <3>2
  <2> QED
    BY <2>5, <2>6
<1>11. new = old \o s
  BY <1>6, <1>9, <1>10, SeqEqual
<1> QED
  BY <1>4, <1>11 DEF new, old, mem, l

-----------------------------------------------------------------------------
\* Some bytes of an area, without those in front or at the end.
LEMMA BytesPart ==
  ASSUME NEW p, NEW x, NEW o, NEW n, Reads(p, x, o, n), NEW j \in 0 .. n
  PROVE  /\ Bytes(p.mem, x, o + j, n - j) = SubSeq(Bytes(p.mem, x, o, n), j + 1, n)
         /\ Bytes(p.mem, x, o, n - j) = SubSeq(Bytes(p.mem, x, o, n), 1, n - j)
<1> DEFINE old == Bytes(p.mem, x, o, n)
<1>1. o \in Nat /\ n \in Nat /\ x.from \in Nat
  BY DEF Reads, AreaType
<1>2. old \in Seq(Byte) /\ Len(old) = n
  BY BytesShape
<1>3. \A i \in 1 .. n : old[i] = p.mem[x.m][x.from + o + i]
  BY <1>1 DEF Bytes
<1> HIDE DEF old
<1>4. Bytes(p.mem, x, o + j, n - j) = SubSeq(old, j + 1, n)
  <2>1. SubSeq(old, j + 1, n) = [i \in 1 .. n - j |-> old[j + i]]
    BY <1>1, <1>2
  <2>2. \A i \in 1 .. n - j : /\ old[j + i] = p.mem[x.m][x.from + o + (j + i)]
                              /\ x.from + o + (j + i) = x.from + (o + j) + i
    BY <1>1, <1>3
  <2> QED
    BY <2>1, <2>2 DEF Bytes
<1>5. Bytes(p.mem, x, o, n - j) = SubSeq(old, 1, n - j)
  <2>1. SubSeq(old, 1, n - j) = [i \in 1 .. n - j |-> old[i]]
    BY <1>1, <1>2
  <2>2. \A i \in 1 .. n - j : old[i] = p.mem[x.m][x.from + o + i]
    BY <1>1, <1>3
  <2> QED
    BY <2>1, <2>2 DEF Bytes
<1> QED
  BY <1>4, <1>5 DEF old

-----------------------------------------------------------------------------
\* last may lie below pos, but not farther than a header and its payload, and
\* only in a receive buffer.
BufOK(p, r) ==
  /\ r = [self |-> r.self, data |-> r.data, pos |-> r.pos, last |-> r.last]
  /\ r.self \in AreaType /\ Placed(p, r.self)
  /\ r.data \in AreaType /\ Inside(p, r.data) /\ r.data.size <= Wrap
  /\ r.pos \in 0 .. HdrLen + MaxDlen /\ r.last \in Nat /\ r.last <= r.data.size

Ordered(b, r) == b \in Inputs \/ r.pos <= r.last

\* The buffers r and t have nothing in common.
Separate(r, t) ==
  \A x \in {r.self, r.data}, y \in {t.self, t.data} : ~Overlap(x, y) /\ ~Overlap(y, x)

\* The inductive invariant.  That nothing overlaps needs every area to lie in
\* the part of the pool that was handed out.
Shape ==
  /\ alive \in BOOLEAN
  /\ PoolOK(pool)
  /\ Owed(pool) = IF alive THEN 1 ELSE 0
  /\ ~alive => DOMAIN bufs = {}
  /\ bufs = [b \in DOMAIN bufs |-> bufs[b]] /\ DOMAIN bufs \subseteq Bufs
  /\ \A b \in DOMAIN bufs : /\ BufOK(pool, bufs[b]) /\ Ordered(b, bufs[b])
                            /\ ~Overlap(bufs[b].self, bufs[b].data)
  /\ \A b, c \in DOMAIN bufs : b # c => Separate(bufs[b], bufs[c])

Intact == broken = FALSE /\ Shape
IInv   == broken \in BOOLEAN /\ Shape

HeldIn(p, r) ==
  IF r.last - r.pos < 0 THEN <<>> ELSE Bytes(p.mem, r.data, r.pos, r.last - r.pos)

Debt(r) == IF r.last - r.pos < 0 THEN 0 - (r.last - r.pos) ELSE 0

StringIn(p, r) == [held |-> HeldIn(p, r), owed |-> Debt(r)]

Put(b, v) == [c \in DOMAIN Content \cup {b} |-> IF c = b THEN v ELSE Content[c]]

\* The string of a buffer is what is read of its area.
LEMMA ContentFacts ==
  /\ DOMAIN Content = DOMAIN bufs
  /\ \A b \in DOMAIN bufs : Content[b] = StringIn(pool, bufs[b])
BY DEF Content, Held, HeldIn, Size, Debt, StringIn

\* The string of a buffer is as long as its offsets are apart.
LEMMA HeldShape ==
  ASSUME NEW p, PoolOK(p), NEW r, BufOK(p, r)
  PROVE  /\ HeldIn(p, r) \in Seq(Byte) /\ r.last - r.pos \in Int
         /\ r.last - r.pos < 0 => HeldIn(p, r) = <<>> /\ Len(HeldIn(p, r)) = 0
         /\ r.last - r.pos >= 0 => /\ Len(HeldIn(p, r)) = r.last - r.pos
                                   /\ HeldIn(p, r) = Bytes(p.mem, r.data, r.pos, r.last - r.pos)
                                   /\ Reads(p, r.data, r.pos, r.last - r.pos)
<1> DEFINE x == r.data
           o == r.pos
           n == r.last - r.pos
<1>1. n \in Int /\ r.pos \in Nat /\ r.last \in Nat
  BY BuffersAssumption DEF BufOK
<1>2. CASE n < 0
  <2>1. HeldIn(p, r) = <<>>
    BY <1>2 DEF HeldIn
  <2> QED
    BY <1>1, <1>2, <2>1
<1>3. CASE n >= 0
  <2>1. Reads(p, x, o, n)
    BY <1>1, <1>3 DEF BufOK, AreaType, Reads
  <2>2. HeldIn(p, r) = Bytes(p.mem, x, o, n)
    BY <1>1, <1>3 DEF HeldIn
  <2> HIDE DEF x, o, n
  <2>3. Bytes(p.mem, x, o, n) \in Seq(Byte)
    BY <2>1, BytesShape
  <2>4. Len(Bytes(p.mem, x, o, n)) = n
    BY <2>1, BytesShape
  <2> QED
    BY <1>1, <1>3, <2>1, <2>2, <2>3, <2>4 DEF x, o, n
<1> QED
  BY <1>1, <1>2, <1>3

\* A buffer stays sound when its pool grows.
LEMMA BufStays ==
  ASSUME NEW p, NEW q, StaysIn(p, q), NEW r, BufOK(p, r)
  PROVE  BufOK(q, r)
<1>1. Placed(q, r.self) /\ Inside(q, r.data)
  BY DEF BufOK, Placed, StaysIn
<1> QED
  BY <1>1 DEF BufOK

\* The structure of an xdbd_pcalloc area is no area at all.
LEMMA NoAreaApart ==
  ASSUME NEW p, PoolOK(p), NEW x \in AreaType, Placed(p, x)
  PROVE  NoArea \in AreaType /\ ~Overlap(NoArea, x) /\ ~Overlap(x, NoArea)
<1>1. NoArea = [m |-> 0, from |-> 0, size |-> 0]
  BY DEF NoArea, Area
<1>2. CASE x = NoArea
  BY <1>1, <1>2 DEF Overlap, AreaType
<1>3. CASE Inside(p, x)
  <2>1. x.m # 0
    BY <1>3, PoolLens DEF Inside
  <2> QED
    BY <1>1, <2>1 DEF Overlap, AreaType
<1> QED
  BY <1>2, <1>3 DEF Placed

\* A new area has nothing in common with one that is in the pool.
LEMMA NewApart ==
  ASSUME NEW p, PoolOK(p), NEW n \in Nat, NEW x \in AreaType, Placed(p, x)
  PROVE  ~Overlap(x, PallocArea(p, n)) /\ ~Overlap(PallocArea(p, n), x)
<1> DEFINE a == PallocArea(p, n)
           q == Palloc(p, n)
<1>1. PoolOK(q) /\ a \in AreaType /\ Inside(q, a)
  BY PallocOK
<1>2. CASE x = NoArea
  <2> HIDE DEF a, q
  <2>1. Placed(q, a)
    BY <1>1 DEF Placed
  <2>2. ~Overlap(NoArea, a) /\ ~Overlap(a, NoArea)
    BY <1>1, <2>1, NoAreaApart
  <2> QED
    BY <1>2, <2>2 DEF a
<1>3. CASE Inside(p, x)
  BY <1>3, PallocOK
<1> QED
  BY <1>2, <1>3 DEF Placed

\* What a step that changes or adds one buffer has to show.
LEMMA StepInv ==
  ASSUME Intact, alive, alive' = alive, broken' = FALSE,
         PoolOK(pool'), Owed(pool') = Owed(pool), StaysIn(pool, pool'),
         NEW b \in Bufs, NEW r,
         bufs' = [c \in DOMAIN bufs \cup {b} |-> IF c = b THEN r ELSE bufs[c]],
         BufOK(pool', r), Ordered(b, r), ~Overlap(r.self, r.data),
         \A c \in DOMAIN bufs : c # b => /\ Separate(r, bufs[c])
                                         /\ HeldIn(pool', bufs[c]) = HeldIn(pool, bufs[c])
  PROVE  Intact' /\ Content' = Put(b, StringIn(pool', r))
<1>1. /\ DOMAIN bufs' = DOMAIN bufs \cup {b}
      /\ bufs'[b] = r
      /\ \A c \in DOMAIN bufs : c # b => bufs'[c] = bufs[c]
  OBVIOUS
<1>2. bufs' = [c \in DOMAIN bufs' |-> bufs'[c]] /\ DOMAIN bufs' \subseteq Bufs
  BY <1>1 DEF Intact, Shape
<1>3. \A c \in DOMAIN bufs' : /\ BufOK(pool', bufs'[c]) /\ Ordered(c, bufs'[c])
                              /\ ~Overlap(bufs'[c].self, bufs'[c].data)
  <2> SUFFICES ASSUME NEW c \in DOMAIN bufs'
               PROVE  /\ BufOK(pool', bufs'[c]) /\ Ordered(c, bufs'[c])
                      /\ ~Overlap(bufs'[c].self, bufs'[c].data)
    OBVIOUS
  <2>1. CASE c = b
    BY <1>1, <2>1
  <2>2. CASE c # b
    <3>1. c \in DOMAIN bufs /\ bufs'[c] = bufs[c]
      BY <1>1, <2>2
    <3>2. BufOK(pool, bufs[c]) /\ Ordered(c, bufs[c]) /\ ~Overlap(bufs[c].self, bufs[c].data)
      BY <3>1 DEF Intact, Shape
    <3>3. BufOK(pool', bufs[c])
      BY <3>2, BufStays
    <3> QED
      BY <3>1, <3>2, <3>3
  <2> QED
    BY <2>1, <2>2
<1>4. \A c, d \in DOMAIN bufs' : c # d => Separate(bufs'[c], bufs'[d])
  <2> SUFFICES ASSUME NEW c \in DOMAIN bufs', NEW d \in DOMAIN bufs', c # d
               PROVE  Separate(bufs'[c], bufs'[d])
    OBVIOUS
  <2>1. CASE c = b
    <3>1. d \in DOMAIN bufs /\ d # b /\ bufs'[d] = bufs[d]
      BY <1>1, <2>1
    <3> QED
      BY <1>1, <2>1, <3>1
  <2>2. CASE d = b
    <3>1. c \in DOMAIN bufs /\ c # b /\ bufs'[c] = bufs[c]
      BY <1>1, <2>2
    <3>2. Separate(r, bufs[c])
      BY <3>1
    <3>3. Separate(bufs[c], r)
      BY <3>2, Zenon DEF Separate
    <3> QED
      BY <1>1, <2>2, <3>1, <3>3
  <2>3. CASE c # b /\ d # b
    BY <1>1, <2>3 DEF Intact, Shape
  <2> QED
    BY <2>1, <2>2, <2>3
<1>5. Intact'
  BY <1>2, <1>3, <1>4 DEF Intact, Shape, Ordered
<1>6. Content' = Put(b, StringIn(pool', r))
  <2>1. Content' = [c \in DOMAIN bufs' |-> StringIn(pool', bufs'[c])]
    BY DEF Content, Held, HeldIn, Size, Debt, StringIn
  <2>2. \A c \in DOMAIN bufs' : StringIn(pool', bufs'[c]) =
          IF c = b THEN StringIn(pool', r) ELSE Content[c]
    BY <1>1, ContentFacts DEF StringIn
  <2>3. DOMAIN bufs' = DOMAIN Content \cup {b}
    BY <1>1, ContentFacts
  <2> QED
    BY <2>1, <2>2, <2>3, Zenon DEF Put
<1> QED
  BY <1>5, <1>6

-----------------------------------------------------------------------------
\* Nothing but the flag of the pool changes, or nothing at all.
LEMMA StutterInv ==
  ASSUME Intact, UNCHANGED <<pool, bufs>>, alive' = alive, broken' = FALSE
  PROVE  Intact' /\ Content' = Content
<1>1. Intact'
  BY DEF Intact, Shape, AreaType
<1>2. Content' = Content
  BY DEF Content, Held, Size
<1> QED
  BY <1>1, <1>2

\* An allocation that fails leaves the pool as it was.
LEMMA AllocFailsKeeps ==
  ASSUME NEW p, NEW n, AllocFails(p, n)
  PROVE  pool' = p /\ UNCHANGED <<alive, bufs>>
BY DEF AllocFails, EntryFreed

\* The pool has grown and nothing else has changed.
LEMMA GrownInv ==
  ASSUME Intact, alive' = alive, bufs' = bufs, broken' = FALSE,
         PoolOK(pool'), Owed(pool') = Owed(pool), StaysIn(pool, pool'), Grown(pool, pool')
  PROVE  Intact' /\ Content' = Content
<1>1. \A b \in DOMAIN bufs : BufOK(pool', bufs[b])
  BY BufStays DEF Intact, Shape
<1>2. Intact'
  BY <1>1 DEF Intact, Shape
<1>3. \A b \in DOMAIN bufs : HeldIn(pool', bufs[b]) = HeldIn(pool, bufs[b])
  <2> SUFFICES ASSUME NEW b \in DOMAIN bufs
               PROVE  HeldIn(pool', bufs[b]) = HeldIn(pool, bufs[b])
    OBVIOUS
  <2>1. PoolOK(pool) /\ bufs[b].data \in AreaType /\ Inside(pool, bufs[b].data)
    BY DEF Intact, Shape, BufOK
  <2> QED
    BY <2>1, BytesGrown DEF HeldIn
<1>4. Content' = Content
  <2>1. Content' = [b \in DOMAIN bufs |-> StringIn(pool', bufs[b])]
    BY DEF Content, Held, HeldIn, Size, Debt, StringIn
  <2>2. Content = [b \in DOMAIN bufs |-> StringIn(pool, bufs[b])]
    BY DEF Content, Held, HeldIn, Size, Debt, StringIn
  <2> QED
    BY <1>3, <2>1, <2>2 DEF StringIn
<1> QED
  BY <1>2, <1>4

\* An allocation leaves what the buffers hold as it is.
LEMMA HeldGrown ==
  ASSUME NEW p, PoolOK(p), NEW q, Grown(p, q), NEW r, BufOK(p, r)
  PROVE  HeldIn(q, r) = HeldIn(p, r)
<1>1. r.data \in AreaType /\ Inside(p, r.data)
  BY DEF BufOK
<1> QED
  BY <1>1, BytesGrown DEF HeldIn

\* Writing into an area that is not the buffer's does, too.
LEMMA HeldOther ==
  ASSUME NEW p, NEW a, NEW o, NEW s, NEW q, Writes(p, a, o, s, q),
         NEW r, BufOK(p, r), ~Overlap(r.data, a)
  PROVE  HeldIn(q, r) = HeldIn(p, r)
<1>1. CASE r.last - r.pos < 0
  BY <1>1 DEF HeldIn
<1>2. CASE ~(r.last - r.pos < 0)
  <2>1. PoolOK(p)
    BY DEF Writes
  <2>2. Reads(p, r.data, r.pos, r.last - r.pos)
    BY <1>2, <2>1, HeldShape
  <2>3. Bytes(q.mem, r.data, r.pos, r.last - r.pos) = Bytes(p.mem, r.data, r.pos, r.last - r.pos)
    BY <2>2, BytesOther
  <2> QED
    BY <2>3 DEF HeldIn
<1> QED
  BY <1>1, <1>2

\* What is appended are strings of bytes, of a length that fits.
LEMMA StringFacts ==
  /\ \A s \in Chunks \cup {Zeros} : s \in Seq(Byte) /\ Len(s) \in 1 .. MaxContent
  /\ StructSize \in Nat /\ MaxContent \in Nat /\ HdrLen \in Nat /\ MaxDlen \in Nat
  /\ Wrap \in Nat \ {0} /\ MaxContent <= Wrap /\ Len(Zeros) <= Wrap
  /\ \A n \in Sizes : n \in Nat /\ n <= Wrap
<1>1. /\ \A s \in Chunks \cup {Zeros} : s \in Seq(Byte) /\ Len(s) \in 1 .. MaxContent
      /\ StructSize \in Nat /\ MaxContent \in Nat /\ HdrLen \in Nat /\ MaxDlen \in Nat
      /\ Wrap \in Nat /\ 2 * MaxContent <= Wrap /\ Sizes \subseteq 1 .. MaxContent
  BY BuffersAssumption
<1>2. Len(Zeros) \in 1 .. MaxContent
  BY <1>1
<1> QED
  BY <1>1, <1>2

\* xdbd_pcalloc adds an area of zeroes or changes no string.
LEMMA PcallocStep ==
  ASSUME Intact, NEW b \in Records, Pcalloc(b)
  PROVE  Intact' /\ (Content' = Content \/ Strings!New(b, Zeros))
<1>1. CASE AllocFails(pool, Len(Zeros)) /\ UNCHANGED broken
  BY <1>1, AllocFailsKeeps, StutterInv DEF Intact, Shape
<1>2. CASE ~(AllocFails(pool, Len(Zeros)) /\ UNCHANGED broken)
  <2> DEFINE n == Len(Zeros)
             q == Palloc(pool, n)
             a == PallocArea(pool, n)
             t == [q EXCEPT !.mem = Written(q.mem, a, 0, Zeros)]
             r == Buffer(NoArea, a, n)
  <2>1. /\ alive /\ b \notin DOMAIN bufs /\ alive' = alive
        /\ pool' = t
        /\ bufs' = [c \in DOMAIN bufs \cup {b} |-> IF c = b THEN r ELSE bufs[c]]
        /\ broken' = (broken \/ HitsBug(pool, n) \/ Overruns(q.mem, a, 0, n))
    BY <1>2 DEF Pcalloc, NewBuffer
  <2>2. /\ Zeros \in Seq(Byte) /\ n \in Nat /\ 0 + n = n /\ 0 + 0 + n = n /\ n <= n
        /\ n <= Wrap /\ 0 \in 0 .. HdrLen + MaxDlen
    BY StringFacts
  <2>3. PoolOK(pool) /\ b \in Bufs
    BY DEF Intact, Shape, Bufs
  <2>4. /\ PoolOK(q) /\ Grown(pool, q) /\ Owed(q) = Owed(pool) /\ ~HitsBug(pool, n)
        /\ a \in AreaType /\ a.size = n /\ Inside(q, a) /\ StaysIn(pool, q)
    BY <2>2, <2>3, PallocOK DEF StaysIn
  <2> HIDE DEF n, q, a
  <2>50. Writes(q, a, 0, Zeros, t)
    BY <2>2, <2>4 DEF Writes, n
  <2> HIDE DEF t
  <2>5. /\ PoolOK(t) /\ Owed(t) = Owed(q) /\ t.mem = Written(q.mem, a, 0, Zeros)
        /\ StaysIn(q, t) /\ ~Overruns(q.mem, a, 0, n)
    BY <2>50, WrittenOK DEF n
  <2>6. PoolOK(t) /\ Owed(t) = Owed(pool) /\ StaysIn(pool, t) /\ Inside(t, a)
    BY <2>4, <2>5 DEF StaysIn
  <2>7. /\ r = [self |-> NoArea, data |-> a, pos |-> 0, last |-> n]
        /\ r.self = NoArea /\ r.data = a /\ r.pos = 0 /\ r.last = n
    BY DEF Buffer
  <2> HIDE DEF r
  <2>8. Placed(t, NoArea) /\ Placed(t, a)
    BY <2>6 DEF Placed
  <2>9. NoArea \in AreaType /\ ~Overlap(NoArea, a)
    BY <2>4, <2>6, <2>8, NoAreaApart
  <2>10. BufOK(t, r) /\ Ordered(b, r)
    BY <2>2, <2>4, <2>6, <2>7, <2>8, <2>9 DEF BufOK, Ordered
  <2>11. ASSUME NEW c \in DOMAIN bufs, c # b
         PROVE  Separate(r, bufs[c]) /\ HeldIn(t, bufs[c]) = HeldIn(pool, bufs[c])
    <3>1. BufOK(pool, bufs[c]) /\ BufOK(q, bufs[c])
      BY <2>4, BufStays DEF Intact, Shape
    <3>2. ASSUME NEW y \in {bufs[c].self, bufs[c].data}
          PROVE  /\ ~Overlap(a, y) /\ ~Overlap(y, a)
                 /\ ~Overlap(NoArea, y) /\ ~Overlap(y, NoArea)
      <4>1. y \in AreaType /\ Placed(pool, y)
        BY <3>1 DEF BufOK, Placed
      <4>2. ~Overlap(a, y) /\ ~Overlap(y, a)
        BY <4>1, <2>2, <2>3, NewApart DEF a
      <4>3. ~Overlap(NoArea, y) /\ ~Overlap(y, NoArea)
        BY <4>1, <2>3, NoAreaApart
      <4> QED
        BY <4>2, <4>3
    <3>3. Separate(r, bufs[c])
      BY <3>2, <2>7 DEF Separate
    <3>4. HeldIn(q, bufs[c]) = HeldIn(pool, bufs[c])
      BY <2>3, <2>4, <3>1, HeldGrown
    <3>5. ~Overlap(bufs[c].data, a)
      BY <3>2
    <3>6. HeldIn(t, bufs[c]) = HeldIn(q, bufs[c])
      BY <2>50, <3>1, <3>5, HeldOther
    <3> QED
      BY <3>3, <3>4, <3>6
  <2>12. broken' = FALSE
    BY <2>1, <2>4, <2>5 DEF Intact, Shape
  <2>13. Intact' /\ Content' = Put(b, StringIn(t, r))
    BY <2>1, <2>3, <2>6, <2>7, <2>9, <2>10, <2>11, <2>12, StepInv
  <2>14. StringIn(t, r) = Strings!Holding(Zeros)
    <3>1. HeldIn(t, r) = Bytes(t.mem, a, 0, 0 + Len(Zeros)) /\ Debt(r) = 0
      BY <2>2, <2>7 DEF HeldIn, Debt, n
    <3>2. Bytes(t.mem, a, 0, 0 + Len(Zeros)) = Bytes(q.mem, a, 0, 0) \o Zeros
      BY <2>50, BytesAppended
    <3>3. Bytes(q.mem, a, 0, 0) = <<>>
      BY DEF Bytes
    <3> QED
      BY <2>2, <3>1, <3>2, <3>3, ConcatEmptySeq DEF StringIn, Strings!Holding
  <2>15. Strings!New(b, Zeros)
    BY <2>1, <2>13, <2>14, ContentFacts DEF Strings!New, Put
  <2> QED
    BY <2>13, <2>15
<1> QED
  BY <1>1, <1>2

\* xdbd_create_buf adds an empty buffer or changes no string, whichever of its
\* two allocations fails.
LEMMA CreateBufStep ==
  ASSUME Intact, NEW b \in Inputs \cup Outputs, NEW n \in Sizes, CreateBuf(b, n)
  PROVE  Intact' /\ (Content' = Content \/ Strings!New(b, <<>>))
<1> DEFINE p == Palloc(pool, StructSize)
           q == Palloc(p, n)
           d == PallocArea(pool, StructSize)
           a == PallocArea(p, n)
           r == Buffer(d, a, 0)
<1>1. /\ StructSize \in Nat /\ n \in Nat /\ b \in Bufs /\ alive /\ b \notin DOMAIN bufs
      /\ n <= Wrap /\ 0 \in 0 .. HdrLen + MaxDlen
  BY StringFacts DEF Bufs, CreateBuf
<1>2. PoolOK(pool) /\ broken = FALSE
  BY DEF Intact, Shape
<1>3. /\ PoolOK(p) /\ Grown(pool, p) /\ Owed(p) = Owed(pool) /\ ~HitsBug(pool, StructSize)
      /\ d \in AreaType /\ Inside(p, d) /\ StaysIn(pool, p)
  BY <1>1, <1>2, PallocOK DEF StaysIn
<1>4. \/ AllocFails(pool, StructSize) /\ UNCHANGED broken
      \/ AllocFails(p, n) /\ broken' = (broken \/ HitsBug(pool, StructSize))
      \/ /\ pool' = q
         /\ bufs' = [c \in DOMAIN bufs \cup {b} |-> IF c = b THEN r ELSE bufs[c]]
         /\ broken' = (broken \/ HitsBug(pool, StructSize) \/ HitsBug(p, n))
         /\ alive' = alive
  BY DEF CreateBuf, NewBuffer
<1>5. CASE AllocFails(pool, StructSize) /\ UNCHANGED broken
  BY <1>2, <1>5, AllocFailsKeeps, StutterInv
<1> HIDE DEF p, d
<1>6. CASE AllocFails(p, n) /\ broken' = (broken \/ HitsBug(pool, StructSize))
  <2>1. pool' = p /\ alive' = alive /\ bufs' = bufs
    BY <1>6, AllocFailsKeeps
  <2> QED
    BY <1>2, <1>3, <1>6, <2>1, GrownInv
<1>7. CASE /\ pool' = q
           /\ bufs' = [c \in DOMAIN bufs \cup {b} |-> IF c = b THEN r ELSE bufs[c]]
           /\ broken' = (broken \/ HitsBug(pool, StructSize) \/ HitsBug(p, n))
           /\ alive' = alive
  <2>1. /\ PoolOK(q) /\ Grown(p, q) /\ Owed(q) = Owed(p) /\ ~HitsBug(p, n)
        /\ a \in AreaType /\ a.size = n /\ Inside(q, a) /\ StaysIn(p, q)
    BY <1>1, <1>3, PallocOK DEF StaysIn
  <2> HIDE DEF q
  <2>2. StaysIn(pool, q) /\ Inside(q, d) /\ Owed(q) = Owed(pool)
    BY <1>3, <2>1 DEF StaysIn
  <2>3. /\ r = [self |-> d, data |-> a, pos |-> 0, last |-> 0]
        /\ r.self = d /\ r.data = a /\ r.pos = 0 /\ r.last = 0
    BY DEF Buffer
  <2> HIDE DEF r
  <2>4. BufOK(q, r) /\ Ordered(b, r)
    BY <1>1, <1>3, <2>1, <2>2, <2>3 DEF BufOK, Ordered, Placed
  <2>5. ~Overlap(d, a) /\ ~Overlap(a, d)
    <3>1. Placed(p, d)
      BY <1>3 DEF Placed
    <3> QED
      BY <1>1, <1>3, <3>1, NewApart
  <2> HIDE DEF a
  <2>6. ASSUME NEW c \in DOMAIN bufs, c # b
        PROVE  Separate(r, bufs[c]) /\ HeldIn(q, bufs[c]) = HeldIn(pool, bufs[c])
    <3>1. BufOK(pool, bufs[c]) /\ BufOK(p, bufs[c])
      BY <1>3, BufStays DEF Intact, Shape
    <3>2. ASSUME NEW y \in {bufs[c].self, bufs[c].data}
          PROVE  /\ ~Overlap(a, y) /\ ~Overlap(y, a)
                 /\ ~Overlap(d, y) /\ ~Overlap(y, d)
      <4>1. y \in AreaType /\ Placed(pool, y) /\ Placed(p, y)
        BY <3>1 DEF BufOK, Placed
      <4>2. ~Overlap(a, y) /\ ~Overlap(y, a)
        BY <1>1, <1>3, <4>1, NewApart DEF a
      <4>3. ~Overlap(d, y) /\ ~Overlap(y, d)
        BY <1>1, <1>2, <4>1, NewApart DEF d
      <4> QED
        BY <4>2, <4>3
    <3>3. Separate(r, bufs[c])
      BY <3>2, <2>3 DEF Separate
    <3>4. HeldIn(p, bufs[c]) = HeldIn(pool, bufs[c])
      BY <1>2, <1>3, <3>1, HeldGrown
    <3>5. HeldIn(q, bufs[c]) = HeldIn(p, bufs[c])
      BY <1>3, <2>1, <3>1, HeldGrown
    <3> QED
      BY <3>3, <3>4, <3>5
  <2>7. Intact' /\ Content' = Put(b, StringIn(q, r))
    BY <1>1, <1>2, <1>3, <1>7, <2>1, <2>2, <2>3, <2>4, <2>5, <2>6, StepInv
  <2>8. StringIn(q, r) = Strings!Holding(<<>>)
    BY <2>3 DEF HeldIn, Bytes, Debt, StringIn, Strings!Holding
  <2>9. Strings!New(b, <<>>)
    BY <1>1, <2>7, <2>8, ContentFacts DEF Strings!New, Put
  <2> QED
    BY <2>7, <2>9
<1> QED
  BY <1>4, <1>5, <1>6, <1>7

-----------------------------------------------------------------------------
\* What is known of a buffer, and of another.
LEMMA BufFacts ==
  ASSUME Intact, NEW b \in DOMAIN bufs
  PROVE  /\ PoolOK(pool) /\ alive /\ broken = FALSE /\ b \in Bufs
         /\ BufOK(pool, bufs[b]) /\ Ordered(b, bufs[b])
         /\ ~Overlap(bufs[b].self, bufs[b].data)
         /\ Held(b) = HeldIn(pool, bufs[b]) /\ Size(b) = bufs[b].last - bufs[b].pos
         /\ Content[b] = StringIn(pool, bufs[b]) /\ b \in DOMAIN Content
         /\ \A c \in DOMAIN bufs : c # b => BufOK(pool, bufs[c]) /\ Separate(bufs[b], bufs[c])
<1>1. Held(b) = HeldIn(pool, bufs[b]) /\ Size(b) = bufs[b].last - bufs[b].pos
  BY DEF Held, HeldIn, Size
<1> QED
  BY <1>1, ContentFacts DEF Intact, Shape

\* The offsets of a buffer, and what it holds and owes.
LEMMA Offsets ==
  ASSUME Intact, NEW b \in DOMAIN bufs
  PROVE  /\ bufs[b] = [self |-> bufs[b].self, data |-> bufs[b].data,
                       pos |-> bufs[b].pos, last |-> bufs[b].last]
         /\ bufs[b].pos \in Nat /\ bufs[b].last \in Nat /\ bufs[b].data.size \in Nat
         /\ bufs[b].last <= bufs[b].data.size /\ bufs[b].pos <= HdrLen + MaxDlen
         /\ bufs[b].data.size <= Wrap
         /\ Size(b) \in Int /\ Size(b) = bufs[b].last - bufs[b].pos
         /\ b \notin Inputs => Size(b) \in Nat
         /\ HeldIn(pool, bufs[b]) \in Seq(Byte)
         /\ Size(b) < 0 => /\ HeldIn(pool, bufs[b]) = <<>>
                           /\ Len(HeldIn(pool, bufs[b])) = 0 /\ Debt(bufs[b]) = 0 - Size(b)
         /\ Size(b) >= 0 => /\ Len(HeldIn(pool, bufs[b])) = Size(b) /\ Debt(bufs[b]) = 0
                            /\ HeldIn(pool, bufs[b]) =
                                 Bytes(pool.mem, bufs[b].data, bufs[b].pos, Size(b))
                            /\ Reads(pool, bufs[b].data, bufs[b].pos, Size(b))
<1>1. /\ PoolOK(pool) /\ BufOK(pool, bufs[b]) /\ Ordered(b, bufs[b])
      /\ Size(b) = bufs[b].last - bufs[b].pos
  BY BufFacts
<1>2. /\ bufs[b] = [self |-> bufs[b].self, data |-> bufs[b].data,
                    pos |-> bufs[b].pos, last |-> bufs[b].last]
      /\ bufs[b].pos \in Nat /\ bufs[b].last \in Nat /\ bufs[b].data.size \in Nat
      /\ bufs[b].last <= bufs[b].data.size /\ bufs[b].pos <= HdrLen + MaxDlen
      /\ bufs[b].data.size <= Wrap
  BY <1>1, StringFacts DEF BufOK, AreaType
<1>3. Size(b) \in Int /\ (b \notin Inputs => Size(b) \in Nat)
  BY <1>1, <1>2 DEF Ordered
<1>4. /\ HeldIn(pool, bufs[b]) \in Seq(Byte)
      /\ Size(b) < 0 => HeldIn(pool, bufs[b]) = <<>> /\ Len(HeldIn(pool, bufs[b])) = 0
      /\ Size(b) >= 0 => /\ Len(HeldIn(pool, bufs[b])) = Size(b)
                         /\ HeldIn(pool, bufs[b]) =
                              Bytes(pool.mem, bufs[b].data, bufs[b].pos, Size(b))
                         /\ Reads(pool, bufs[b].data, bufs[b].pos, Size(b))
  BY <1>1, HeldShape
<1>5. /\ Size(b) < 0 => Debt(bufs[b]) = 0 - Size(b)
      /\ Size(b) >= 0 => Debt(bufs[b]) = 0
  BY <1>1, <1>3 DEF Debt
<1> QED
  BY <1>1, <1>2, <1>3, <1>4, <1>5

\* Only offsets of one buffer change.
LEMMA MoveInv ==
  ASSUME Intact, NEW b \in DOMAIN bufs, UNCHANGED <<alive, pool, broken>>,
         NEW r, BufOK(pool, r), Ordered(b, r), r.self = bufs[b].self, r.data = bufs[b].data,
         bufs' = [bufs EXCEPT ![b] = r]
  PROVE  Intact' /\ Content' = Put(b, StringIn(pool, r))
<1>1. bufs' = [c \in DOMAIN bufs \cup {b} |-> IF c = b THEN r ELSE bufs[c]]
  BY DEF Intact, Shape
<1>2. \A c \in DOMAIN bufs : c # b => Separate(r, bufs[c])
  BY BufFacts DEF Separate
<1>3. StaysIn(pool, pool')
  BY DEF StaysIn
<1>4. /\ PoolOK(pool) /\ alive /\ broken = FALSE /\ b \in Bufs
      /\ ~Overlap(r.self, r.data)
  BY BufFacts
<1> QED
  BY <1>1, <1>2, <1>3, <1>4, StepInv

\* The same, said with the offsets the buffer gets.
LEMMA MoveTo ==
  ASSUME Intact, NEW b \in DOMAIN bufs, UNCHANGED <<alive, pool, broken>>, b \in Inputs,
         NEW r, NEW o \in 0 .. HdrLen + MaxDlen, NEW l \in Nat, l <= bufs[b].data.size,
         r = [self |-> bufs[b].self, data |-> bufs[b].data, pos |-> o, last |-> l],
         bufs' = [bufs EXCEPT ![b] = r]
  PROVE  /\ Intact' /\ Content' = Put(b, StringIn(pool, r))
         /\ HeldIn(pool, r) = IF l - o < 0 THEN <<>> ELSE Bytes(pool.mem, bufs[b].data, o, l - o)
         /\ Debt(r) = IF l - o < 0 THEN 0 - (l - o) ELSE 0
<1> DEFINE f == bufs[b].self
           d == bufs[b].data
<1>1. r.self = f /\ r.data = d /\ r.pos = o /\ r.last = l
  OBVIOUS
<1>2. BufOK(pool, bufs[b])
  BY BufFacts
<1>3. BufOK(pool, r) /\ Ordered(b, r)
  BY <1>1, <1>2 DEF BufOK, Ordered
<1>4. Intact' /\ Content' = Put(b, StringIn(pool, r))
  BY <1>1, <1>3, MoveInv
<1> QED
  BY <1>1, <1>4 DEF HeldIn, Debt

\* What is put in place of a string that is there.
LEMMA PutIs ==
  ASSUME NEW b \in DOMAIN Content, NEW v, Content' = Put(b, v)
  PROVE  Strings!Becomes(b, v)
BY DEF Put, Strings!Becomes, Content

\* A record is what its offset makes of it.
LEMMA OffsetsSet ==
  ASSUME NEW u, NEW f, NEW d, NEW o, NEW l, NEW m,
         u = [self |-> f, data |-> d, pos |-> o, last |-> l]
  PROVE  /\ [u EXCEPT !.pos = m] = [self |-> f, data |-> d, pos |-> m, last |-> l]
         /\ [u EXCEPT !.last = m] = [self |-> f, data |-> d, pos |-> o, last |-> m]
OBVIOUS

\* Moving pos takes bytes from the front of the string, and what is not there
\* is owed.
LEMMA ConsumeStep ==
  ASSUME Intact, NEW b \in Inputs \cap DOMAIN bufs, NEW n \in Nat,
         bufs[b].pos + n <= HdrLen + MaxDlen, Consume(b, n)
  PROVE  Intact' /\ Strings!Becomes(b, Strings!WithoutFront(Content[b], n))
<1> DEFINE x == bufs[b].data
           o == bufs[b].pos
           l == bufs[b].last
           k == Size(b)
           r == [bufs[b] EXCEPT !.pos = o + n]
           h == HeldIn(pool, bufs[b])
<1>1. b \in DOMAIN Content /\ Content[b] = [held |-> h, owed |-> Debt(bufs[b])]
  BY BufFacts DEF StringIn
<1>2. /\ bufs[b] = [self |-> bufs[b].self, data |-> x, pos |-> o, last |-> l]
      /\ o \in Nat /\ l \in Nat /\ x.size \in Nat /\ l <= x.size /\ k \in Int /\ k = l - o
      /\ h \in Seq(Byte)
      /\ k < 0 => h = <<>> /\ Len(h) = 0 /\ Debt(bufs[b]) = 0 - k
      /\ k >= 0 => /\ Len(h) = k /\ Debt(bufs[b]) = 0 /\ h = Bytes(pool.mem, x, o, k)
                   /\ Reads(pool, x, o, k)
  BY Offsets
<1>3. bufs' = [bufs EXCEPT ![b] = r] /\ UNCHANGED <<alive, pool, broken>>
  BY DEF Consume
<1>4. r = [self |-> bufs[b].self, data |-> x, pos |-> o + n, last |-> l]
  <2> DEFINE u == bufs[b]
             f == bufs[b].self
             m == o + n
  <2>1. u = [self |-> f, data |-> x, pos |-> o, last |-> l]
    BY <1>2
  <2>2. r = [u EXCEPT !.pos = m]
    OBVIOUS
  <2> HIDE DEF u, f, x, o, l, m, r
  <2>3. r = [self |-> f, data |-> x, pos |-> m, last |-> l]
    BY <2>1, <2>2, OffsetsSet
  <2> QED
    BY <2>3 DEF f, m
<1>5. o + n \in 0 .. HdrLen + MaxDlen /\ l - (o + n) = k - n
  <2>1. o + n <= HdrLen + MaxDlen
    OBVIOUS
  <2>2. o \in Nat /\ l \in Nat /\ k \in Int /\ k = l - o
    BY <1>2
  <2> HIDE DEF o, l, k, r, h
  <2>3. l - (o + n) = k - n
    BY <2>2
  <2>4. o + n \in 0 .. HdrLen + MaxDlen
    BY <2>1, <2>2, StringFacts
  <2> QED
    BY <2>3, <2>4
<1> HIDE DEF r, h, k
<1>6. /\ Intact' /\ Content' = Put(b, StringIn(pool, r))
      /\ HeldIn(pool, r) = IF k - n < 0 THEN <<>> ELSE Bytes(pool.mem, x, o + n, k - n)
      /\ Debt(r) = IF k - n < 0 THEN 0 - (k - n) ELSE 0
  <2>1. l \in Nat /\ l <= bufs[b].data.size /\ b \in DOMAIN bufs /\ b \in Inputs
    BY <1>2
  <2> DEFINE m == o + n
  <2>2. m \in 0 .. HdrLen + MaxDlen /\ r = [self |-> bufs[b].self, data |-> x, pos |-> m, last |-> l]
    BY <1>4, <1>5
  <2> HIDE DEF m, l
  <2>3. /\ Intact' /\ Content' = Put(b, StringIn(pool, r))
        /\ HeldIn(pool, r) = IF l - m < 0 THEN <<>> ELSE Bytes(pool.mem, x, m, l - m)
        /\ Debt(r) = IF l - m < 0 THEN 0 - (l - m) ELSE 0
    BY <1>3, <2>1, <2>2, MoveTo
  <2> QED
    BY <1>5, <2>3 DEF m, l
<1> HIDE DEF x, o, l
<1>7. StringIn(pool, r) = Strings!WithoutFront(Content[b], n)
  <2>1. HeldIn(pool, r) = SubSeq(h, n + 1, Len(h))
    <3>1. CASE k - n >= 0
      <4>1. n \in 0 .. k /\ k >= 0
        BY <1>2, <3>1
      <4>3. Reads(pool, x, o, k)
        BY <1>2, <4>1
      <4>2. Bytes(pool.mem, x, o + n, k - n) = SubSeq(Bytes(pool.mem, x, o, k), n + 1, k)
        BY <4>1, <4>3, BytesPart
      <4> QED
        BY <1>2, <1>6, <3>1, <4>1, <4>2
    <3>2. CASE k - n < 0
      <4>1. n + 1 > Len(h) /\ Len(h) \in Nat
        BY <1>2, <3>2
      <4>2. SubSeq(h, n + 1, Len(h)) = <<>>
        BY <1>2, <4>1, SubSeqEmpty
      <4> QED
        BY <1>6, <3>2, <4>2
    <3> QED
      BY <1>2, <3>1, <3>2
  <2>2. Debt(r) = Debt(bufs[b]) + Strings!Beyond(Len(h), n)
    <3>1. /\ k \in Int /\ (k < 0 => Len(h) = 0 /\ Debt(bufs[b]) = 0 - k)
          /\ (k >= 0 => Len(h) = k /\ Debt(bufs[b]) = 0)
      BY <1>2
    <3>2. Debt(r) = IF k - n < 0 THEN 0 - (k - n) ELSE 0
      BY <1>6
    <3>3. Strings!Beyond(Len(h), n) = IF n > Len(h) THEN n - Len(h) ELSE 0
      BY DEF Strings!Beyond
    <3>4. CASE k < 0
      BY <3>1, <3>2, <3>3, <3>4
    <3>5. CASE k >= 0
      BY <3>1, <3>2, <3>3, <3>5
    <3> QED
      BY <3>1, <3>4, <3>5
  <2> QED
    BY <1>1, <2>1, <2>2 DEF StringIn, Strings!WithoutFront
<1> QED
  BY <1>1, <1>6, <1>7, PutIs

\* Adding -2 to last takes bytes from the end of the string.
LEMMA AgainStep ==
  ASSUME Intact, NEW b \in Inputs \cap DOMAIN bufs, ReceiveAgain(b)
  PROVE  Intact' /\ Strings!Becomes(b, Strings!WithoutBack(Content[b], 2))
<1> DEFINE x == bufs[b].data
           o == bufs[b].pos
           l == bufs[b].last
           k == Size(b)
           r == [bufs[b] EXCEPT !.last = l - 2]
           h == HeldIn(pool, bufs[b])
<1>1. b \in DOMAIN Content /\ Content[b] = [held |-> h, owed |-> Debt(bufs[b])]
  BY BufFacts DEF StringIn
<1>2. /\ bufs[b] = [self |-> bufs[b].self, data |-> x, pos |-> o, last |-> l]
      /\ o \in Nat /\ l \in Nat /\ x.size \in Nat /\ l <= x.size /\ k \in Int /\ k = l - o
      /\ o <= HdrLen + MaxDlen
      /\ h \in Seq(Byte)
      /\ k < 0 => h = <<>> /\ Len(h) = 0 /\ Debt(bufs[b]) = 0 - k
      /\ k >= 0 => /\ Len(h) = k /\ Debt(bufs[b]) = 0 /\ h = Bytes(pool.mem, x, o, k)
                   /\ Reads(pool, x, o, k)
  BY Offsets
<1>3. /\ bufs' = [bufs EXCEPT ![b] = r] /\ UNCHANGED <<alive, pool, broken>>
      /\ l >= 2
  BY DEF ReceiveAgain
<1>4. r = [self |-> bufs[b].self, data |-> x, pos |-> o, last |-> l - 2]
  <2> DEFINE u == bufs[b]
             f == bufs[b].self
             m == l - 2
  <2>1. u = [self |-> f, data |-> x, pos |-> o, last |-> l]
    BY <1>2
  <2>2. r = [u EXCEPT !.last = m]
    OBVIOUS
  <2> HIDE DEF u, f, x, o, l, m, r
  <2>3. r = [self |-> f, data |-> x, pos |-> o, last |-> m]
    BY <2>1, <2>2, OffsetsSet
  <2> QED
    BY <2>3 DEF f, m
<1>5. l - 2 \in Nat /\ l - 2 <= x.size /\ l - 2 - o = k - 2 /\ o \in 0 .. HdrLen + MaxDlen
  <2>1. /\ o \in Nat /\ l \in Nat /\ x.size \in Nat /\ l <= x.size /\ k \in Int /\ k = l - o
        /\ o <= HdrLen + MaxDlen /\ l >= 2
    BY <1>2, <1>3
  <2> HIDE DEF o, l, k, x, r, h
  <2> QED
    BY <2>1, StringFacts
<1> HIDE DEF r, h, k
<1>6. /\ Intact' /\ Content' = Put(b, StringIn(pool, r))
      /\ HeldIn(pool, r) = IF k - 2 < 0 THEN <<>> ELSE Bytes(pool.mem, x, o, k - 2)
      /\ Debt(r) = IF k - 2 < 0 THEN 0 - (k - 2) ELSE 0
  <2>1. o \in 0 .. HdrLen + MaxDlen /\ b \in DOMAIN bufs /\ b \in Inputs
    BY <1>5
  <2> DEFINE m == l - 2
  <2>2. /\ m \in Nat /\ m <= bufs[b].data.size
        /\ r = [self |-> bufs[b].self, data |-> x, pos |-> o, last |-> m]
    BY <1>4, <1>5
  <2> HIDE DEF m, o
  <2>3. /\ Intact' /\ Content' = Put(b, StringIn(pool, r))
        /\ HeldIn(pool, r) = IF m - o < 0 THEN <<>> ELSE Bytes(pool.mem, x, o, m - o)
        /\ Debt(r) = IF m - o < 0 THEN 0 - (m - o) ELSE 0
    BY <1>3, <2>1, <2>2, MoveTo
  <2> QED
    BY <1>5, <2>3 DEF m, o
<1> HIDE DEF x, o, l
<1>7. StringIn(pool, r) = Strings!WithoutBack(Content[b], 2)
  <2>1. HeldIn(pool, r) = SubSeq(h, 1, Len(h) - 2)
    <3>1. CASE k - 2 >= 0
      <4>1. 2 \in 0 .. k /\ k >= 0
        BY <1>2, <3>1
      <4>3. Len(h) = k /\ h = Bytes(pool.mem, x, o, k)
        BY <1>2, <4>1
      <4>5. Reads(pool, x, o, k)
        BY <1>2, <4>1
      <4>6. \A j \in 0 .. k : Bytes(pool.mem, x, o, k - j)
                              = SubSeq(Bytes(pool.mem, x, o, k), 1, k - j)
        BY <4>5, BytesPart
      <4>2. Bytes(pool.mem, x, o, k - 2) = SubSeq(Bytes(pool.mem, x, o, k), 1, k - 2)
        BY <4>1, <4>6
      <4>4. HeldIn(pool, r) = Bytes(pool.mem, x, o, k - 2)
        BY <1>6, <3>1, <4>3
      <4> QED
        BY <4>2, <4>3, <4>4
    <3>2. CASE k - 2 < 0
      <4>1. 1 > Len(h) - 2 /\ Len(h) - 2 \in Int
        BY <1>2, <3>2
      <4>2. SubSeq(h, 1, Len(h) - 2) = <<>>
        BY <1>2, <4>1, SubSeqEmpty
      <4> QED
        BY <1>6, <3>2, <4>2
    <3> QED
      BY <1>2, <3>1, <3>2
  <2>2. Debt(r) = Debt(bufs[b]) + Strings!Beyond(Len(h), 2)
    <3>1. /\ k \in Int /\ (k < 0 => Len(h) = 0 /\ Debt(bufs[b]) = 0 - k)
          /\ (k >= 0 => Len(h) = k /\ Debt(bufs[b]) = 0)
      BY <1>2
    <3>2. Debt(r) = IF k - 2 < 0 THEN 0 - (k - 2) ELSE 0
      BY <1>6
    <3>3. Strings!Beyond(Len(h), 2) = IF 2 > Len(h) THEN 2 - Len(h) ELSE 0
      BY DEF Strings!Beyond
    <3>4. CASE k < 0
      BY <3>1, <3>2, <3>3, <3>4
    <3>5. CASE k >= 0
      BY <3>1, <3>2, <3>3, <3>5
    <3> QED
      BY <3>1, <3>4, <3>5
  <2> QED
    BY <1>1, <2>1, <2>2 DEF StringIn, Strings!WithoutBack
<1> QED
  BY <1>1, <1>6, <1>7, PutIs

\* Resetting a buffer drops its string, and what it owes.
LEMMA ResetStep ==
  ASSUME Intact, NEW b \in Inputs \cap DOMAIN bufs, Reset(b)
  PROVE  Intact' /\ Strings!Becomes(b, Strings!Holding(<<>>))
<1> DEFINE r == [bufs[b] EXCEPT !.pos = 0, !.last = 0]
<1>1. /\ bufs[b] = [self |-> bufs[b].self, data |-> bufs[b].data, pos |-> bufs[b].pos,
                    last |-> bufs[b].last]
      /\ bufs[b].data.size \in Nat /\ b \in DOMAIN Content
  BY Offsets, BufFacts
<1>2. r = [self |-> bufs[b].self, data |-> bufs[b].data, pos |-> 0, last |-> 0]
  <2> DEFINE u == bufs[b]
             f == u.self
             d == u.data
             o == u.pos
             l == u.last
  <2>1. u = [self |-> f, data |-> d, pos |-> o, last |-> l]
    BY <1>1
  <2>2. r = [u EXCEPT !.pos = 0, !.last = 0]
    OBVIOUS
  <2> HIDE DEF u, f, d, o, l, r
  <2>3. r = [self |-> f, data |-> d, pos |-> 0, last |-> 0]
    BY <2>1, <2>2
  <2> QED
    BY <2>3 DEF u, f, d
<1>3. bufs' = [bufs EXCEPT ![b] = r] /\ UNCHANGED <<alive, pool, broken>>
  BY DEF Reset
<1>4. 0 \in 0 .. HdrLen + MaxDlen /\ 0 \in Nat /\ 0 <= bufs[b].data.size /\ 0 - 0 = 0
  BY <1>1, StringFacts
<1> HIDE DEF r
<1>5. /\ Intact' /\ Content' = Put(b, StringIn(pool, r))
      /\ HeldIn(pool, r) = Bytes(pool.mem, bufs[b].data, 0, 0) /\ Debt(r) = 0
  <2>1. /\ Intact' /\ Content' = Put(b, StringIn(pool, r))
        /\ HeldIn(pool, r) = IF 0 - 0 < 0 THEN <<>> ELSE Bytes(pool.mem, bufs[b].data, 0, 0 - 0)
        /\ Debt(r) = IF 0 - 0 < 0 THEN 0 - (0 - 0) ELSE 0
    BY <1>2, <1>3, <1>4, MoveTo
  <2> QED
    BY <1>4, <2>1
<1>6. StringIn(pool, r) = Strings!Holding(<<>>)
  BY <1>5 DEF StringIn, Strings!Holding, Bytes
<1> QED
  BY <1>1, <1>5, <1>6, PutIs

-----------------------------------------------------------------------------
\* What is written behind last, as far as it lies behind pos.
LEMMA BytesBehind ==
  ASSUME NEW p, NEW a, NEW x, NEW s, NEW q, Writes(p, a, x, s, q), NEW j \in 0 .. Len(s)
  PROVE  Bytes(q.mem, a, x + j, Len(s) - j) = SubSeq(s, j + 1, Len(s))
<1> DEFINE l == Len(s)
<1>1. /\ PoolOK(p) /\ a \in AreaType /\ Inside(p, a) /\ x \in Nat /\ s \in Seq(Byte)
      /\ x + l <= a.size /\ l \in Nat
  BY DEF Writes
<1>2. PoolOK(q) /\ Inside(q, a)
  BY <1>1, WrittenOK DEF StaysIn
<1>3. Reads(q, a, x, l)
  BY <1>1, <1>2 DEF Reads
<1>4. Bytes(q.mem, a, x, l) = s
  <2>1. Bytes(q.mem, a, x, 0 + Len(s)) = Bytes(p.mem, a, x, 0) \o s
    BY <1>1, BytesAppended
  <2>2. Bytes(p.mem, a, x, 0) = <<>>
    BY DEF Bytes
  <2> QED
    BY <1>1, <2>1, <2>2, ConcatEmptySeq
<1> HIDE DEF l
<1>5. j \in 0 .. l
  BY DEF l
<1>6. Bytes(q.mem, a, x + j, l - j) = SubSeq(Bytes(q.mem, a, x, l), j + 1, l)
  BY <1>3, <1>5, BytesPart
<1> QED
  BY <1>4, <1>6 DEF l

\* Bytes that are written where there is room extend the string, or pay what it
\* owes, and change no other.
LEMMA InPlaceStep ==
  ASSUME Intact, NEW b \in DOMAIN bufs, NEW s \in Seq(Byte), AppendInPlace(b, s, Len(s))
  PROVE  Intact' /\ Strings!Extend(b, s)
<1> DEFINE d == bufs[b].data
           o == bufs[b].pos
           l == bufs[b].last
           k == Size(b)
           n == Len(s)
           h == HeldIn(pool, bufs[b])
           r == [bufs[b] EXCEPT !.last = l + n]
           t == [pool EXCEPT !.mem = Written(pool.mem, d, l, s)]
<1>1. /\ BufOK(pool, bufs[b]) /\ PoolOK(pool) /\ b \in DOMAIN Content
      /\ alive /\ broken = FALSE /\ b \in Bufs /\ Ordered(b, bufs[b])
      /\ ~Overlap(bufs[b].self, d)
      /\ Content[b] = [held |-> h, owed |-> Debt(bufs[b])]
  BY BufFacts DEF StringIn
<1>2. /\ bufs[b] = [self |-> bufs[b].self, data |-> d, pos |-> o, last |-> l]
      /\ o \in Nat /\ l \in Nat /\ d.size \in Nat /\ k \in Int /\ k = l - o
      /\ h \in Seq(Byte)
      /\ k < 0 => h = <<>> /\ Debt(bufs[b]) = 0 - k
      /\ k >= 0 => Debt(bufs[b]) = 0 /\ h = Bytes(pool.mem, d, o, k)
  BY Offsets
<1>3. /\ pool' = t
      /\ bufs' = [bufs EXCEPT ![b] = r]
      /\ broken' = (broken \/ Overruns(pool.mem, d, l, n))
      /\ alive' = alive
      /\ n <= d.size - l
  BY DEF AppendInPlace, Room
<1>4. /\ n \in Nat /\ l + n <= d.size /\ l + n \in Nat
      /\ d \in AreaType /\ Inside(pool, d)
  <2>1. d \in AreaType /\ Inside(pool, d)
    BY <1>1 DEF BufOK
  <2> HIDE DEF d, l, r, t, h, k, o
  <2> QED
    BY <1>2, <1>3, <2>1
<1>5. /\ r = [self |-> bufs[b].self, data |-> d, pos |-> o, last |-> l + n]
      /\ r.self = bufs[b].self /\ r.data = d /\ r.pos = o /\ r.last = l + n
  <2> DEFINE u == bufs[b]
             f == bufs[b].self
             m == l + n
  <2>1. u = [self |-> f, data |-> d, pos |-> o, last |-> l]
    BY <1>2
  <2>2. r = [u EXCEPT !.last = m]
    OBVIOUS
  <2> HIDE DEF u, f, d, o, l, m, r
  <2>3. r = [self |-> f, data |-> d, pos |-> o, last |-> m]
    BY <2>1, <2>2, OffsetsSet
  <2> QED
    BY <2>3 DEF f, m
<1>6. Writes(pool, d, l, s, t)
  BY <1>1, <1>2, <1>4 DEF Writes
<1> HIDE DEF r, t, h, k
<1>7. /\ PoolOK(t) /\ Owed(t) = Owed(pool) /\ t.mem = Written(pool.mem, d, l, s)
      /\ StaysIn(pool, t) /\ ~Overruns(pool.mem, d, l, n)
  BY <1>6, WrittenOK
<1>8. BufOK(t, r) /\ Ordered(b, r)
  <2>1. BufOK(t, bufs[b])
    BY <1>1, <1>7, BufStays
  <2>2. BufOK(t, r)
    BY <1>4, <1>5, <2>1 DEF BufOK
  <2>3. Ordered(b, r)
    BY <1>1, <1>2, <1>4, <1>5 DEF Ordered
  <2> QED
    BY <2>2, <2>3
<1>9. ASSUME NEW c \in DOMAIN bufs, c # b
      PROVE  Separate(r, bufs[c]) /\ HeldIn(t, bufs[c]) = HeldIn(pool, bufs[c])
  <2>1. BufOK(pool, bufs[c]) /\ Separate(bufs[b], bufs[c])
    BY <1>9, BufFacts
  <2>2. Separate(r, bufs[c])
    BY <1>5, <2>1 DEF Separate
  <2>3. ~Overlap(bufs[c].data, d)
    BY <2>1 DEF Separate
  <2> QED
    BY <1>6, <2>1, <2>2, <2>3, HeldOther
<1>10. bufs' = [c \in DOMAIN bufs \cup {b} |-> IF c = b THEN r ELSE bufs[c]]
  BY <1>3 DEF Intact, Shape
<1>11. Intact' /\ Content' = Put(b, StringIn(t, r))
  BY <1>1, <1>3, <1>5, <1>7, <1>8, <1>9, <1>10, StepInv
<1>12. /\ HeldIn(t, r) = IF k + n < 0 THEN <<>> ELSE Bytes(t.mem, d, o, k + n)
       /\ Debt(r) = IF k + n < 0 THEN 0 - (k + n) ELSE 0
  <2>1. r.last - r.pos = k + n
    <3> HIDE DEF d, o, l, n
    <3> QED
      BY <1>2, <1>4, <1>5
  <2> QED
    BY <1>5, <2>1 DEF HeldIn, Debt
<1> HIDE DEF d, o, l
<1>13. HeldIn(t, r) = h \o SubSeq(s, Debt(bufs[b]) + 1, n)
  <2>1. CASE k >= 0
    <3>1. Bytes(t.mem, d, o, k + Len(s)) = Bytes(pool.mem, d, o, k) \o s
      <4>1. o \in Nat /\ k \in Nat /\ l = o + k
        BY <1>2, <2>1
      <4> QED
        BY <1>6, <4>1, BytesAppended
    <3>2. SubSeq(s, 0 + 1, n) = s
      BY <1>4, SubSeqFull
    <3>3. HeldIn(t, r) = Bytes(t.mem, d, o, k + n)
      BY <1>2, <1>4, <1>12, <2>1
    <3> QED
      BY <1>2, <2>1, <3>1, <3>2, <3>3
  <2>2. CASE k < 0 /\ k + n >= 0
    <3> DEFINE j == 0 - k
    <3>1. j \in 0 .. Len(s) /\ l + j = o /\ Len(s) - j = k + n
      BY <1>2, <1>4, <2>2
    <3> HIDE DEF j
    <3>2. Bytes(t.mem, d, l + j, Len(s) - j) = SubSeq(s, j + 1, Len(s))
      BY <1>6, <3>1, BytesBehind
    <3>3. HeldIn(t, r) = Bytes(t.mem, d, o, k + n)
      BY <1>2, <1>4, <1>12, <2>2
    <3>4. h = <<>> /\ Debt(bufs[b]) = j
      BY <1>2, <2>2 DEF j
    <3>5. SubSeq(s, j + 1, n) \in Seq(Byte)
      <4>1. 1 <= j + 1
        BY <3>1
      <4> QED
        BY <3>1, <4>1, SubSeqProperties
    <3>6. <<>> \o SubSeq(s, j + 1, n) = SubSeq(s, j + 1, n)
      BY <3>5, ConcatEmptySeq
    <3> QED
      BY <3>1, <3>2, <3>3, <3>4, <3>6
  <2>3. CASE k + n < 0
    <3>1. h = <<>> /\ Debt(bufs[b]) = 0 - k /\ 0 - k + 1 > n /\ 0 - k + 1 \in Int
      BY <1>2, <1>4, <2>3
    <3>2. SubSeq(s, 0 - k + 1, n) = <<>>
      BY <1>4, <3>1, SubSeqEmpty
    <3>3. <<>> \o <<>> = <<>>
      OBVIOUS
    <3> QED
      BY <1>12, <2>3, <3>1, <3>2, <3>3
  <2>4. k >= 0 \/ (k < 0 /\ k + n >= 0) \/ k + n < 0
    <3>1. k \in Int /\ n \in Nat
      BY <1>2, <1>4
    <3> HIDE DEF n
    <3> QED
      BY <3>1
  <2> QED
    BY <2>1, <2>2, <2>3, <2>4
<1>14. Debt(r) = Strings!Beyond(n, Debt(bufs[b]))
  <2>1. /\ k \in Int /\ n \in Nat /\ (k < 0 => Debt(bufs[b]) = 0 - k)
        /\ (k >= 0 => Debt(bufs[b]) = 0)
    BY <1>2, <1>4
  <2>2. Debt(r) = IF k + n < 0 THEN 0 - (k + n) ELSE 0
    BY <1>12
  <2>3. Strings!Beyond(n, Debt(bufs[b])) =
          IF Debt(bufs[b]) > n THEN Debt(bufs[b]) - n ELSE 0
    BY DEF Strings!Beyond
  <2> HIDE DEF n
  <2>4. CASE k < 0
    BY <2>1, <2>2, <2>3, <2>4
  <2>5. CASE k >= 0
    BY <2>1, <2>2, <2>3, <2>5
  <2> QED
    BY <2>1, <2>4, <2>5
<1>15. StringIn(t, r) = Strings!Added(Content[b], s)
  BY <1>1, <1>13, <1>14 DEF StringIn, Strings!Added
<1>16. Strings!Becomes(b, Strings!Added(Content[b], s))
  BY <1>1, <1>11, <1>15, PutIs
<1> QED
  BY <1>11, <1>16 DEF Strings!Extend

\* The capacity is an unsigned.
LEMMA CapacityBound ==
  ASSUME Intact, NEW b \in DOMAIN bufs, NEW n \in Nat
  PROVE  Capacity(b, n) \in Nat /\ Capacity(b, n) < Wrap
<1> DEFINE z == bufs[b].data.size
           k == Size(b)
           e == ((k % Wrap) + n) % SizeWrap
<1>1. z \in Nat /\ k \in Int
  BY Offsets
<1>2. Wrap \in Nat \ {0} /\ SizeWrap \in Nat \ {0}
  BY BuffersAssumption, PoolAssumption, StringFacts
<1>3. (2 * z) % Wrap \in 0 .. Wrap - 1
  <2> HIDE DEF z
  <2> QED
    BY <1>1, <1>2
<1>4. e \in Nat
  <2> HIDE DEF k
  <2>1. k % Wrap \in Nat
    BY <1>1, <1>2
  <2> QED
    BY <1>2, <2>1
<1>5. Capacity(b, n) = IF (2 * z) % Wrap < e THEN e % Wrap ELSE (2 * z) % Wrap
  BY DEF Capacity
<1> HIDE DEF e, z
<1>6. e % Wrap \in 0 .. Wrap - 1
  BY <1>2, <1>4
<1> QED
  BY <1>2, <1>3, <1>5, <1>6

\* The capacity a buffer grows to is large enough: nothing wraps around when
\* what is appended has a length.
LEMMA CapacityFits ==
  ASSUME Intact, NEW b \in DOMAIN bufs, b \notin Inputs, NEW n \in Nat, n > Room(b),
         bufs[b].last + n <= MaxContent
  PROVE  Size(b) + n <= Capacity(b, n)
<1> DEFINE z == bufs[b].data.size
           l == bufs[b].last
           k == Size(b)
<1>1. z \in Nat /\ l \in Nat /\ k \in Nat /\ k <= l
  BY Offsets
<1>2. z < l + n /\ l + n <= MaxContent
  <2>1. n > z - l
    BY DEF Room
  <2>2. l + n <= MaxContent
    OBVIOUS
  <2> HIDE DEF z, l, k
  <2> QED
    BY <1>1, <2>1, <2>2
<1>3. MaxContent \in Nat /\ Wrap \in Nat /\ 2 * MaxContent <= Wrap /\ SizeWrap \in Nat /\ Wrap <= SizeWrap
  BY BuffersAssumption, PoolAssumption
<1>4. Capacity(b, n) = IF (2 * z) % Wrap < ((k % Wrap) + n) % SizeWrap
                       THEN (((k % Wrap) + n) % SizeWrap) % Wrap ELSE (2 * z) % Wrap
  BY DEF Capacity
<1> HIDE DEF z, l, k
<1>5. /\ 2 * z < Wrap /\ k + n < Wrap /\ k < Wrap /\ k + n < SizeWrap
      /\ 2 * z \in Nat /\ k + n \in Nat
  BY <1>1, <1>2, <1>3
<1>6. (2 * z) % Wrap = 2 * z /\ k % Wrap = k
  BY <1>1, <1>3, <1>5, SmallModulo
<1>7. (k + n) % SizeWrap = k + n /\ (k + n) % Wrap = k + n
  BY <1>3, <1>5, SmallModulo
<1>8. Capacity(b, n) = IF 2 * z < k + n THEN k + n ELSE 2 * z
  BY <1>4, <1>6, <1>7
<1>9. k + n <= Capacity(b, n)
  BY <1>5, <1>8
<1> QED
  BY <1>9 DEF k

\* The buffer moves to a new area of the pool: first what it holds is written
\* there, then what is appended.
LEMMA GrowsStep ==
  ASSUME Intact, NEW b \in DOMAIN bufs, b \notin Inputs, NEW s \in Seq(Byte),
         bufs[b].last + Len(s) <= MaxContent, AppendGrows(b, s, Len(s))
  PROVE  Intact' /\ (Content' = Content \/ Strings!Extend(b, s))
<1> DEFINE n   == Len(s)
           cap == Capacity(b, n)
           q   == Palloc(pool, cap)
           a   == PallocArea(pool, cap)
           h   == Held(b)
           k   == Size(b)
           u   == [q EXCEPT !.mem = Written(q.mem, a, 0, h)]
           t   == [u EXCEPT !.mem = Written(u.mem, a, k, s)]
           r   == Moved(bufs[b], a, n)
<1>1. /\ BufOK(pool, bufs[b]) /\ PoolOK(pool) /\ b \in DOMAIN Content
      /\ alive /\ broken = FALSE /\ b \in Bufs
      /\ h = HeldIn(pool, bufs[b])
      /\ Content[b] = [held |-> h, owed |-> Debt(bufs[b])]
  BY BufFacts DEF StringIn
<1>2. /\ h \in Seq(Byte) /\ Len(h) = k /\ k \in Nat /\ n \in Nat /\ Debt(bufs[b]) = 0
  <2>1. k \in Nat
    BY Offsets
  <2>2. k >= 0
    BY <2>1
  <2> QED
    BY <1>1, <2>1, <2>2, Offsets
<1>3. cap \in Nat /\ k + n <= cap /\ cap <= Wrap
  <2>1. n > Room(b) /\ bufs[b].last + n <= MaxContent
    BY DEF AppendGrows
  <2>2. cap \in Nat /\ cap < Wrap
    BY <1>2, CapacityBound
  <2>3. k + n <= cap
    BY <1>2, <2>1, CapacityFits
  <2> QED
    BY <2>2, <2>3, StringFacts
<1>4. /\ PoolOK(q) /\ Grown(pool, q) /\ Owed(q) = Owed(pool) /\ ~HitsBug(pool, cap)
      /\ a \in AreaType /\ a.size = cap /\ Inside(q, a) /\ StaysIn(pool, q)
  BY <1>1, <1>3, PallocOK DEF StaysIn
<1>5. \/ AllocFails(pool, cap) /\ UNCHANGED broken
      \/ HitsBug(pool, cap) \/ Overruns(q.mem, a, 0, k) \/ Overruns(q.mem, a, k, n)
      \/ /\ pool' = [q EXCEPT !.mem = Written(Written(q.mem, a, 0, h), a, k, s)]
         /\ bufs' = [bufs EXCEPT ![b] = r]
         /\ UNCHANGED <<alive, broken>>
  BY DEF AppendGrows
<1>6. CASE AllocFails(pool, cap) /\ UNCHANGED broken
  BY <1>1, <1>6, AllocFailsKeeps, StutterInv
<1>8. ~(HitsBug(pool, cap) \/ Overruns(q.mem, a, 0, k) \/ Overruns(q.mem, a, k, n))
  <2> HIDE DEF cap, q, a, h, k, t, u, r
  <2>1. Writes(q, a, 0, h, [q EXCEPT !.mem = Written(q.mem, a, 0, h)])
    BY <1>2, <1>3, <1>4 DEF Writes
  <2>2. Writes(q, a, k, s, [q EXCEPT !.mem = Written(q.mem, a, k, s)])
    BY <1>2, <1>3, <1>4 DEF Writes
  <2>3. ~Overruns(q.mem, a, 0, k)
    BY <1>2, <2>1, WrittenOK
  <2>4. ~Overruns(q.mem, a, k, n)
    BY <2>2, WrittenOK
  <2> QED
    BY <1>4, <2>3, <2>4
<1>7. CASE /\ pool' = [q EXCEPT !.mem = Written(Written(q.mem, a, 0, h), a, k, s)]
           /\ bufs' = [bufs EXCEPT ![b] = r]
           /\ UNCHANGED <<alive, broken>>
  <2> HIDE DEF cap, q, a, h, k
  <2>1. Writes(q, a, 0, h, u)
    BY <1>2, <1>3, <1>4 DEF Writes
  <2> HIDE DEF u
  <2>4. /\ PoolOK(u) /\ Owed(u) = Owed(q) /\ u.mem = Written(q.mem, a, 0, h)
        /\ StaysIn(q, u)
    BY <2>1, WrittenOK
  <2>5. Writes(u, a, k, s, t)
    BY <1>2, <1>3, <1>4, <2>4 DEF Writes, StaysIn
  <2>6. pool' = t
    <3>1. u = [q EXCEPT !.mem = u.mem]
      BY <2>4 DEF u
    <3>2. q = Pool(q.cache, q.last, q.block, q.mem, q.heap)
      BY <1>4, PoolLens
    <3>3. pool' = [q EXCEPT !.mem = Written(u.mem, a, k, s)]
      BY <1>7, <2>4
    <3> DEFINE w == Written(u.mem, a, k, s)
               v == u.mem
    <3> HIDE DEF w
    <3>4. pool' = Pool(q.cache, q.last, q.block, w, q.heap)
      BY <3>2, <3>3 DEF Pool, w
    <3>5. u = Pool(q.cache, q.last, q.block, v, q.heap)
      <4> HIDE DEF v
      <4>1. u = [q EXCEPT !.mem = v]
        BY <3>1 DEF v
      <4> QED
        BY <3>2, <4>1 DEF Pool
    <3>6. t = Pool(q.cache, q.last, q.block, w, q.heap)
      <4>1. t = [u EXCEPT !.mem = w]
        BY DEF w
      <4> HIDE DEF t, v
      <4> QED
        BY <3>5, <4>1 DEF Pool
    <3> QED
      BY <3>4, <3>6
  <2> HIDE DEF t
  <2>7. /\ PoolOK(t) /\ Owed(t) = Owed(u) /\ t.mem = Written(u.mem, a, k, s)
        /\ StaysIn(u, t)
    BY <2>5, WrittenOK
  <2>8. StaysIn(pool, t) /\ Inside(t, a) /\ Owed(t) = Owed(pool)
    BY <1>4, <2>4, <2>7 DEF StaysIn
  <2>9. /\ r = [self |-> bufs[b].self, data |-> a, pos |-> 0, last |-> k + n]
        /\ r.self = bufs[b].self /\ r.data = a /\ r.pos = 0 /\ r.last = k + n
    <3> DEFINE e == bufs[b]
               f == e.self
               d == e.data
               o == e.pos
               l == e.last
    <3>1. e = [self |-> f, data |-> d, pos |-> o, last |-> l]
      BY <1>1 DEF BufOK
    <3>2. r = [e EXCEPT !.data = a, !.pos = 0, !.last = (l - o) + n]
      BY DEF Moved
    <3>3. k = l - o
      BY DEF k, Size
    <3> HIDE DEF e, f, d, o, l, r, n
    <3>4. r = [self |-> f, data |-> a, pos |-> 0, last |-> k + n]
      BY <3>1, <3>2, <3>3
    <3> QED
      BY <3>4 DEF e, f
  <2> HIDE DEF r
  <2>10. BufOK(t, r) /\ Ordered(b, r)
    <3>1. BufOK(t, bufs[b])
      BY <1>1, <2>8, BufStays
    <3>2. 0 \in 0 .. HdrLen + MaxDlen /\ k + n \in Nat /\ 0 <= k + n
      BY <1>2, StringFacts
    <3> QED
      BY <1>3, <1>4, <2>8, <2>9, <3>1, <3>2 DEF BufOK, Ordered
  <2>11. ASSUME NEW y \in AreaType, Placed(pool, y)
         PROVE  ~Overlap(a, y) /\ ~Overlap(y, a)
    BY <1>1, <1>3, <2>11, NewApart DEF a
  <2>12. ~Overlap(r.self, r.data)
    BY <1>1, <2>9, <2>11 DEF BufOK
  <2>13. ASSUME NEW c \in DOMAIN bufs, c # b
         PROVE  Separate(r, bufs[c]) /\ HeldIn(t, bufs[c]) = HeldIn(pool, bufs[c])
    <3>1. BufOK(pool, bufs[c]) /\ Separate(bufs[b], bufs[c])
      BY <2>13, BufFacts
    <3>2. BufOK(q, bufs[c]) /\ BufOK(u, bufs[c])
      BY <3>1, <1>4, <2>4, BufStays
    <3>3. ASSUME NEW y \in {bufs[c].self, bufs[c].data}
          PROVE  /\ ~Overlap(a, y) /\ ~Overlap(y, a)
                 /\ ~Overlap(bufs[b].self, y) /\ ~Overlap(y, bufs[b].self)
      <4>1. y \in AreaType /\ Placed(pool, y)
        BY <3>1 DEF BufOK, Placed
      <4> QED
        BY <4>1, <2>11, <3>1 DEF Separate
    <3>4. Separate(r, bufs[c])
      BY <3>3, <2>9 DEF Separate
    <3>5. ~Overlap(bufs[c].data, a)
      BY <3>3
    <3>6. HeldIn(q, bufs[c]) = HeldIn(pool, bufs[c])
      BY <1>1, <1>4, <3>1, HeldGrown
    <3>7. HeldIn(u, bufs[c]) = HeldIn(q, bufs[c])
      BY <2>1, <3>2, <3>5, HeldOther
    <3>8. HeldIn(t, bufs[c]) = HeldIn(u, bufs[c])
      BY <2>5, <3>2, <3>5, HeldOther
    <3> QED
      BY <3>4, <3>6, <3>7, <3>8
  <2>14. broken' = FALSE
    BY <1>1, <1>7
  <2>15. bufs' = [c \in DOMAIN bufs \cup {b} |-> IF c = b THEN r ELSE bufs[c]]
    BY <1>7 DEF Intact, Shape
  <2>16. Intact' /\ Content' = Put(b, StringIn(t, r))
    BY <1>1, <1>7, <2>6, <2>7, <2>8, <2>10, <2>12, <2>13, <2>14, <2>15, StepInv
  <2>17. HeldIn(t, r) = h \o s /\ Debt(r) = 0
    <3>1. k + n \in Nat /\ ~(k + n < 0) /\ 0 + k = k
      BY <1>2
    <3>2. HeldIn(t, r) = Bytes(t.mem, a, 0, k + n) /\ Debt(r) = 0
      <4>3. r.last = k + n /\ r.data = a /\ r.pos = 0
        BY <2>9
      <4> HIDE DEF n
      <4>1. r.last - r.pos = k + n /\ r.data = a /\ r.pos = 0
        BY <3>1, <4>3
      <4>2. ~(r.last - r.pos < 0)
        BY <3>1, <4>1
      <4> QED
        BY <4>1, <4>2 DEF HeldIn, Debt
    <3>3. Bytes(t.mem, a, 0, k + n) = Bytes(u.mem, a, 0, k) \o s
      BY <1>2, <2>5, <3>1, BytesAppended
    <3>4. Bytes(u.mem, a, 0, 0 + Len(h)) = Bytes(q.mem, a, 0, 0) \o h
      BY <2>1, BytesAppended
    <3>5. Bytes(q.mem, a, 0, 0) = <<>>
      BY DEF Bytes
    <3>6. Bytes(u.mem, a, 0, k) = h
      BY <1>2, <3>4, <3>5, ConcatEmptySeq
    <3> QED
      BY <3>2, <3>3, <3>6
  <2>18. StringIn(t, r) = Strings!Added(Content[b], s)
    <3>1. SubSeq(s, 0 + 1, Len(s)) = s /\ Strings!Beyond(Len(s), 0) = 0
      BY <1>2, SubSeqFull DEF Strings!Beyond
    <3>2. Content[b].held = h /\ Content[b].owed = 0
      BY <1>1, <1>2
    <3>3. Strings!Added(Content[b], s) = [held |-> h \o s, owed |-> 0]
      BY <3>1, <3>2 DEF Strings!Added
    <3> QED
      BY <2>17, <3>3 DEF StringIn
  <2>19. Strings!Becomes(b, Strings!Added(Content[b], s))
    BY <1>1, <2>16, <2>18, PutIs
  <2> QED
    BY <2>16, <2>19 DEF Strings!Extend
<1> QED
  BY <1>5, <1>6, <1>7, <1>8

\* A buffer that owes bytes is appended: what is handed over as its length is
\* more than any page or block is long.  The copy leaves the new area, or there
\* is none.
LEMMA WrapStep ==
  ASSUME Intact, NEW b \in DOMAIN bufs, b \notin Inputs, NEW c \in DOMAIN bufs,
         Size(c) < 0, AppendBuf(b, c)
  PROVE  c \in Inputs /\ IInv' /\ Content' = Content
<1> DEFINE n   == Size(c) % SizeWrap
           cap == Capacity(b, n)
           q   == Palloc(pool, cap)
           a   == PallocArea(pool, cap)
           k   == Size(b)
           z   == bufs[b].data.size
<1>1. /\ Wrap \in Nat \ {0} /\ PageSize \in Nat \ {0} /\ HdrLen \in Nat /\ MaxDlen \in Nat
      /\ SizeWrap \in Nat /\ Wrap + PageSize + HdrLen + MaxDlen <= SizeWrap
  BY BuffersAssumption, PoolAssumption, StringFacts
<1>2. c \in Inputs
  <2>1. c \notin Inputs => Size(c) \in Nat
    BY Offsets
  <2> QED
    BY <2>1
<1>3. n \in Nat /\ Wrap + PageSize <= n
  <2>1. Size(c) \in Int /\ Size(c) >= 0 - (HdrLen + MaxDlen)
    <3>1. /\ bufs[c].pos \in Nat /\ bufs[c].last \in Nat /\ bufs[c].pos <= HdrLen + MaxDlen
          /\ Size(c) \in Int /\ Size(c) = bufs[c].last - bufs[c].pos
      BY Offsets
    <3> QED
      BY <1>1, <3>1
  <2> DEFINE m == Size(c)
  <2>2. m \in Int /\ m < 0 /\ 0 - m <= HdrLen + MaxDlen
    BY <1>1, <2>1
  <2> HIDE DEF m
  <2>3. m % SizeWrap = m + SizeWrap
    <3>1. SizeWrap > 0 /\ m + SizeWrap >= 0 /\ m + SizeWrap < SizeWrap
      BY <1>1, <2>2
    <3> QED
      BY <1>1, <2>2, <3>1
  <2>4. m % SizeWrap \in Nat /\ Wrap + PageSize <= m % SizeWrap
    BY <1>1, <2>2, <2>3
  <2> QED
    BY <2>4 DEF m
<1> HIDE DEF n
<1>4. /\ PoolOK(pool) /\ alive \in BOOLEAN /\ broken = FALSE /\ bufs[b].data.size <= Wrap
      /\ k \in Nat /\ z \in Nat /\ z <= Wrap /\ bufs[b].last \in Nat
  BY BufFacts, Offsets
<1>5. AppendMem(b, Held(c), n)
  BY DEF AppendBuf, n
<1>6. ~(n <= Room(b))
  <2>1. Room(b) = z - bufs[b].last
    BY DEF Room
  <2> HIDE DEF z
  <2> QED
    BY <1>1, <1>3, <1>4, <2>1
<1>7. \/ AllocFails(pool, cap) /\ UNCHANGED broken
      \/ broken' = TRUE /\ UNCHANGED <<alive, pool, bufs>>
      \/ ~Overruns(q.mem, a, k, n)
  BY <1>5, <1>6 DEF AppendMem, AppendInPlace, AppendGrows
<1>8. cap \in Nat /\ cap < Wrap
  BY <1>3, CapacityBound
<1> HIDE DEF cap, k
<1>9. Overruns(q.mem, a, k, n)
  <2>1. PoolOK(q) /\ a \in AreaType /\ Inside(q, a) /\ Len(q.mem[a.m]) <= cap + PageSize
    BY <1>4, <1>8, PallocOK
  <2> HIDE DEF q, a
  <2>2. Len(q.mem[a.m]) \in Nat /\ a.from \in Nat
    BY <2>1, PoolLens DEF Inside, AreaType
  <2> DEFINE len  == Len(q.mem[a.m])
             from == a.from
  <2>3. len \in Nat /\ from \in Nat /\ len <= cap + PageSize
    BY <2>1, <2>2
  <2> HIDE DEF len, from
  <2>4. from + k + n > len
    BY <1>1, <1>3, <1>4, <1>8, <2>3
  <2> QED
    BY <2>4 DEF Overruns, len, from
<1>10. CASE AllocFails(pool, cap) /\ UNCHANGED broken
  <2>1. Intact' /\ Content' = Content
    BY <1>4, <1>10, AllocFailsKeeps, StutterInv
  <2> QED
    BY <1>2, <2>1 DEF IInv, Intact
<1>11. CASE broken' = TRUE /\ UNCHANGED <<alive, pool, bufs>>
  <2>1. IInv'
    BY <1>11 DEF Intact, IInv, Shape
  <2>2. Content' = Content
    BY <1>11 DEF Content, Held, Size
  <2> QED
    BY <1>2, <2>1, <2>2
<1> QED
  BY <1>7, <1>9, <1>10, <1>11

-----------------------------------------------------------------------------
\* What every step has to do: it keeps the invariant, is a step of the strings
\* or none, and breaks nothing but by appending a buffer that owes bytes.
StepOK ==
  /\ IInv'
  /\ [Strings!StringsNext]_Content
  /\ broken' # broken =>
       \E b \in Outputs \cap DOMAIN bufs, c \in Inputs \cap DOMAIN bufs :
         Size(c) < 0 /\ AppendBuf(b, c)

\* The invariant holds before a pool exists.
LEMMA InitInv == Init => IInv /\ Strings!StringsInit
<1> SUFFICES ASSUME Init PROVE IInv /\ Strings!StringsInit
  OBVIOUS
<1>1. alive = FALSE /\ broken = FALSE /\ bufs = [b \in {} |-> {}]
  BY DEF Init
<1>2. pool = Pool(<<>>, 0, <<>>, <<>>, 0)
  BY DEF Init, NoPool, Pool
<1>3. PoolOK(pool) /\ Owed(pool) = 0
  BY <1>2 DEF PoolOK, Pool, Owed
<1>4. IInv
  BY <1>1, <1>3 DEF IInv, Shape
<1>5. Content = [b \in {} |-> Strings!Holding(<<>>)]
  BY <1>1 DEF Content
<1> QED
  BY <1>4, <1>5 DEF Strings!StringsInit

\* A new pool keeps the invariant and is without buffers.
LEMMA CreatePoolStep ==
  ASSUME Intact, CreatePool
  PROVE  Intact' /\ Content' = Content
<1>1. /\ alive = FALSE /\ alive' = TRUE /\ bufs' = bufs /\ broken' = FALSE
      /\ DOMAIN bufs = {}
  BY DEF CreatePool, Intact, Shape
<1>2. pool' = Pool(<<>>, 0, <<>>, <<>>, 1)
  BY DEF CreatePool, EmptyPool, NoPool, Pool
<1>3. PoolOK(pool') /\ Owed(pool') = 1
  BY <1>2 DEF PoolOK, Pool, Owed
<1>4. Intact'
  BY <1>1, <1>3 DEF Intact, Shape
<1>5. Content' = Content
  BY <1>1 DEF Content
<1> QED
  BY <1>4, <1>5

\* The destruction of a pool frees all of it and drops the buffers.
LEMMA DestroyPoolStep ==
  ASSUME Intact, DestroyPool
  PROVE  Intact' /\ Strings!DropAll
<1>1. /\ alive = TRUE /\ alive' = FALSE /\ bufs' = [b \in {} |-> {}] /\ broken' = FALSE
      /\ Owed(pool) = 1 /\ PoolOK(pool)
  BY DEF DestroyPool, Intact, Shape
<1>2. pool' = Pool(<<>>, 0, <<>>, <<>>, 0)
  <2>1. pool.heap - 2 * Len(pool.cache) - 2 * Len(pool.block) - 1 = 0
    BY <1>1, PoolLens DEF Owed
  <2> QED
    BY <2>1 DEF DestroyPool, Destroyed, NoPool, Pool
<1>3. PoolOK(pool') /\ Owed(pool') = 0
  BY <1>2 DEF PoolOK, Pool, Owed
<1>4. Intact'
  BY <1>1, <1>3 DEF Intact, Shape
<1>5. Content' = [b \in {} |-> Strings!Holding(<<>>)]
  BY <1>1 DEF Content
<1> QED
  BY <1>4, <1>5 DEF Strings!DropAll

\* A step that breaks nothing and is a step of the strings.
LEMMA Harmless ==
  ASSUME Intact, Intact', [Strings!StringsNext]_Content
  PROVE  StepOK
<1>1. IInv' /\ ~(broken' # broken)
  BY DEF Intact, IInv
<1> QED
  BY <1>1 DEF StepOK

\* What the handlers do to a receive buffer.
LEMMA InputStep ==
  ASSUME Intact, NEW b \in Inputs \cap DOMAIN bufs, Input(b)
  PROVE  Intact' /\ Strings!StringsNext
<1>1. b \in DOMAIN Content /\ b \in Inputs \cap DOMAIN Content
  BY BufFacts
<1>2. HdrLen \in Nat /\ MaxDlen \in Nat
  BY StringFacts
<1>3. ASSUME NEW s \in Chunks, Receive(b, s)
      PROVE  Intact' /\ Strings!StringsNext
  <2>1. s \in Seq(Byte) /\ AppendInPlace(b, s, Len(s))
    BY <1>3, StringFacts DEF Receive
  <2>2. Intact' /\ Strings!Extend(b, s)
    BY <2>1, InPlaceStep
  <2> QED
    BY <1>1, <2>2 DEF Strings!StringsNext
<1>4. CASE ReceiveAgain(b)
  <2>1. Intact' /\ Strings!Becomes(b, Strings!WithoutBack(Content[b], 2))
    BY <1>4, AgainStep
  <2>2. Strings!Take(b)
    BY <2>1 DEF Strings!Take
  <2> QED
    BY <1>1, <2>1, <2>2 DEF Strings!StringsNext
<1>5. CASE ConsumeHeader(b)
  <2>1. bufs[b].pos = 0 /\ Consume(b, HdrLen)
    BY <1>5 DEF ConsumeHeader
  <2>2. bufs[b].pos + HdrLen <= HdrLen + MaxDlen
    BY <1>2, <2>1
  <2>3. Intact' /\ Strings!Becomes(b, Strings!WithoutFront(Content[b], HdrLen))
    BY <1>2, <2>1, <2>2, ConsumeStep
  <2>4. Strings!Take(b)
    BY <2>3 DEF Strings!Take
  <2> QED
    BY <1>1, <2>3, <2>4 DEF Strings!StringsNext
<1>6. ASSUME NEW dlen \in 0 .. MaxDlen, ConsumePayload(b, dlen)
      PROVE  Intact' /\ Strings!StringsNext
  <2>1. bufs[b].pos = HdrLen /\ Consume(b, dlen)
    BY <1>6 DEF ConsumePayload
  <2>2. dlen \in Nat /\ bufs[b].pos + dlen <= HdrLen + MaxDlen
    BY <1>2, <2>1
  <2>3. Intact' /\ Strings!Becomes(b, Strings!WithoutFront(Content[b], dlen))
    BY <2>1, <2>2, ConsumeStep
  <2>4. Strings!Take(b)
    BY <2>3 DEF Strings!Take
  <2> QED
    BY <1>1, <2>3, <2>4 DEF Strings!StringsNext
<1>7. CASE Reset(b)
  <2>1. Intact' /\ Strings!Becomes(b, Strings!Holding(<<>>))
    BY <1>7, ResetStep
  <2>2. Strings!Take(b)
    BY <2>1 DEF Strings!Take
  <2> QED
    BY <1>1, <2>1, <2>2 DEF Strings!StringsNext
<1> QED
  BY <1>3, <1>4, <1>5, <1>6, <1>7 DEF Input

\* Appending extends a string or, when an allocation fails, changes none.
LEMMA AppendMemStep ==
  ASSUME Intact, NEW b \in DOMAIN bufs, b \notin Inputs, NEW s \in Seq(Byte),
         AppendMem(b, s, Len(s))
  PROVE  Intact' /\ (Content' = Content \/ Strings!Extend(b, s))
BY InPlaceStep, GrowsStep DEF AppendMem

\* Appending a buffer whose length is one appends what it holds.
LEMMA AppendBufStep ==
  ASSUME Intact, NEW b \in DOMAIN bufs, b \notin Inputs, NEW c \in DOMAIN bufs,
         Size(c) >= 0, AppendBuf(b, c)
  PROVE  Intact' /\ (Content' = Content \/ Strings!Extend(b, Content[c].held))
<1> DEFINE h == Held(c)
           k == Size(c)
<1>1. h = Content[c].held /\ h = HeldIn(pool, bufs[c])
  <2>1. h = HeldIn(pool, bufs[c]) /\ Content[c] = StringIn(pool, bufs[c])
    BY BufFacts
  <2> QED
    BY <2>1 DEF StringIn
<1>2. h \in Seq(Byte) /\ Len(h) = k /\ k \in Nat /\ k <= Wrap
  <2>1. k \in Int /\ k >= 0 /\ Len(HeldIn(pool, bufs[c])) = k /\ HeldIn(pool, bufs[c]) \in Seq(Byte)
    BY Offsets
  <2>2. /\ k = bufs[c].last - bufs[c].pos /\ bufs[c].pos \in Nat /\ bufs[c].last \in Nat
        /\ bufs[c].data.size \in Nat
        /\ bufs[c].last <= bufs[c].data.size /\ bufs[c].data.size <= Wrap
    BY Offsets
  <2> HIDE DEF h, k
  <2>3. k <= Wrap
    BY <2>1, <2>2, StringFacts
  <2> QED
    BY <1>1, <2>1, <2>3
<1>3. AppendMem(b, h, k % SizeWrap)
  BY DEF AppendBuf
<1> HIDE DEF h, k
<1>4. k % SizeWrap = k
  <2>1. /\ Wrap \in Nat /\ PageSize \in Nat \ {0} /\ HdrLen \in Nat /\ MaxDlen \in Nat
        /\ SizeWrap \in Nat /\ Wrap + PageSize + HdrLen + MaxDlen <= SizeWrap
    BY BuffersAssumption, PoolAssumption
  <2>2. k < SizeWrap
    BY <1>2, <2>1
  <2> QED
    BY <1>2, <2>1, <2>2, SmallModulo
<1>5. AppendMem(b, h, Len(h))
  BY <1>2, <1>3, <1>4
<1> QED
  BY <1>1, <1>2, <1>5, AppendMemStep

\* What is done to a buffer that is appended to.
LEMMA OutputStep ==
  ASSUME Intact, NEW b \in Outputs \cap DOMAIN bufs, Output(b)
  PROVE  StepOK
<1>1. b \notin Inputs /\ b \in DOMAIN bufs /\ b \in DOMAIN Content
  BY BuffersAssumption, ContentFacts
<1>2. ASSUME NEW s \in Chunks, AppendString(b, s) PROVE StepOK
  <2>1. s \in Seq(Byte)
    BY StringFacts
  <2>2. Intact' /\ (Content' = Content \/ Strings!Extend(b, s))
    BY <1>1, <1>2, <2>1, AppendMemStep DEF AppendString
  <2> QED
    BY <1>1, <2>2, Harmless DEF Strings!StringsNext
<1>3. ASSUME NEW c \in (Inputs \cup Outputs) \cap DOMAIN bufs, AppendBuf(b, c) PROVE StepOK
  <2>1. c \in DOMAIN bufs /\ c \in DOMAIN Content /\ Size(c) \in Int
    BY ContentFacts, Offsets
  <2>2. CASE Size(c) >= 0
    <3>1. Intact' /\ (Content' = Content \/ Strings!Extend(b, Content[c].held))
      BY <1>1, <1>3, <2>1, <2>2, AppendBufStep
    <3> QED
      BY <1>1, <2>1, <3>1, Harmless DEF Strings!StringsNext
  <2>3. CASE Size(c) < 0
    <3>1. c \in Inputs /\ IInv' /\ Content' = Content
      BY <1>1, <1>3, <2>1, <2>3, WrapStep
    <3> QED
      BY <1>3, <2>1, <2>3, <3>1 DEF StepOK
  <2> QED
    BY <2>1, <2>2, <2>3
<1> QED
  BY <1>2, <1>3 DEF Output

\* A step of the buffers is a step of the strings, or none.
LEMMA NextInv == IInv /\ [Next]_vars => StepOK
<1> SUFFICES ASSUME IInv, [Next]_vars PROVE StepOK
  OBVIOUS
<1>1. CASE UNCHANGED vars
  <2>1. IInv' /\ ~(broken' # broken)
    BY <1>1 DEF vars, IInv, Shape
  <2>2. Content' = Content
    BY <1>1 DEF vars, Content, Held, Size
  <2> QED
    BY <2>1, <2>2 DEF StepOK
<1>2. CASE Next
  <2>1. Intact
    BY <1>2 DEF Next, IInv, Intact
  <2>2. CASE CreatePool
    BY <2>1, <2>2, CreatePoolStep, Harmless
  <2>3. CASE DestroyPool
    BY <2>1, <2>3, DestroyPoolStep, Harmless DEF Strings!StringsNext
  <2>4. ASSUME NEW b \in Records, Pcalloc(b) PROVE StepOK
    <3>1. b \in Bufs
      BY DEF Bufs
    <3> QED
      BY <2>1, <2>4, <3>1, PcallocStep, Harmless DEF Strings!StringsNext
  <2>5. ASSUME NEW b \in Inputs \cup Outputs, NEW n \in Sizes, CreateBuf(b, n) PROVE StepOK
    <3>1. b \in Bufs
      BY DEF Bufs
    <3> QED
      BY <2>1, <2>5, <3>1, CreateBufStep, Harmless DEF Strings!StringsNext
  <2>6. ASSUME NEW b \in Inputs \cap DOMAIN bufs, Input(b) PROVE StepOK
    BY <2>1, <2>6, InputStep, Harmless
  <2>7. ASSUME NEW b \in Outputs \cap DOMAIN bufs, Output(b) PROVE StepOK
    BY <2>1, <2>7, OutputStep
  <2> QED
    BY <1>2, <2>2, <2>3, <2>4, <2>5, <2>6, <2>7 DEF Next
<1> QED
  BY <1>1, <1>2

-----------------------------------------------------------------------------
\* The inductive invariant holds: every area in use lies in a page or block
\* and in the part of the pool that was handed out, and no two overlap.
THEOREM AlwaysIInv == Spec => []IInv
<1>1. Init => IInv
  BY InitInv
<1>2. IInv /\ [Next]_vars => IInv'
  BY NextInv DEF StepOK
<1> QED
  BY <1>1, <1>2, PTL DEF Spec

\* For every page size, alignment and width of the capacity: the assertion
\* never fails, and no byte is written outside of a page or block but when a
\* buffer is appended whose last is below its pos.
THEOREM OnlyWrapBreaks == Spec => BrokenByWrapOnly
<1>1. IInv /\ [Next]_vars =>
        [broken' # broken =>
           \E b \in Outputs \cap DOMAIN bufs, c \in Inputs \cap DOMAIN bufs :
             Size(c) < 0 /\ AppendBuf(b, c)]_vars
  BY NextInv DEF StepOK
<1> QED
  BY <1>1, AlwaysIInv, PTL DEF Spec, BrokenByWrapOnly

\* Nothing leaks from the heap and nothing is freed that is still in use.
THEOREM AlwaysHeapIsPool == Spec => []HeapIsPool
<1>1. IInv => HeapIsPool
  <2> SUFFICES ASSUME IInv PROVE HeapIsPool
    OBVIOUS
  <2> DEFINE h == pool.heap
             c == Len(pool.cache)
             k == Len(pool.block)
             e == IF alive THEN 1 ELSE 0
  <2>1. h \in Int /\ h - 2 * c - 2 * k = e /\ e \in Int
    BY DEF IInv, Shape, PoolOK, Owed
  <2>2. c \in Nat /\ k \in Nat
    BY PoolLens DEF IInv, Shape
  <2> HIDE DEF h, c, k, e
  <2>3. h = e + 2 * c + 2 * k
    BY <2>1, <2>2
  <2> QED
    BY <2>3 DEF HeapIsPool, h, c, k, e
<1> QED
  BY <1>1, AlwaysIInv, PTL

\* No two areas in use share a byte.
THEOREM AlwaysAreasDisjoint == Spec => []AreasDisjoint
<1>1. IInv => AreasDisjoint
  <2> SUFFICES ASSUME IInv, NEW b \in DOMAIN bufs, NEW c \in DOMAIN bufs
               PROVE  /\ ~Overlap(bufs[b].self, bufs[c].data)
                      /\ b # c => /\ ~Overlap(bufs[b].data, bufs[c].data)
                                  /\ ~Overlap(bufs[b].self, bufs[c].self)
    BY DEF AreasDisjoint
  <2>1. CASE b = c
    BY <2>1 DEF IInv, Shape
  <2>2. CASE b # c
    BY <2>2 DEF IInv, Shape, Separate
  <2> QED
    BY <2>1, <2>2
<1> QED
  BY <1>1, AlwaysIInv, PTL

\* The buffers in their pool implement strings that know nothing of areas,
\* growing and moving: bytes are lost only to a taker who takes more than there
\* are.
THEOREM BuffersImplementStrings == Spec => ImplementsStrings
<1>1. Init => Strings!StringsInit
  BY InitInv
<1>2. IInv /\ [Next]_vars => [Strings!StringsNext]_Content
  BY NextInv DEF StepOK
<1> QED
  BY <1>1, <1>2, AlwaysIInv, PTL DEF Spec, ImplementsStrings, Strings!StringsSpec
================================================================================
