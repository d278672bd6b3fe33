--------------------------------- MODULE Pool ---------------------------------
(***************************************************************************)
(* The memory pool of a connection, src/core/xdbd_pool.c, as functions on  *)
(* a record.  Small pieces are cut from pages, one after the other; a      *)
(* piece of a page or more is a mapping of its own.  Only the first page   *)
(* of the list is ever tried.  Nothing is given back before the pool is    *)
(* destroyed.                                                              *)
(*                                                                         *)
(* mem[m] are the bytes of the m-th page or block that was allocated.  An  *)
(* area is a piece of one of them.                                         *)
(***************************************************************************)
EXTENDS Integers, Sequences

CONSTANTS
  PageSize,   \* XDBD_PAGE_SIZE
  AlignSize,  \* XDBD_ALIGN_SIZE
  Junk        \* what a byte is before it is written

ASSUME PoolAssumption ==
  /\ PageSize \in Nat \ {0} /\ AlignSize \in Nat \ {0}
  /\ PageSize % AlignSize = 0

\* A pool p: the pages and the blocks in the order of their lists, the first
\* free byte of the first page, their bytes, and how many things obtained from
\* malloc() have not been freed.
NoPool   == [cache |-> <<>>, last |-> 0, block |-> <<>>, mem |-> <<>>, heap |-> 0]

\* xdbd_create_pool
EmptyPool == [NoPool EXCEPT !.heap = 1]

Area(m, from, size) == [m |-> m, from |-> from, size |-> size]

\* bfdev_align_high_adj
AlignHigh(n, a) == ((n + a - 1) \div a) * a

\* The piece of a page that n bytes take.
Cut(n) == AlignHigh(n, AlignSize)

\* bfdev_allocpool_alloc on the first page finds room for n bytes.
FitsPage(p, n) == p.cache # <<>> /\ p.last + Cut(n) <= PageSize

\* malloc() is called, twice: for the entry of the list and for the bytes.
Mallocs(p, n) == n >= PageSize \/ ~FitsPage(p, n)

\* The second of the two fails: the entry of the list is freed again.  A slip:
\* it is not.
EntryLeaked(p) == [p EXCEPT !.heap = @ + 1]
EntryFreed(p)  == p

Fresh(n) == [i \in 1 .. n |-> Junk]

AddPage(p) ==
  [p EXCEPT !.cache = <<Len(p.mem) + 1>> \o @,
            !.last  = 0,
            !.mem   = Append(@, Fresh(PageSize)),
            !.heap  = @ + 2]

AddBlock(p, n) ==
  [p EXCEPT !.block = <<Len(p.mem) + 1>> \o @,
            !.mem   = Append(@, Fresh(AlignHigh(n, PageSize))),
            !.heap  = @ + 2]

\* cache_alloc and block_alloc: the pool, and the area handed out.
FirstPage(p, n) == IF FitsPage(p, n) THEN p ELSE AddPage(p)

\* A slip: the piece that is cut off is not as long as the piece handed out.
CutShort(p, n) ==
  IF n < PageSize
  THEN LET q == FirstPage(p, n) IN [q EXCEPT !.last = @ + n - 1]
  ELSE AddBlock(p, n)

Palloc(p, n) ==
  IF n < PageSize
  THEN LET q == FirstPage(p, n) IN [q EXCEPT !.last = @ + Cut(n)]
  ELSE AddBlock(p, n)

PallocArea(p, n) ==
  IF n < PageSize
  THEN LET q == FirstPage(p, n) IN Area(Head(q.cache), q.last, n)
  ELSE Area(Len(p.mem) + 1, 0, n)

\* BFDEV_BUG_ON(!retval): a page that was just allocated has no room.
HitsBug(p, n) ==
  n < PageSize /\ LET q == FirstPage(p, n) IN q.last + Cut(n) > PageSize

\* xdbd_destroy_pool: the pages, the blocks and the pool are freed.
Destroyed(p) == [NoPool EXCEPT !.heap = p.heap - 2 * Len(p.cache) - 2 * Len(p.block) - 1]

-----------------------------------------------------------------------------
\* n bytes of an area from its offset o on, and writing the bytes s there.
Bytes(mem, a, o, n) == [i \in 1 .. n |-> mem[a.m][a.from + o + i]]

Patched(page, k, s) ==
  [i \in 1 .. Len(page) |-> IF i - k \in 1 .. Len(s) THEN s[i - k] ELSE page[i]]

Written(mem, a, o, s) == [mem EXCEPT ![a.m] = Patched(@, a.from + o, s)]

\* A write of n bytes leaves the page or block.
Overruns(mem, a, o, n) == a.from + o + n > Len(mem[a.m])
=============================================================================
