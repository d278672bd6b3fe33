----------------------------- MODULE PoolBuffers -----------------------------
(***************************************************************************)
(* The buffers of a connection, src/core/xdbd_buf.c, in the memory of its  *)
(* pool.  A buffer that is full moves to a larger area of the pool; the    *)
(* old one is not used again.  The capacity is computed in an unsigned,    *)
(* lengths are handed over in a size_t.                                    *)
(*                                                                         *)
(* The handlers of xdbd_adb.c move pos and last of the receive buffer as   *)
(* they see fit: last may come to lie below pos, and the length of such a  *)
(* buffer wraps around when it is appended.  The order in which a          *)
(* connection uses its buffers is left open.                               *)
(***************************************************************************)
EXTENDS Pool

CONSTANTS
  Inputs,      \* buffers that receive, like c->buffer
  Outputs,     \* buffers that are appended to: payloads, answers, dumps
  Records,     \* areas of xdbd_pcalloc: requests and packets
  Chunks,      \* strings that are appended or received
  Sizes,       \* sizes buffers are created with
  Zeros,       \* what xdbd_pcalloc fills its areas with
  StructSize,  \* sizeof(xdbd_buf_t)
  HdrLen,      \* sizeof(xdbd_adb_header_t)
  MaxDlen,     \* bound: the data length in a header
  MaxContent,  \* bound: the bytes a buffer holds
  Wrap,        \* UINT_MAX + 1
  SizeWrap,    \* SIZE_MAX + 1
  MaxMem       \* bound: malloc() fails when there are that many pages and blocks

Byte == {Junk} \cup UNION {{s[i] : i \in 1 .. Len(s)} : s \in Chunks \cup {Zeros}}

ASSUME BuffersAssumption ==
  /\ Inputs \cap Outputs = {}
  /\ StructSize \in Nat \ {0}
  /\ HdrLen \in Nat /\ 2 <= HdrLen /\ MaxDlen \in Nat
  /\ MaxContent \in Nat /\ Wrap \in Nat /\ 2 * MaxContent <= Wrap
  /\ SizeWrap \in Nat /\ Wrap + PageSize + HdrLen + MaxDlen <= SizeWrap
  /\ Sizes \subseteq 1 .. MaxContent
  /\ \A s \in Chunks \cup {Zeros} : s \in Seq(Byte) /\ Len(s) \in 1 .. MaxContent
  /\ MaxMem \in Nat

Bufs == Inputs \cup Outputs \cup Records

VARIABLES
  alive,   \* the pool exists
  pool,
  bufs,    \* the buffers there are; pos and last are offsets in the area data
  broken   \* BUG_ON was hit, or bytes were written outside of a page or block

vars == <<alive, pool, bufs, broken>>

Init == alive = FALSE /\ pool = NoPool /\ bufs = [b \in {} |-> {}] /\ broken = FALSE

Buffer(self, data, last) == [self |-> self, data |-> data, pos |-> 0, last |-> last]
NoArea  == Area(0, 0, 0)
Size(b) == bufs[b].last - bufs[b].pos
Held(b) == IF Size(b) < 0 THEN <<>> ELSE Bytes(pool.mem, bufs[b].data, bufs[b].pos, Size(b))

-----------------------------------------------------------------------------
CreatePool ==
  /\ ~alive
  /\ alive' = TRUE
  /\ pool' = EmptyPool
  /\ UNCHANGED <<bufs, broken>>

DestroyPool ==
  /\ alive
  /\ alive' = FALSE
  /\ pool' = Destroyed(pool)
  /\ bufs' = [b \in {} |-> {}]
  /\ UNCHANGED broken

\* An allocation of n bytes from the pool p may succeed, may fail.
CanAlloc(p, n) == n > 0 /\ Len(Palloc(p, n).mem) <= MaxMem
CanFail(p, n)  == n = 0 \/ Mallocs(p, n)

NewBuffer(b, r) ==
  bufs' = [c \in DOMAIN bufs \cup {b} |-> IF c = b THEN r ELSE bufs[c]]

\* xdbd_palloc is asked for nothing, or fails at the first or second malloc.
AllocFails(p, n) ==
  /\ CanFail(p, n)
  /\ pool' \in {p, EntryFreed(p)}
  /\ UNCHANGED <<alive, bufs>>

\* xdbd_pcalloc: an area of zeroes.
Pcalloc(b) ==
  /\ alive /\ b \notin DOMAIN bufs
  /\ \/ AllocFails(pool, Len(Zeros)) /\ UNCHANGED broken
     \/ LET n == Len(Zeros)
            q == Palloc(pool, n)
            a == PallocArea(pool, n)
        IN /\ CanAlloc(pool, n)
           /\ pool' = [q EXCEPT !.mem = Written(@, a, 0, Zeros)]
           /\ NewBuffer(b, Buffer(NoArea, a, n))
           /\ broken' = (broken \/ HitsBug(pool, n) \/ Overruns(q.mem, a, 0, n))
           /\ UNCHANGED alive

\* xdbd_create_buf: when the second allocation fails the first is wasted.
CreateBuf(b, n) ==
  /\ alive /\ b \notin DOMAIN bufs
  /\ \/ AllocFails(pool, StructSize) /\ UNCHANGED broken
     \/ LET p == Palloc(pool, StructSize)
        IN /\ CanAlloc(pool, StructSize)
           /\ \/ AllocFails(p, n) /\ broken' = (broken \/ HitsBug(pool, StructSize))
              \/ /\ CanAlloc(p, n)
                 /\ pool' = Palloc(p, n)
                 /\ NewBuffer(b, Buffer(PallocArea(pool, StructSize), PallocArea(p, n), 0))
                 /\ broken' = (broken \/ HitsBug(pool, StructSize) \/ HitsBug(p, n))
                 /\ UNCHANGED alive

-----------------------------------------------------------------------------
\* The capacity a buffer grows to when len bytes do not fit.  A slip: it is
\* doubled and not compared with what is needed.
CapacityOnlyDoubles(b, len) == (2 * bufs[b].data.size) % Wrap

Capacity(b, len) ==
  LET doubled == (2 * bufs[b].data.size) % Wrap
      needed  == ((Size(b) % Wrap) + len) % SizeWrap
  IN  IF doubled < needed THEN needed % Wrap ELSE doubled

Room(b) == bufs[b].data.size - bufs[b].last

\* There is room for len bytes, those of s, behind last.
AppendInPlace(b, s, len) ==
  /\ len <= Room(b)
  /\ pool' = [pool EXCEPT !.mem = Written(@, bufs[b].data, bufs[b].last, s)]
  /\ bufs' = [bufs EXCEPT ![b].last = @ + len]
  /\ broken' = (broken \/ Overruns(pool.mem, bufs[b].data, bufs[b].last, len))
  /\ UNCHANGED alive

\* There is not: the content moves to a new area.  A slip: last is not set
\* behind the content that was moved.
MovedLosesContent(r, a, n) == [r EXCEPT !.data = a, !.pos = 0, !.last = n]
Moved(r, a, n) == [r EXCEPT !.data = a, !.pos = 0, !.last = (r.last - r.pos) + n]

\* When a copy leaves the new area the process ends in it.
AppendGrows(b, s, len) ==
  LET cap     == Capacity(b, len)
      q       == Palloc(pool, cap)
      a       == PallocArea(pool, cap)
      held    == Written(q.mem, a, 0, Held(b))
      overrun == HitsBug(pool, cap) \/ Overruns(q.mem, a, 0, Size(b))
                                    \/ Overruns(q.mem, a, Size(b), len)
  IN /\ len > Room(b)
     /\ \/ AllocFails(pool, cap) /\ UNCHANGED broken
        \/ CanAlloc(pool, cap) /\ overrun /\ broken' = TRUE /\ UNCHANGED <<alive, pool, bufs>>
        \/ /\ CanAlloc(pool, cap) /\ ~overrun
           /\ pool' = [q EXCEPT !.mem = Written(held, a, Size(b), s)]
           /\ bufs' = [bufs EXCEPT ![b] = Moved(@, a, len)]
           /\ UNCHANGED <<alive, broken>>

\* xdbd_buf_append_mem, handed len bytes of which s are there.
AppendMem(b, s, len) ==
  /\ bufs[b].last + Len(s) <= MaxContent
  /\ AppendInPlace(b, s, len) \/ AppendGrows(b, s, len)

\* The callers with a string, and xdbd_buf_append_buf: the length of the
\* buffer c is turned into a size_t.
AppendString(b, s) == AppendMem(b, s, Len(s))
AppendBuf(b, c)    == b # c /\ AppendMem(b, Held(c), Size(c) % SizeWrap)

\* c->recv into the rest of the buffer, as the handlers of xdbd_adb.c do.
Receive(b, s) == AppendInPlace(b, s, Len(s))

\* Behind a header there is less than the payload and nothing is received:
\* XDBD_AGAIN, -2, is added to last.  A bound: not so often that last leaves
\* the area, which takes a dozen reports of select() with nothing behind them.
ReceiveAgain(b) ==
  /\ bufs[b].pos = HdrLen /\ Size(b) < MaxDlen /\ bufs[b].last >= 2
  /\ bufs' = [bufs EXCEPT ![b].last = @ - 2]
  /\ UNCHANGED <<alive, pool, broken>>

Consume(b, n) ==
  /\ bufs' = [bufs EXCEPT ![b].pos = @ + n]
  /\ UNCHANGED <<alive, pool, broken>>

\* A header is there and is taken.
ConsumeHeader(b) == bufs[b].pos = 0 /\ Size(b) >= HdrLen /\ Consume(b, HdrLen)

\* As much as the header says is taken, whatever is there.
ConsumePayload(b, dlen) == bufs[b].pos = HdrLen /\ Consume(b, dlen)

Reset(b) ==
  /\ bufs' = [bufs EXCEPT ![b].pos = 0, ![b].last = 0]
  /\ UNCHANGED <<alive, pool, broken>>

Input(b) ==
  \/ \E s \in Chunks : Receive(b, s)
  \/ ReceiveAgain(b)
  \/ ConsumeHeader(b)
  \/ \E dlen \in 0 .. MaxDlen : ConsumePayload(b, dlen)
  \/ Reset(b)

Output(b) ==
  \/ \E s \in Chunks : AppendString(b, s)
  \/ \E c \in (Inputs \cup Outputs) \cap DOMAIN bufs : AppendBuf(b, c)

\* A process that wrote outside of its memory is not followed further.
Next ==
  /\ ~broken
  /\ \/ CreatePool \/ DestroyPool
     \/ \E b \in Records : Pcalloc(b)
     \/ \E b \in Inputs \cup Outputs, n \in Sizes : CreateBuf(b, n)
     \/ \E b \in Inputs \cap DOMAIN bufs : Input(b)
     \/ \E b \in Outputs \cap DOMAIN bufs : Output(b)

Spec == Init /\ [][Next]_vars

-----------------------------------------------------------------------------
\* The assertion behind a new page never fails, and no byte is written outside
\* of a page or block, with one exception: a buffer whose last is below its pos
\* is appended to another.  Every rounded size fits the page it is cut from,
\* and the capacity computed in an unsigned is large enough for any length
\* that is one.
BrokenByWrapOnly ==
  [][broken' # broken =>
       \E b \in Outputs \cap DOMAIN bufs, c \in Inputs \cap DOMAIN bufs :
         Size(c) < 0 /\ AppendBuf(b, c)]_vars

\* What was allocated and not freed is the pool with its pages and blocks, two
\* allocations each: a failing malloc() leaves nothing behind, and nothing is
\* left, or freed twice, when the pool is destroyed.
HeapIsPool ==
  pool.heap = (IF alive THEN 1 ELSE 0) + 2 * Len(pool.cache) + 2 * Len(pool.block)

Overlap(a, b) == a.m = b.m /\ a.from < b.from + b.size /\ b.from < a.from + a.size

\* No two areas in use share a byte: neither the structures of the buffers nor
\* their contents, whatever was allocated, grown and moved before.
AreasDisjoint ==
  \A b, c \in DOMAIN bufs :
    /\ ~Overlap(bufs[b].self, bufs[c].data)
    /\ b # c => /\ ~Overlap(bufs[b].data, bufs[c].data)
                /\ ~Overlap(bufs[b].self, bufs[c].self)

\* A buffer holds what was put into it and not taken out, in order, whatever
\* happens to the others: growing and moving are not visible, nor is an append
\* without memory.  What is lost is what the handlers take before it has come.
Content ==
  [b \in DOMAIN bufs |-> [held |-> Held(b), owed |-> IF Size(b) < 0 THEN 0 - Size(b) ELSE 0]]

Strings == INSTANCE ByteStrings
             WITH content <- Content, Fronts <- {HdrLen} \cup (0 .. MaxDlen), Backs <- {2}
ImplementsStrings == Strings!StringsSpec
=============================================================================
