# xdbd: specifications and proofs

xdbd is an adb daemon in C: one process, one thread, a `select()` loop in the
style of nginx, a table of connections and a small state machine that reads adb
packets from a TCP stream and answers them. This directory holds TLA+ modules of
the parts with logic of their own, TLC configurations that check them on small
instances, and proofs, checked by TLAPS, of what holds for every size.

Paths below are relative to the root of the repository. `PROJECT.json` gives,
for every definition, the lines it models, and, for every property, a slip in
the code ("mutant") that breaks it. Operators whose comment starts with "A slip"
are these mutants; no specification uses them.

## 1. The system

| Component | State | Operations |
|---|---|---|
| select backend, `src/event/select/xdbd_select.c` | `event_index` (dense array of registered events), `nevents`, two master `fd_set`s, cached `max_fd`; in each event `index`, `active`, `ready` | init, add, del, process_events with the scan, repair of the sets |
| event core, `src/event/xdbd_event.c` | the two lists of posted events | arm and disarm an event, accept, run posted events, the round of the loop, start-up |
| connection table, `src/connection/connection.c` | array of slots, linked list of the free ones through `c->data`, `c->fd` | get, free, close a slot; open listening sockets; `recv`, `send` |
| adb handlers, `src/adb/xdbd_adb.c`, `xdbd_adb_request.c` | `rev->handler`, the receive buffer, the request | wait for a packet, read header, read payload, block reading, close |
| packets and commands, `src/adb/packet.c`, `command.c` | the answer being built | table of commands, one handler each |
| memory pool, `src/core/xdbd_pool.c` | pages and large blocks of a connection | palloc, release, destroy |
| buffers, `src/core/xdbd_buf.c` | start, pos, last, end | create, append with growth, reset |
| timers, `src/event/xdbd_timer.c` | a red-black tree | add, remove, first; nothing calls them |
| start-up and loop, `src/xdbd.c` | the pool of the process, the listening socket | init and its exits, endless loop |

How they interact. `xdbd_worker_process` repeats for ever: `select()`; the
handlers of the posted accept events; the handlers of the other posted events.
The scan after `select()` sets `ready` and posts events; handlers are callbacks
stored in the event. `accept` takes a slot from the table, arms its read event in
the backend and installs the first adb handler. The adb handlers receive into
the buffer of the connection, pass the event from one handler to the next, hand
a packet to the command table, send the answer and start over, or close: closing
takes the events out of the backend, returns the slot, closes the descriptor and
destroys the two pools of the connection. The backend, the table and the lists
of posted events refer to the same slots, and every slot is used again. Whatever
a connection allocates (its buffer of a megabyte, requests, payloads, answers,
dumps) comes from its pools and goes with them.

What is hard. There are no threads, but clients and the kernel act between any
two steps: a connection is reset after it was reported, bytes arrive between two
`recv()` of one handler, a descriptor number comes back at once for another
client. State is cached (`max_fd`, `active`, `ready`, fd_sets, posted events) and
must not be used for the next owner of a slot. Calls fail half way: malloc, fcntl,
accept, send, and in the start-up socket, bind and listen. A host that does not
read fills the send buffer, and the result of `send()` is not looked at. The stream may be cut anywhere. The list of hazards, with lines, is
in `PROJECT.json`.

What makes each part correct:

* backend: array and places are inverse, the fd_sets are the descriptors of the
  registered events, a known `max_fd` covers them, the scan accounts for all
  bits the kernel reports;
* table: the list holds each free slot once; a slot is handed out to one holder;
* loop: a connection that waits for bytes is watched; a report is never used for
  another connection; free slots are quiet; descriptors are not lost while
  slots and memory last; hang-ups are noticed, waiting clients accepted;
* packets: each is served once, in order, with its own payload;
* answers: what the host receives are the answers, in order, none twice;
* memory: no two areas share a byte, a failing malloc leaves nothing behind, a
  buffer that moves keeps its content, and no byte is written outside of a page
  unless a length that is no length is handed over;
* start-up: the loop gets a listener that listens and is registered, or the
  process ends, or it sleeps. A start-up that ends destroys the pool; the array of
  listening sockets and the socket are left to the end of the process.

## 2. The modules

| Module | Models | Builds on |
|---|---|---|
| `Select` | data and operations of the backend as functions on a record, and the predicates about it | |
| `SelectBackend` | the backend alone under any well-behaved caller | `Select` |
| `EventLoop` | the daemon: loop, accept, handlers, clients, kernel | `Select` |
| `Startup` | `main` up to the loop, and the loop | extends `EventLoop`, implements it |
| `SlotPool` | abstract: what a table of slots promises | |
| `Connections` | the linked free list | implements `SlotPool` |
| `AdbPacket` | which header gets which answer | |
| `PacketService` | abstract: what a connection promises its client | `AdbPacket` |
| `PacketReader` | framing: buffer, header, payload, partial receives | implements `PacketService` |
| `Session` | the reader with the way back: `send`, its buffer, the host | extends `PacketReader`, implements `PacketService` as the host sees it |
| `Pool` | the memory pool as functions on a record | |
| `ByteStrings` | abstract: what buffers promise | |
| `PoolBuffers` | buffers and records in a pool | `Pool`, implements `ByteStrings` |
| `SelectTheorems`, `SelectBackendProofs` | lemmas on the backend's operations; its theorems | `SelectBackend`, TLAPS |
| `EventLoopProofs` | theorems of the loop: connections; posted lists; descriptors | `EventLoop`, `SelectTheorems` |
| `StartupProofs` | theorems of the start-up: what it hands to the loop, that it implements the loop | `Startup`, `EventLoopProofs` |
| `ConnectionsProofs` | theorems of the free list | `Connections`, TLAPS |
| `PacketReaderProofs` | theorems of the reader: order of bytes; refinement | `PacketReader`, TLAPS |
| `SessionProofs` | theorems of the session: order of the answers; refinement | `Session`, `PacketReaderProofs` |
| `PoolBuffersProofs` | theorems of pool and buffers | `PoolBuffers`, TLAPS |
| `MC...` | values of the constants for TLC | |

**Select, SelectBackend.** A backend state is a record whose fields have the
names of the code's variables; `index`, `active` (and `ready` in the modules that
use it) are functions of the event, an event being a pair of slot and direction.
`AddEvent`, `DelEvent`, `Refreshed` (the computation of `max_fd`), `Found` and
`Scanned` (the scan), `Repaired` are the functions of `xdbd_select.c`. The kernel
reports any part of the sets up to `max_fd`, or fails with EBADF when one of
those bits is not an open descriptor. `SelectBackend` also uses the write events,
which the daemon never arms today, because the code is written for them: with
write events a slot has two entries in the array and a deletion may move an entry
of the same slot.

**EventLoop.** One action is one call of `select()` or one run of a handler
together with the removal of its event from the list. Bytes are a number of
unread pieces per descriptor; what the framing decides (which handler comes next)
is a choice here and is determined in `PacketReader`. `slot[c]` names the
handler installed for the slot, or `free`, or `limbo` for a slot that an accept
gave up on. `pools[c]` counts the pools the slot holds. `select()` reports every
readable descriptor and possibly others, as its manual warns. `Failing` names the
calls that may fail: `malloc`, `fcntl`, and `sigpipe`, a send to a client that
has gone, which ends the process. The two places where the code goes on with an
invalid pointer (`xdbd_close_accepted_connection` before `c->listening` is set;
the dump of a packet without memory) end the process in the model too. One end
needs no failing call: a payload handler that found nothing to receive has taken
2 bytes out of the buffer, and when the next piece is a single byte behind a lone
header, the payload has the length `(size_t)-1` and the process ends in the copy
(`LengthMayWrap`). Whether the buffer was that empty is for `PacketReader` and
`PoolBuffers`; here any second run of a payload handler may end the process.

**Startup.** One action per call that can fail, with what `xdbd_init`,
`xdbd_open_listening_sockets` and `xdbd_init_event` do on its failure. `bind` and
`listen` are different from the rest: their failure is only logged, the listening
descriptor stays -1 and the start-up goes on. `FD_SET` of -1 is undefined, so the
model sets any bit, or ends the process as a checking library does. Clients can
connect from `listen()` on, long before the listener is registered. After
`register` the actions are those of `EventLoop`. Small allocations of the
start-up fit the first page of the pool, so only the first of them can fail.

**Connections.** Slots are array indexes and a pointer is an index. `data[c]` is
the link, or `Request` when the owner of the slot keeps its request there. The
rest of the slot is left out. `EventLoop` uses what this module proves: any free
slot may be handed out, and none only when none is free.

**PacketReader.** A byte is its place in the stream, so a property can say which
bytes ended up where. `buf` is the content of the buffer from `start` to `last`;
`pos` is the offset. The model has every `recv()` of a handler as a step of its
own, so bytes may arrive between two of them. It follows the code where the code
is surprising: the payload is processed after at most one `recv()`; everything
behind the header is the payload; when nothing more is there, -2 is added to
`last`; a full buffer makes `recv()` return 0, which closes; waiting for a packet
drops what is in the buffer. Bytes that are taken for a header without being one
read as any header. With `Failing = {"malloc"}` the request, the payload and the
answer may each be missing; what becomes of the connection then depends on which
one it was (`Verdicts`, `After`). `Splits` says where the network may cut: inside
headers only, or anywhere. `select()` reporting a connection on which nothing can
be received is in `EventLoop` and not here.

**Session.** `SendAnswer` is `xdbd_unix_send` as the handlers use it: the send
buffer takes what it has room for, the rest of the answer is lost, and the
connection goes on. An answer is `AnswerLen` bytes, whatever its text. The host
counts the answers it got whole, sends `Window` packets ahead of them, reads or
does not, and may close or reset at any time; a send to a host that has reset may
kill the process.

**Pool, PoolBuffers.** A pool is a record of pages, blocks, and the bytes of each
in the order they were allocated; an area is a piece of one of them. `Palloc`
chooses between page and block as `xdbd_palloc` does, tries only the first page,
and rounds sizes. `heap` counts what came from malloc and was not freed.
`PoolBuffers` has one action per function of `xdbd_buf.c`; the new capacity is
computed modulo `Wrap`, as the code does it in an `unsigned`, and the length of a
buffer that is appended modulo `SizeWrap`, as `xdbd_buf_append_buf` does it.
What the handlers of `xdbd_adb.c` do to `pos` and `last` of the receive buffer are
actions too: `ReceiveAgain` is the -2 that is added to `last`, `ConsumePayload`
moves `pos` by the length in the header, whether or not that much has come; both
may leave `last` below `pos`. A buffer in that state is appended with a length near
the end of a `size_t`; the capacity that is computed from it then is too small or
as large as an `unsigned` can be, and the copy leaves the area. `broken` records
that, and that the assertion in `xdbd_pool.c` failed; the process is not followed
further. `ByteStrings` says what is left of a promise for such buffers: bytes
that are taken from the end, or before they came, are owed, and lost when they
come; everything else stays in order.

## 3. The runs

| Run | Instance | Question |
|---|---|---|
| `select_backend` | 2 slots, 2 descriptors | Do array, places, fd_sets, `max_fd` and the scan agree? |
| `loop_roomy` | listener, 2 slots, 3 descriptors, no failures, under fairness | Is every waiting connection watched, every descriptor held, every report used for the right connection; are hang-ups noticed, refused clients silenced, new ones accepted? |
| `loop_faults` | listener, 2 slots, 4 descriptors, all failures | What remains true when slots, memory and calls fail? |
| `connections` | 5 slots, 2 descriptors | Is the free list whole, and does it implement the pool? |
| `startup` | listener, 1 slot, 3 descriptors, every call of the start-up may fail | Does the start-up hand the loop what the loop assumes, or nothing that could be seen? |
| `memory` | one receive buffer, two outputs, one record; pages of 4 bytes, 4 pages or blocks | Are areas disjoint and contents kept, does nothing leak, and which step may fail the assertion or write outside? |
| `reader_service` | 3 packets, one at a time, headers cut anywhere, under fairness | Does the reader implement the packet service, and finish? |
| `reader_any` | 3 packets, 2 sent ahead, cut anywhere, malloc may fail, under fairness | Is the buffer safe, are bytes served once and in order, is the end of the stream seen? |
| `reader_length` | 2 packets, cut anywhere, one at a time | Has a payload its data length? It has not, see 6. |
| `session` | 3 packets, one at a time, send buffer of one answer, under fairness | Does the host get the service, though `send` is not checked? |
| `session_behind` | 3 packets, 2 sent ahead, send buffer of one and a half answers, malloc may fail | What does a host receive that does not read? |

Bounds, and why they are enough:

* `Conns`, `Fds`. Two slots with two events each give deletions that move an
  event of the same slot, of the other slot, and none, and a descriptor that goes
  to the other slot. In the loop one slot can be closed and used again while the
  other has a report in the list. "Roomy" has one descriptor for each slot, so
  slots never run out, but descriptors do: with both connected the listener stays
  readable and the loop spins; with four descriptors they do. The proofs remove the
  bound for the backend, the loop, the table and the start-up. `Startup` has one slot beside the
  listener, since the loop itself is covered by the other runs, and a descriptor
  too many, so that it also meets a full table.
* `MaxBacklog = 1`. The code never sets `ls->backlog`, so it calls `listen(s, 0)`.
  `startup` has 2, for the clients that come before the loop.
* `MaxUnread`. One piece tells nothing from something; two, in `loop_faults`, also
  that more is there than was received.
* Symmetry. `loop_faults` checks invariants only, and the slots next to the listener
  are alike in the specification (the only CHOOSE takes a maximum of descriptors),
  so it uses `SlotSymmetry`. The runs with liveness use none.
* `HdrLen = 3`, `BufSize = 5` for 24 and a megabyte: a header can be cut in every
  way, -2 leaves a part of the header, a payload of 2 fills the buffer. Packets
  longer than the buffer are not sent: the program cannot take them and closes.
* `MaxPackets`, `Window`. Three packets let a wrong one be followed by another;
  two sent ahead is the least that lets packets meet in one buffer, or answers in
  one send buffer.
* `AnswerLen = 2`, `SndBuf`. With a buffer of 2 bytes an answer just fits, which is
  what a host that waits needs; with 3 a second answer is cut in the middle.
* `PageSize = 4`, `AlignSize = 2`. Sizes of 1 and 3 are rounded, a page takes
  several pieces and then not the next one, a grown buffer is a block. `MaxMem = 4`
  pages and blocks allow a buffer to grow beside another.
* `HdrLen = 2`, `MaxDlen = 1` in `memory`: a lone header, the -2, and one more byte
  give the length `(size_t)-1`, and a `pos` can pass `last` by a payload.
* `MaxContent = 3`, `Wrap = 8`, `SizeWrap = 16`. `MaxContent` bounds what a buffer
  holds, and doubling that does not wrap (`BuffersAssumption`): in the code a
  payload is at most the megabyte of the receive buffer, its dump some megabytes
  and an answer a few kilobytes, far below half of an `unsigned`. It does not bound
  the length handed to `xdbd_buf_append_mem`, which may be any `size_t`.
* `ReceiveAgain` happens only while `last` stays in the buffer. To leave it takes
  twelve reports of `select()` with nothing behind them, one after another.

The packet, session, start-up and memory runs do not check for deadlock: a
connection ends, by a close or by a refused packet, the client sends a bounded
number of packets, a start-up may end the process, and so may a write outside of
the memory. The other runs do.

Fairness. `EventLoop` assumes weak fairness of `Work`, one step of the loop:
`xdbd_worker_process` is an endless loop, it blocks in `select()` only, and
`select()` returns when something is readable. An interrupted `select()` is not
part of `Work`: the program installs no handler for signals, so not every call is
interrupted. Nothing is assumed of clients. `HangupHandled` leaves out the
connections that were blocked after a refused packet: for those the hang-up is
not handled, and slot and descriptor stay taken; `BlockedGoesQuiet` says what does
happen to them. The liveness of the loop is checked without failing calls; the
process may end all the same (`LengthMayWrap`) and then handles nothing, so each
of these properties is promised as long as it lives. `AcceptProgress` leaves out
only the state in which the process is out of descriptors and no client has
gone: nothing can be accepted then. `StartSpec` adds that a start-up runs on:
it is a sequence of calls, none of which waits. `PacketReader` assumes that the
network delivers what was sent and that the loop runs on, `FairSession` also that
a host that has not reset receives its answers; `session_behind` does without.

## 4. The proofs

For every finite set of slots, every finite set of descriptors (natural numbers)
and nothing else (`SelectAssumption`), `SelectBackendProofs` proves of
`SelectBackend!Spec` all six properties of the run `select_backend`. The inductive
invariant is

    IInv == SelectType /\ IndexOK /\ SetsOK /\ OpenOK /\ MaxOK, types of fd and
            ready, and DistinctOpen: two slots never have the same descriptor

None of its parts is inductive alone: that closing removes the right bits
(`SetsOK`) needs that descriptors are distinct and that registered events are
active (`OpenOK`), since closing decides by `active`; that the moved event gets
its place needs the bijection (`IndexOK`); that the array has room for one more
event (`TypeOK`) is a counting argument from the bijection (`RoomForEvent`).
`SelectTheorems` has one lemma for each operation, stated about a backend record,
not about the variables, so that the same lemmas serve a proof about `EventLoop`.
`ReadyEqualsNready` follows from the invariant by a bijection between the events
found and the bits (`FoundCount`).

`EventLoopProofs` proves, for the same sets, any bounds of the clients, and
whatever calls fail, `BackendConsistent`, `ServedAreArmed`, `FreeIsQuiet` and
`ServedHavePools` of `EventLoop!Spec`. The inductive invariant joins the
backend's with `RolesOK` (the handler of a slot says whether it has a descriptor
and how many pools) and `ArmedOK` (a slot that is read is registered). They need
each other: a handler may arm its event because its slot has a descriptor, and
the slots that stay registered when another one is closed or taken are those
whose place in the array is right. The lemmas `ArmOK`, `TakeInv`, `CloseInv` each
treat what several handlers do. `ServedAreArmed` depends on
`xdbd_get_connection` clearing `active` (`ResetRegisters`), which
`xdbd_select_del_event` leaves set.

For every number of slots N and every set of descriptors, `ConnectionsProofs`
proves that the free list is intact and that `Connections` implements `SlotPool`.
The inductive invariant is `TypeOK /\ FreeListIntact`; `FreeListIntact` asserts a
sequence of all slots without a descriptor that the links follow, and the steps
drop its head or put a new head in front. `ChainLength` shows by counting that
the length is not above N and is 0 only when no slot is free, which is what the
refinement of the refusal needs.

The second part of `EventLoopProofs` builds on that invariant. `QInv` adds that the list of
posted events is a sequence of read events of served slots, each there once. It
gives `TypeOK`, `PostedAreLive` and `ReportedKeepFd` for any failing calls: a
handler that closes its slot does so before its event leaves the list, and only
for its own slot, so the events behind it stay those of served slots; and an
accept takes a free slot, which has no event in the list. That the scan lists no
event twice comes from the places in the array, which are distinct by `IndexOK`
(`OrderedOnce`).
`DescriptorsStayLow` is a count: descriptors are handed out lowest first, and each
is held by a slot or lost. `NoDescriptorLost` is proved for `Failing = {}` and no
more descriptors than slots.

`PacketReaderProofs` proves for any headers, any sizes of header and buffer, any
`Window` and either value of `Splits`, with malloc failing or not, `TypeOK` and
`BytesInOrder` of `PacketReader`. The inductive invariant is that the bytes in the
buffer, in the socket and in the network each ascend, follow one another, and
follow every byte that was served; a connection that waits for a packet is the
exception: what its buffer still holds was served or is dropped. The lemmas are
about pieces of sequences and what `recv()` moves.

From `Polite` (the client waits for each answer, the network cuts inside headers
only, memory does not run out) it also proves `ImplementsService`, the refinement
of `PacketService`. The added invariant `SInv` is that
either every packet is answered and no byte is anywhere, or exactly one is
underway, and buffer, socket and network hold it between them, in three slices
that join without a gap; a client that has gone may have taken the last slice
with it. Without `Window = 1` or with `Splits` the code does not do this (see 6):
`PolitePayloads`, that each payload has its data length, is what is left of the
claim `reader_length` refutes.

`SessionProofs` proves for any send buffer, any length of an answer and any host
that what the host receives are beginnings of the answers in their order
(`AnswersInOrder`). `BackOK`, the strengthening, adds that what is on its way are
bytes of answers that were given, so the next one comes behind them, and that the
buffer is not fuller than it can be, so a piece of an answer is a beginning of it.
With `Polite` and a buffer that has room for one answer it proves
`SessionImplementsService`. Its invariant `Whole` says that every answer went out
whole, the last one last, and that a host which has a packet underway has emptied
the buffer. It is needed because the room for an answer depends on what the host
did before: it sends only after it has read. A host that resets is promised
nothing more, and that what it left behind stays consistent is why `Underway`
lets bytes be missing. The step is taken over from the reader: `StepSlices` makes
it a step of the service for `replies`, `DeliveredAll` says that `Delivered` is
`replies`, and `SamePromise` joins the two instances.

`PoolBuffersProofs` proves for every page size, alignment, width of the capacity
and set of buffers all four properties of the run `memory`, among them the
refinement of `ByteStrings`. The inductive invariant: the first page is a whole
page; what is owed to malloc is what the lists hold; each area lies in a page or
block, and in the first page before its first free byte; areas of different
buffers are disjoint. A new area starts where all others end, so it is disjoint
from them, and the refinement follows: a write to one buffer does not change the
bytes of another. All this holds until a write leaves its page, and
`OnlyWrapBreaks` says which step can do that: the append of a receive buffer whose
`last` is below its `pos`, and no other. That the assertion never fails is
`CutLemma`, a size below the page still fits it when it is rounded, which needs
that the page is a multiple of the alignment. That the capacity is large enough for
any other length (`CapacityFits`) needs that contents stay below half of what an
`unsigned` holds (`BuffersAssumption`, see 3). What the handlers do to
`pos` and `last` of a receive buffer goes through one lemma, `MoveTo`: moving them
changes no byte, so what the buffer holds is the piece between them, and what it
owes is their distance when they have changed places. An append of a buffer that
owes something hands over a length larger than any page or block, because a
`size_t` is wider than the `unsigned` and everything that is added to it
(`BuffersAssumption`): either there is no memory and nothing changes, or the copy
leaves the new area (`WrapStep`).

`StartupProofs` proves for every size and every set of failing calls what `Startup`
promises, liveness apart: `StartTypeOK`, `DeafIsIdle` and the
refinement `ImplementsLoop`. The inductive invariant `StartInv` has three cases:
before the loop nothing of it is in use (`Blank`); a loop without a listening
descriptor has one entry in the array, -1 for `max_fd`, and sees nothing (`Deaf`);
any other satisfies the invariants of `EventLoop` (`IInv /\ QInv`). `SockOK` ties
the cases together: `ls->fd` is a descriptor exactly when the socket listens, and
clients wait only for a socket that listens. `Deaf` is inductive because
`MaxFd` of an array that knows -1 only is -1, so `Refreshed` changes nothing,
whatever bit `FD_SET` of -1 set. Clients may wait when the loop begins, so
`EventLoopProofs` starts its invariants from `Booted`, which allows that, and not
from `Init`.

The mapping shows the loop as it will start until the daemon is up, and as it is
from then on (`loopFd`, `loopSel`, `loopSlot`). Every operator of the instance
`Loop` is shown to be the one of `EventLoop` (the lemmas `Same...`), from the bottom
up, then every action (`...Maps`). The calls of the start-up map to stuttering,
`Register` too, because it puts the backend where the mapping says it is
(`RegisterBoots`); so does everything a deaf loop does (`DeafSleeps`). `UpIsSound`,
`StartDescriptorsLow` and `StartKeepsFd` state for the program from `main` on what
`EventLoopProofs` states from the first state of the loop.

`ReaderAssumption`, `BuffersAssumption` and the other assumptions on constants are
evaluated by TLC with the values of each run.

Every safety property and every refinement of the passing runs is stated by a
theorem. Only model-checked is what holds under fairness: `HangupHandled`,
`BlockedGoesQuiet`, `AcceptProgress`, `EverySentServed`, `ShutNoticed`,
`AnswersArrive` and `EarlyClientAccepted`; liveness and ENABLED are beyond the
prover. `PayloadHasDataLength` is refuted by its run and proved under the
conditions of `PolitePayloads`. No definition is a RECURSIVE operator, and nothing
is proved by induction over data.

## 5. What is not modelled

* `src/os/unix/xdbd_process.c` is not in the list of sources of `CMakeLists.txt`.
  `epoll.c`, `tcp.c`, `usb.c`, `adb.c` and `xdbd_string.c` are empty or one
  include. `lib/bfdev` is a submodule without sources here; of its lists, arrays,
  red-black tree and allocation pool the modules state what the program uses.
* Timers: nothing calls `xdbd_add_timer` or `xdbd_remove_timer`, and `select()` is
  called without a timeout. The tree is empty in every state of the program, so a
  model of it would describe callers that do not exist. With them go the timeout
  branches of the handlers, since nothing sets `ev->timeout`, and `xdbd_times.c`,
  a clock value nobody reads.
* `xdbd_select_done` has no caller.
* The checksum of a packet is neither computed nor looked at by the code. The text
  of answers and dumps is left out; of an answer its length counts.
* The width of `fd_set` is not a bound of the model. `DescriptorsStayLow` gives the
  condition under which the table of 512 slots keeps descriptors below it.
* Some hazards have no property. For three of them nothing in the repository
  promises anything, and the models follow the code into the end of the process:
  the cleanup in `accept` through `c->listening` before it is assigned
  (`src/event/xdbd_event.c:88`), SIGPIPE in `xdbd_unix_send`
  (`src/connection/connection.c:222`), the dump that could not be allocated
  (`src/adb/packet.c:385`). The buffer is reset before each packet and drops what
  came ahead of its turn (`src/adb/xdbd_adb.c:265`), which no document forbids. A
  start-up that ends leaves a socket and an array behind (`src/xdbd.c:39`). And
  when the request for a packet cannot be allocated (`src/adb/xdbd_adb.c:297`) the
  connection closes, in the model as in the code, but no property would notice if
  it did not.

## 6. What the checks show

* The backend and the table do what they should for every size. In particular the
  branch "ready != nready" is never reached from callers like those in `src/`.
* The loop never runs a handler on a free slot, never applies a report to another
  connection and never forgets one that waits, also with failing calls. It loses
  descriptors when `accept` finds no slot and slots when a pool cannot be
  allocated: `NoDescriptorLost` is claimed for the run without those, and
  `DescriptorsStayLow` says how far descriptors can climb then.
* A client that was refused is not served again, keeps its slot and descriptor,
  and does not keep the loop from sleeping.
* Whatever call of the start-up fails, the loop either starts as `EventLoop`
  assumes or does nothing that could be seen. A failing `bind` or `listen` gives a
  daemon that sleeps for ever, or ends at once where the library checks `FD_SET`.
* Pool and buffers are what their callers take them for, with failing malloc too,
  for every length that is one. The handlers can also hand over one that is not:
  a client that sends a header alone, and later one byte of the payload, makes the
  daemon copy `(size_t)-1` bytes (`src/adb/xdbd_adb.c:113`, `118`), and the process
  ends. `BrokenByWrapOnly` says that this is the only way in which memory is
  overrun, and the properties of the loop allow for that end.
* A client that sends one packet at a time is served as promised if no packet is
  cut behind its header, and gets its answers although the result of `send()` is
  ignored, if the send buffer has room for one. A host that sends ahead and does
  not read loses parts of answers; what it does get is in order.
* Otherwise framing is not what the protocol says: `reader_length` violates
  `PayloadHasDataLength`. The field `dlen` is described as the "data length"
  (`src/adb/packet.h:40`), but `xdbd_adb_process_adb_payload`
  (`src/adb/xdbd_adb.c:153`) processes what one `recv()` brought, whatever `dlen`
  says. What still holds then is `BytesInOrder`.

## 7. Plan

1. The refinement of `EventLoop` by `PacketReader` for one connection: the choices
   `EventLoop` leaves open are those the framing makes.
2. A reader under `select()` reports without data, and with pools of a connection
   as in `PoolBuffers` in place of a malloc that may fail at any time.
3. Timers, when something arms them.
