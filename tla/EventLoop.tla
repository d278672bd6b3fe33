------------------------------ MODULE EventLoop ------------------------------
(***************************************************************************)
(* The daemon: xdbd_worker_process and everything it calls, with the bytes *)
(* of a connection reduced to a number of unread pieces (PacketReader has  *)
(* the framing).  One thread runs                                          *)
(*                                                                         *)
(*     select -> the posted accept events -> the posted other events       *)
(*                                                                         *)
(* for ever; clients and the kernel act between any two of its steps.  A   *)
(* step of the daemon is one call of select() or one run of a handler with *)
(* the removal of its event from the list, as the code does them with      *)
(* nothing of its own in between.                                          *)
(*                                                                         *)
(* The slots are handed out as SlotPool says: any free one.                *)
(***************************************************************************)
EXTENDS Select, Sequences

CONSTANTS
  Listener,    \* the slot xdbd_event_init_connections gives to the listener
  ListenFd,    \* and its descriptor
  MaxBacklog,  \* connections waiting in the kernel
  MaxUnread,   \* pieces a client has sent and the daemon has not received
  Failing      \* what may fail: "malloc", "fcntl", and "sigpipe" for a send to
               \* a client that has gone, whose signal ends the process

ASSUME LoopAssumption ==
  /\ Listener \in Conns
  /\ ListenFd \in Fds
  /\ \A f \in Fds : ListenFd <= f /\ ListenFd .. f \subseteq Fds
  /\ MaxBacklog \in Nat
  /\ MaxUnread \in Nat
  /\ Failing \subseteq {"malloc", "fcntl", "sigpipe"}

VARIABLES
  sel,      \* the select backend
  fd,       \* c->fd
  slot,     \* who answers for the slot, see below
  ready,    \* c->read->ready
  pools,    \* how many of c->pool and c->temp_pool are allocated
  accepts,  \* xdbd_posted_accept_events
  posted,   \* xdbd_posted_events
  lost,     \* descriptors accepted for which there was no slot
  crashed,  \* the process is gone
  backlog,  \* connections the kernel has not handed out yet
  peer,     \* what the client at the other end of a descriptor has done
  unread    \* pieces received by the kernel on a descriptor

daemon == <<sel, fd, slot, ready, pools, accepts, posted, lost, crashed>>
net    == <<backlog, peer, unread>>
vars   == <<daemon, net>>

\* slot[c]: on the free list, or the handler of the slot's read event, or
\* "limbo", taken by an accept that gave up (it has no handler).
Reading == {"wait", "header", "payload"}
Roles   == Reading \cup {"free", "listen", "limbo", "block"}

SlotFds == {fd[c] : c \in Conns} \ {NoFd}
OpenFds == {ListenFd} \cup {f \in Fds : peer[f] # "none"}
Posted  == {posted[i] : i \in 1 .. Len(posted)}

TypeOK ==
  /\ SelectType(sel)
  /\ fd \in [Conns -> Fds \cup {NoFd}]
  /\ slot \in [Conns -> Roles]
  /\ ready \in [Conns -> BOOLEAN]
  /\ pools \in [Conns -> 0 .. 2]
  /\ accepts \in Seq({Read(Listener)})
  /\ posted \in Seq(Events)
  /\ lost \subseteq Fds
  /\ crashed \in BOOLEAN
  /\ backlog \in 0 .. MaxBacklog
  /\ peer \in [Fds -> {"none", "open", "shut", "reset"}]
  /\ unread \in [Fds -> 0 .. MaxUnread]

\* xdbd_event_init_connections: the first slot is the listener's.
Init ==
  /\ fd = [c \in Conns |-> IF c = Listener THEN ListenFd ELSE NoFd]
  /\ sel = AddEvent(ResetEvents(SelectInit, Listener), Read(Listener), ListenFd)
  /\ slot = [c \in Conns |-> IF c = Listener THEN "listen" ELSE "free"]
  /\ ready = [c \in Conns |-> FALSE]
  /\ pools = [c \in Conns |-> 0]
  /\ accepts = <<>> /\ posted = <<>>
  /\ lost = {} /\ crashed = FALSE
  /\ backlog = 0
  /\ peer = [f \in Fds |-> "none"]
  /\ unread = [f \in Fds |-> 0]

-----------------------------------------------------------------------------
(***************************************************************************)
(* The clients.                                                            *)
(***************************************************************************)
ClientConnect ==
  /\ backlog < MaxBacklog
  /\ backlog' = backlog + 1
  /\ UNCHANGED <<daemon, peer, unread>>

\* A client gives up before its connection is accepted.
ClientAbort ==
  /\ backlog > 0
  /\ backlog' = backlog - 1
  /\ UNCHANGED <<daemon, peer, unread>>

ClientSend(f) ==
  /\ peer[f] = "open" /\ unread[f] < MaxUnread
  /\ unread' = [unread EXCEPT ![f] = @ + 1]
  /\ UNCHANGED <<daemon, backlog, peer>>

\* An orderly close: what was sent can still be received.
ClientShut(f) ==
  /\ peer[f] = "open"
  /\ peer' = [peer EXCEPT ![f] = "shut"]
  /\ UNCHANGED <<daemon, backlog, unread>>

ClientReset(f) ==
  /\ peer[f] \in {"open", "shut"}
  /\ peer' = [peer EXCEPT ![f] = "reset"]
  /\ unread' = [unread EXCEPT ![f] = 0]
  /\ UNCHANGED <<daemon, backlog>>

Client ==
  \/ ClientConnect \/ ClientAbort
  \/ \E f \in Fds : ClientSend(f) \/ ClientShut(f) \/ ClientReset(f)

-----------------------------------------------------------------------------
(***************************************************************************)
(* select()                                                                *)
(***************************************************************************)
Idle == ~crashed /\ accepts = <<>> /\ posted = <<>>

\* What recv() or accept() would not wait for.
Readable(f) ==
  \/ f = ListenFd /\ backlog > 0
  \/ unread[f] > 0
  \/ peer[f] \in {"shut", "reset"}

\* The registered events es in the order of event_index (there is one).
InOrder(s, es) ==
  {q \in [1 .. Cardinality(es) -> es] :
     \A i, j \in DOMAIN q : i < j => s.index[q[i]] < s.index[q[j]]}

\* A slip: the scan stops one event early.
ScanStopsEarly(s, found) == InOrder(s, {e \in found : s.index[e] < s.nevents - 1})

\* The lists the scan posts the events it found to.
Scan(s, found) == InOrder(s, found)

\* xdbd_select_process_events.  select() reports every readable descriptor it
\* was asked about and, as its manual warns, possibly others.
ProcessEvents ==
  /\ Idle
  /\ LET s == Refreshed(sel, fd)
     IN \E r \in SUBSET Below(s, s.read_set) :
          LET found == IF AsksForClosed(s, OpenFds) THEN {} ELSE Found(s, fd, r, {})
          IN /\ r # {}
             /\ {f \in Below(s, s.read_set) : Readable(f)} \subseteq r
             /\ sel' = IF AsksForClosed(s, OpenFds) THEN Repaired(s, OpenFds)
                       ELSE Scanned(s, fd, r, {}, OpenFds)
             /\ ready' = [c \in Conns |-> ready[c] \/ Read(c) \in found]
             /\ accepts' \in Scan(s, found \cap {Read(Listener)})
             /\ posted' \in Scan(s, found \ {Read(Listener)})
  /\ UNCHANGED <<fd, slot, pools, lost, crashed, net>>

\* select() was interrupted: the lists stay empty and the loop comes back.
ProcessInterrupted ==
  /\ Idle
  /\ sel' = Refreshed(sel, fd)
  /\ UNCHANGED <<fd, slot, ready, pools, accepts, posted, lost, crashed, net>>

-----------------------------------------------------------------------------
(***************************************************************************)
(* xdbd_event_accept                                                       *)
(***************************************************************************)
\* The kernel hands out the lowest descriptor that is not open.
NewFd(f) == f \in Fds \ OpenFds /\ \A g \in Fds \ OpenFds : f <= g

\* What every run of the accept handler does.
AcceptRun ==
  /\ ~crashed /\ accepts # <<>>
  /\ accepts' = Tail(accepts)
  /\ UNCHANGED posted

\* accept() returned -1: nobody was waiting any more, or no descriptor is left.
AcceptFails ==
  /\ AcceptRun
  /\ backlog = 0 \/ Fds \subseteq OpenFds
  /\ ready' = [ready EXCEPT ![Listener] = FALSE]
  /\ UNCHANGED <<sel, fd, slot, pools, lost, crashed, net>>

Accepted(f) ==
  /\ AcceptRun
  /\ backlog > 0 /\ NewFd(f)
  /\ backlog' = backlog - 1
  /\ peer' = [peer EXCEPT ![f] = "open"]
  /\ UNCHANGED unread

\* xdbd_get_connection found no slot; the descriptor is forgotten.
AcceptNoSlot(f) ==
  /\ Accepted(f)
  /\ \A c \in Conns : slot[c] # "free"
  /\ lost' = lost \cup {f}
  /\ ready' = [ready EXCEPT ![Listener] = FALSE]
  /\ UNCHANGED <<sel, fd, slot, pools, crashed>>

\* A slip: a slot is handed out that is in use.
TakeBusySlot(c, f, n) ==
  /\ slot[c] \in Reading \cup {"free"}
  /\ fd' = [fd EXCEPT ![c] = f]
  /\ ready' = [ready EXCEPT ![Listener] = FALSE, ![c] = FALSE]
  /\ pools' = [pools EXCEPT ![c] = n]
  /\ UNCHANGED lost

\* xdbd_get_connection, and n pools allocated for the slot.
TakeSlot(c, f, n) ==
  /\ slot[c] = "free"
  /\ fd' = [fd EXCEPT ![c] = f]
  /\ ready' = [ready EXCEPT ![Listener] = FALSE, ![c] = FALSE]
  /\ pools' = [pools EXCEPT ![c] = n]
  /\ UNCHANGED lost

\* A slip: the handler goes on with a pool missing.
AcceptGoesOn(c, f) ==
  /\ "malloc" \in Failing
  /\ Accepted(f)
  /\ \E n \in {0, 1} : TakeSlot(c, f, n)
  /\ sel' = AddEvent(ResetEvents(sel, c), Read(c), f)
  /\ slot' = [slot EXCEPT ![c] = "wait"]
  /\ UNCHANGED crashed

\* One of the two pools cannot be allocated: the handler returns and leaves
\* slot and descriptor taken.
AcceptNoPool(c, f) ==
  /\ "malloc" \in Failing
  /\ Accepted(f)
  /\ \E n \in {0, 1} : TakeSlot(c, f, n)
  /\ sel' = ResetEvents(sel, c)
  /\ slot' = [slot EXCEPT ![c] = "limbo"]
  /\ UNCHANGED crashed

\* The address cannot be allocated or the socket not made non-blocking: the
\* cleanup goes through c->listening, which is not set yet.
AcceptCrashes(c, f) ==
  /\ Failing \cap {"malloc", "fcntl"} # {}
  /\ Accepted(f)
  /\ TakeSlot(c, f, 2)
  /\ sel' = ResetEvents(sel, c)
  /\ slot' = [slot EXCEPT ![c] = "limbo"]
  /\ crashed' = TRUE

\* xdbd_handle_read_event
HandleReadEvent(s, c, f, isReady) ==
  IF ~s.active[Read(c)] /\ ~isReady THEN AddEvent(s, Read(c), f) ELSE s

\* The connection is set up and xdbd_adb_init_connection arms it.
AcceptOk(c, f) ==
  /\ Accepted(f)
  /\ TakeSlot(c, f, 2)
  /\ sel' = HandleReadEvent(ResetEvents(sel, c), c, f, FALSE)
  /\ slot' = [slot EXCEPT ![c] = "wait"]
  /\ UNCHANGED crashed

AcceptSlot(c, f) == AcceptNoPool(c, f) \/ AcceptCrashes(c, f) \/ AcceptOk(c, f)

-----------------------------------------------------------------------------
(***************************************************************************)
(* The handlers of a connection's read event, xdbd_adb.c                   *)
(***************************************************************************)
\* The first posted event belongs to slot c; its handler runs and the event
\* leaves the list.
EventFirst(c) ==
  /\ ~crashed /\ accepts = <<>> /\ posted # <<>>
  /\ Head(posted) = Read(c)

\* A slip: the event stays in the list when its handler has run.
EventRunsAgain(c) == EventFirst(c) /\ UNCHANGED <<posted, accepts, lost, crashed, backlog>>

EventRun(c) ==
  /\ EventFirst(c)
  /\ posted' = Tail(posted)
  /\ UNCHANGED <<accepts, lost, crashed, backlog>>

\* Slips: the descriptor is not closed, the events stay registered.
CloseKeepsDescriptor(c) ==
  /\ sel' = DelConnection(sel, c, fd[c])
  /\ fd' = [fd EXCEPT ![c] = NoFd]
  /\ slot' = [slot EXCEPT ![c] = "free"]
  /\ pools' = [pools EXCEPT ![c] = 0]
  /\ UNCHANGED <<peer, unread>>

CloseKeepsEvents(c) ==
  /\ UNCHANGED sel
  /\ fd' = [fd EXCEPT ![c] = NoFd]
  /\ slot' = [slot EXCEPT ![c] = "free"]
  /\ pools' = [pools EXCEPT ![c] = 0]
  /\ peer' = [peer EXCEPT ![fd[c]] = "none"]
  /\ unread' = [unread EXCEPT ![fd[c]] = 0]

\* xdbd_adb_close_connection
CloseConnection(c) ==
  /\ sel' = DelConnection(sel, c, fd[c])
  /\ fd' = [fd EXCEPT ![c] = NoFd]
  /\ slot' = [slot EXCEPT ![c] = "free"]
  /\ pools' = [pools EXCEPT ![c] = 0]
  /\ peer' = [peer EXCEPT ![fd[c]] = "none"]
  /\ unread' = [unread EXCEPT ![fd[c]] = 0]

\* recv() has nothing and the client is there: EAGAIN.
ReadAgain(c) ==
  /\ EventRun(c)
  /\ slot[c] \in Reading
  /\ unread[fd[c]] = 0 /\ peer[fd[c]] = "open"
  /\ ready' = [ready EXCEPT ![c] = FALSE]
  /\ sel' = HandleReadEvent(sel, c, fd[c], FALSE)
  /\ UNCHANGED <<fd, slot, pools, peer, unread>>

\* recv() reports the end of the stream or an error.
ReadEnds(c) ==
  /\ EventRun(c)
  /\ slot[c] \in Reading
  /\ unread[fd[c]] = 0 /\ peer[fd[c]] # "open"
  /\ ready' = [ready EXCEPT ![c] = FALSE]
  /\ CloseConnection(c)

\* Something was received and the connection is closed: the packet was CLSE,
\* the stream ended behind the bytes, or memory ran out; the first buffer of a
\* connection is allocated before anything is received.
ReadCloses(c) ==
  /\ EventRun(c)
  /\ slot[c] \in Reading
  /\ unread[fd[c]] > 0 \/ (slot[c] = "wait" /\ "malloc" \in Failing)
  /\ \E b \in BOOLEAN : ready' = [ready EXCEPT ![c] = b]
  /\ CloseConnection(c)

\* Who handles the next event after bytes were received: the packet is still
\* incomplete, it was answered, or it was refused and the slot is blocked.
After(role) ==
  IF role = "payload" THEN {"wait", "block"} ELSE {"header", "payload", "wait", "block"}

ReadSome(c) ==
  /\ EventRun(c)
  /\ slot[c] \in Reading
  /\ \E k \in 1 .. unread[fd[c]] : unread' = [unread EXCEPT ![fd[c]] = @ - k]
  /\ \E role \in After(slot[c]) :
       /\ slot' = [slot EXCEPT ![c] = role]
       /\ \/ /\ role # "payload"
             /\ ready' = [ready EXCEPT ![c] = TRUE]
             /\ UNCHANGED sel
          \/ \* a second recv() found nothing more
             /\ role \in {"header", "payload"}
             /\ unread'[fd[c]] = 0 /\ peer[fd[c]] = "open"
             /\ ready' = [ready EXCEPT ![c] = FALSE]
             /\ sel' = HandleReadEvent(sel, c, fd[c], FALSE)
  /\ UNCHANGED <<fd, pools, peer>>

\* The payload handler comes a second time because recv() had nothing the first
\* time, which took 2 bytes out of the buffer: with a lone header in it and one
\* more byte now, the payload has the length (size_t)-1.
LengthMayWrap(c) == slot[c] = "payload"

\* The handler ends the process: in the copy of such a payload, or the dump of a
\* packet cannot be allocated and is read all the same, or the answer goes to a
\* client that reset the connection in the meantime.
ReadCrashes(c) ==
  /\ LengthMayWrap(c) \/ Failing \cap {"malloc", "sigpipe"} # {}
  /\ EventFirst(c)
  /\ slot[c] \in Reading
  /\ unread[fd[c]] > 0
  /\ crashed' = TRUE
  /\ UNCHANGED <<sel, fd, slot, ready, pools, accepts, posted, lost, net>>

\* A slip: the event stays registered.
BlockKeepsEvent(c) ==
  /\ EventRun(c)
  /\ slot[c] = "block"
  /\ UNCHANGED <<sel, fd, slot, ready, pools, peer, unread>>

\* xdbd_adb_block_reading: the connection is listened to no more.
BlockReading(c) ==
  /\ EventRun(c)
  /\ slot[c] = "block"
  /\ sel' = DelIfActive(sel, Read(c), fd[c])
  /\ UNCHANGED <<fd, slot, ready, pools, peer, unread>>

Handler(c) ==
  \/ ReadAgain(c) \/ ReadEnds(c) \/ ReadCloses(c) \/ ReadSome(c) \/ ReadCrashes(c)
  \/ BlockReading(c)

-----------------------------------------------------------------------------
Work ==
  \/ ProcessEvents
  \/ AcceptFails
  \/ \E f \in Fds : AcceptNoSlot(f)
  \/ \E c \in Conns, f \in Fds : AcceptSlot(c, f)
  \/ \E c \in Conns : Handler(c)

Next == Work \/ ProcessInterrupted \/ Client

Spec == Init /\ [][Next]_vars

\* The loop of xdbd_worker_process never ends, and not every select() is
\* interrupted: the program installs no signal handler.
FairSpec == Spec /\ WF_vars(Work)

-----------------------------------------------------------------------------
\* The backend is consistent whatever the handlers do: the array and the
\* places are inverse, the fd_sets hold the descriptors of the registered
\* events only, all of them are open and active and not above a known max_fd.
BackendConsistent == BackendOK(sel, fd) /\ DistinctOpen(fd)

\* A connection whose handler waits for bytes is watched by select(): however
\* xdbd_adb.c hands the event from one handler to the next, no connection is
\* forgotten.  The listener is watched all the time.
ServedAreArmed ==
  \A c \in Conns : slot[c] \in Reading \cup {"listen"} => Registered(sel, Read(c))

\* A posted event is posted once and belongs to an open connection with a
\* handler, also after handlers that ran before it in the same round closed
\* and accepted others: no handler runs on a slot of the free list.
PostedAreLive ==
  /\ Cardinality(Posted) = Len(posted)
  /\ \A e \in Posted : slot[Data(e)] \in Reading \cup {"block"} /\ fd[Data(e)] # NoFd

\* Nothing of a slot on the free list is in use: no descriptor, no pool, no
\* registered event.  The next xdbd_get_connection zeroes all of it.
FreeIsQuiet ==
  \A c \in Conns : slot[c] = "free" =>
    /\ fd[c] = NoFd /\ pools[c] = 0
    /\ ~Registered(sel, Read(c)) /\ ~Registered(sel, Write(c))

\* A slot that serves a connection holds both its pools, so the two calls of
\* xdbd_destroy_pool in xdbd_adb_close_connection never see a pool that is
\* not there or was destroyed before.
ServedHavePools ==
  \A c \in Conns : slot[c] \in Reading \cup {"block"} => pools[c] = 2

\* Every open descriptor is held by a slot that answers for it.  This needs a
\* slot for every descriptor the process may get and no failing allocation.
NoDescriptorLost ==
  /\ lost = {}
  /\ \A c \in Conns : slot[c] # "limbo"
  /\ {f \in Fds : peer[f] # "none"} = SlotFds \ {ListenFd}

\* Descriptors stay below the number of slots and of the connections for which
\* there was no slot: only these can lift a descriptor over FD_SETSIZE, where
\* FD_SET writes behind the set.
DescriptorsStayLow ==
  \A f \in OpenFds : f < ListenFd + Cardinality(Conns) + Cardinality(lost)

\* From the moment select() reported a connection until its handler runs the
\* slot keeps its descriptor: a slot is not closed and given to a new client
\* with the report for the old one still in the list.
ReportedKeepFd ==
  [][\A e \in Posted : e \in {posted'[i] : i \in 1 .. Len(posted')}
        => fd'[Data(e)] = fd[Data(e)]]_vars

\* A client that went away is noticed, unless some client ended the process:
\* its slot is closed, or its last packet was refused and the slot is blocked.
HangupHandled ==
  \A c \in Conns :
    (slot[c] \in Reading /\ peer[fd[c]] \in {"shut", "reset"})
      ~> (slot[c] \notin Reading \/ peer[fd[c]] = "open" \/ crashed)

\* A connection whose packet was refused has no handler that receives.  When
\* its client goes away select() reports it, and must not do so for ever: it is
\* taken out of the sets and the loop, if it still runs, can sleep.
BlockedGoesQuiet ==
  \A c \in Conns :
    (slot[c] = "block" /\ peer[fd[c]] \in {"shut", "reset"})
      ~> (~Registered(sel, Read(c)) \/ crashed)

\* The kernel's queue of new connections does not stay full for ever while the
\* process lives and could open one more descriptor, or is out of descriptors
\* and a client that is read has gone: the loop, which the listener then keeps
\* from sleeping, still serves the others, closes one and accepts.
AcceptProgress ==
  ~<>[](/\ backlog = MaxBacklog /\ ~crashed
        /\ \/ OpenFds # Fds
           \/ \E c \in Conns : slot[c] \in Reading /\ peer[fd[c]] \in {"shut", "reset"})
=============================================================================
