------------------------------- MODULE Startup -------------------------------
(***************************************************************************)
(* main() from its first call to the endless loop: xdbd_init, the          *)
(* listening socket, the select backend and the tables, with every call    *)
(* that can fail, and then the daemon of module EventLoop.                 *)
(*                                                                         *)
(* A step is one call of the operating system or of malloc with what the   *)
(* code does with its result.  bind() and listen() are the calls whose     *)
(* failure is only logged: the start-up goes on with -1 for the listening  *)
(* descriptor, registers it, and the daemon runs without being reachable.  *)
(*                                                                         *)
(* The first page of the pool has room for all of the small allocations of *)
(* the start-up, so of these only the first one can fail.                  *)
(***************************************************************************)
EXTENDS EventLoop

CONSTANT StartFailing  \* the calls of the start-up that may fail

ASSUME StartupAssumption ==
  StartFailing \subseteq {"malloc", "socket", "fcntl", "bind", "listen"}

VARIABLES
  stage,  \* the next call of the start-up, "run", "exit", or "abort"
  heap,   \* what has been allocated and not freed: the pool, the array of
          \* listening sockets, the array of the backend
  sock,   \* the listening socket
  lsfd    \* ls->fd

startvars == <<stage, heap, sock, lsfd>>

Stages == {"pool", "page", "array", "socket", "fcntl", "bind", "listen",
           "index", "tables", "register", "run", "exit", "abort"}

StartTypeOK ==
  /\ TypeOK
  /\ stage \in Stages
  /\ heap \subseteq {"pool", "listening", "event_index"}
  /\ sock \in {"none", "open", "listening", "closed"}
  /\ lsfd \in {NoFd, ListenFd}

\* Nothing is registered yet and no slot is taken.
StartInit ==
  /\ fd = [c \in Conns |-> NoFd]
  /\ sel = SelectInit
  /\ slot = [c \in Conns |-> "free"]
  /\ ready = [c \in Conns |-> FALSE]
  /\ pools = [c \in Conns |-> 0]
  /\ accepts = <<>> /\ posted = <<>>
  /\ lost = {} /\ crashed = FALSE
  /\ backlog = 0
  /\ peer = [f \in Fds |-> "none"]
  /\ unread = [f \in Fds |-> 0]
  /\ stage = "pool" /\ heap = {} /\ sock = "none" /\ lsfd = NoFd

-----------------------------------------------------------------------------
\* A call of the start-up succeeds and the next is due.
Goes(from, to) == stage = from /\ stage' = to /\ UNCHANGED vars

\* A call fails, xdbd_init destroys the pool if there is one, main() returns.
\* The array of listening sockets and the socket stay to the end of the process.
GivesUp(from, why) ==
  /\ stage = from /\ why \in StartFailing
  /\ stage' = "exit" /\ heap' = heap \ {"pool"}
  /\ UNCHANGED vars

CreatePool ==
  \/ Goes("pool", "page") /\ heap' = {"pool"} /\ UNCHANGED <<sock, lsfd>>
  \/ GivesUp("pool", "malloc") /\ UNCHANGED <<sock, lsfd>>

\* xdbd_palloc of the xdbd_t, which takes the first page
AllocXdbd ==
  \/ Goes("page", "array") /\ UNCHANGED <<heap, sock, lsfd>>
  \/ GivesUp("page", "malloc") /\ UNCHANGED <<sock, lsfd>>

\* xdbd_create_listening; nothing frees the array again
CreateListening ==
  \/ /\ Goes("array", "socket")
     /\ heap' = heap \cup {"listening"} /\ lsfd' = NoFd
     /\ UNCHANGED sock
  \/ GivesUp("array", "malloc") /\ UNCHANGED <<sock, lsfd>>

OpenSocket ==
  \/ Goes("socket", "fcntl") /\ sock' = "open" /\ UNCHANGED <<heap, lsfd>>
  \/ GivesUp("socket", "socket") /\ UNCHANGED <<sock, lsfd>>

Nonblocking ==
  \/ Goes("fcntl", "bind") /\ UNCHANGED <<heap, sock, lsfd>>
  \/ GivesUp("fcntl", "fcntl") /\ sock' = "closed" /\ UNCHANGED lsfd

\* A slip: ls->fd is set before bind() and listen() have succeeded.
GoesDeafWithFd(from) ==
  /\ from \in StartFailing
  /\ Goes(from, "index")
  /\ lsfd' = ListenFd
  /\ UNCHANGED <<heap, sock>>

\* The failure is logged; the socket stays open and ls->fd stays -1.
GoesDeaf(from) ==
  /\ from \in StartFailing
  /\ Goes(from, "index")
  /\ UNCHANGED <<heap, sock, lsfd>>

Bind ==
  \/ Goes("bind", "listen") /\ UNCHANGED <<heap, sock, lsfd>>
  \/ GoesDeaf("bind")

\* From here on clients can connect.
Listen ==
  \/ Goes("listen", "index") /\ sock' = "listening" /\ lsfd' = ListenFd /\ UNCHANGED heap
  \/ GoesDeaf("listen")

\* xdbd_select_init
InitBackend ==
  \/ Goes("index", "tables") /\ heap' = heap \cup {"event_index"} /\ UNCHANGED <<sock, lsfd>>
  \/ GivesUp("index", "malloc") /\ UNCHANGED <<sock, lsfd>>

\* The connections and their events, three blocks of the pool
InitTables ==
  \/ Goes("tables", "register") /\ UNCHANGED <<heap, sock, lsfd>>
  \/ GivesUp("tables", "malloc") /\ UNCHANGED <<sock, lsfd>>

\* A slip: the event of the listener is not added.
RegisterNothing(bit) == ResetEvents(sel, Listener)

\* xdbd_add_event of the listener's read event.  FD_SET of -1 is undefined:
\* the bit it sets may be any.
RegisterListener(bit) == AddEvent(ResetEvents(sel, Listener), Read(Listener), bit)

Register ==
  /\ stage = "register" /\ stage' = "run"
  /\ \E bit \in (IF lsfd = NoFd THEN Fds ELSE {lsfd}) : sel' = RegisterListener(bit)
  /\ fd' = [fd EXCEPT ![Listener] = lsfd]
  /\ slot' = [slot EXCEPT ![Listener] = "listen"]
  /\ UNCHANGED <<ready, pools, accepts, posted, lost, crashed, net, heap, sock, lsfd>>

\* Or FD_SET of -1 ends the process, when the library checks its argument.
RegisterAborts ==
  /\ lsfd = NoFd
  /\ Goes("register", "abort")
  /\ UNCHANGED <<heap, sock, lsfd>>

Start ==
  \/ CreatePool \/ AllocXdbd \/ CreateListening
  \/ OpenSocket \/ Nonblocking \/ Bind \/ Listen
  \/ InitBackend \/ InitTables \/ Register \/ RegisterAborts

\* The kernel accepts connections for a socket that listens, also while the
\* daemon is still starting.  A process that has ended listens no more.
StartClient ==
  /\ Client
  /\ ClientConnect => sock = "listening" /\ stage \notin {"exit", "abort"}

StartNext ==
  \/ Start
  \/ StartClient /\ UNCHANGED startvars
  \/ stage = "run" /\ (Work \/ ProcessInterrupted) /\ UNCHANGED startvars

\* The start-up does not stop by itself, nor does the loop.
StartSpec ==
  /\ StartInit /\ [][StartNext]_<<startvars, vars>>
  /\ WF_<<startvars, vars>>(Start)
  /\ WF_<<startvars, vars>>(stage = "run" /\ Work /\ UNCHANGED startvars)

-----------------------------------------------------------------------------
\* The daemon that came up and listens.
Up == stage = "run" /\ lsfd # NoFd

\* Until then the loop is as it will start.
loopFd   == IF Up THEN fd ELSE [c \in Conns |-> IF c = Listener THEN ListenFd ELSE NoFd]
loopSel  == IF Up THEN sel
            ELSE AddEvent(ResetEvents(SelectInit, Listener), Read(Listener), ListenFd)
loopSlot == IF Up THEN slot ELSE [c \in Conns |-> IF c = Listener THEN "listen" ELSE "free"]

Loop == INSTANCE EventLoop WITH
  fd      <- loopFd,  sel   <- loopSel, slot    <- loopSlot,
  ready   <- ready,   pools <- pools, accepts <- accepts, posted <- posted,
  lost    <- lost,    crashed <- crashed,
  backlog <- backlog, peer <- peer,   unread <- unread

\* Whatever fails, the start-up hands the loop a listener that is registered
\* and listens, or never takes a step of the loop that anyone could see; a
\* client that connects before the tables are there is in nobody's way.
ImplementsLoop == Loop!Spec

\* A daemon whose bind() or listen() failed runs with -1 registered.  select()
\* must never report that, or the accept handler would call accept() with -1
\* or a slot be given away; the loop sleeps for ever.
DeafIsIdle ==
  stage = "run" /\ sock # "listening" =>
    /\ accepts = <<>> /\ posted = <<>>
    /\ Below(Refreshed(sel, fd), sel.read_set) = {}

\* A client that connects while the daemon is still starting is not forgotten:
\* once the loop runs the first in the queue gets a descriptor, unless the
\* clients give up.
EarlyClientAccepted ==
  (backlog > 0 /\ stage # "run")
    ~> (backlog = 0 \/ stage = "exit" \/ \E f \in Fds : peer[f] # "none")
=============================================================================
