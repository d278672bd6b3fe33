---------------------------- MODULE StartupProofs ----------------------------
(***************************************************************************)
(* The start-up and the daemon it starts, for any number of slots and      *)
(* descriptors and whatever calls fail: either a loop is started in the    *)
(* state EventLoop begins with, and from then on is that loop, or a loop   *)
(* that never sees an event, or none.                                      *)
(***************************************************************************)
EXTENDS Startup, EventLoopProofs

\* Before the loop runs nothing of it is in use.
Blank ==
  /\ fd = [c \in Conns |-> NoFd]
  /\ sel = SelectInit
  /\ slot = [c \in Conns |-> "free"]
  /\ ready = [c \in Conns |-> FALSE]
  /\ pools = [c \in Conns |-> 0]
  /\ accepts = <<>> /\ posted = <<>>
  /\ lost = {} /\ crashed = FALSE
  /\ backlog \in 0 .. MaxBacklog
  /\ peer = [f \in Fds |-> "none"]
  /\ unread = [f \in Fds |-> 0]

\* A loop whose listener has no descriptor: -1 is registered, whatever bit that
\* set, and select() is not asked about any descriptor.
DeafSel ==
  /\ SelectType(sel)
  /\ sel.nevents = 1 /\ sel.event_index[0] = Read(Listener) /\ sel.max_fd = NoFd

Deaf ==
  /\ DeafSel
  /\ fd = [c \in Conns |-> NoFd]
  /\ slot \in [Conns -> {"listen", "free"}]
  /\ ready = [c \in Conns |-> FALSE]
  /\ pools = [c \in Conns |-> 0]
  /\ accepts = <<>> /\ posted = <<>>
  /\ lost = {} /\ crashed = FALSE
  /\ backlog = 0
  /\ peer = [f \in Fds |-> "none"]
  /\ unread = [f \in Fds |-> 0]

\* ls->fd is the listening socket once it listens, and clients can only wait
\* for a socket that listens.
SockOK ==
  /\ sock \in {"none", "open", "listening", "closed"}
  /\ lsfd = IF sock = "listening" THEN ListenFd ELSE NoFd
  /\ stage \in {"pool", "page", "array", "socket", "fcntl", "bind", "listen"}
       => sock # "listening"
  /\ backlog > 0 => sock = "listening"

HeapOK ==
  heap \subseteq {"pool", "listening", "event_index"}

StartInv ==
  /\ stage \in Stages
  /\ SockOK
  /\ HeapOK
  /\ stage # "run" => Blank
  /\ stage = "run" /\ lsfd = NoFd => Deaf
  /\ Up => IInv /\ QInv

-----------------------------------------------------------------------------
\* Nobody knows a descriptor -1, and with no other one select() is asked about
\* none.
LEMMA DeafAsksNothing ==
  ASSUME DeafSel, fd = [c \in Conns |-> NoFd]
  PROVE  Refreshed(sel, fd) = sel /\ Below(sel, sel.read_set) = {}
<1> DEFINE watched == {fd[Data(sel.event_index[i])] : i \in 0 .. sel.nevents - 1}
<1>1. watched = {NoFd}
  <2>1. 0 .. sel.nevents - 1 = {0}
    BY SMT DEF DeafSel
  <2>2. fd[Data(sel.event_index[0])] = NoFd
    BY EventFacts, LoopAssumption DEF DeafSel
  <2> QED
    BY <2>1, <2>2
<1> HIDE DEF watched
<1>2. MaxFd(sel, fd) = NoFd
  <2>1. MaxFd(sel, fd) = CHOOSE m \in watched \cup {NoFd} : \A f \in watched : f <= m
    BY DEF MaxFd, watched
  <2>2. \E m \in {NoFd} : \A f \in {NoFd} : f <= m
    BY SMT DEF NoFd
  <2>3. (CHOOSE m \in {NoFd} : \A f \in {NoFd} : f <= m) \in {NoFd}
    BY <2>2
  <2>4. watched \cup {NoFd} = {NoFd}
    BY <1>1
  <2> QED
    BY <1>1, <2>1, <2>3, <2>4
<1>3. [sel EXCEPT !.max_fd = NoFd] = sel
  BY DEF DeafSel, SelectType
<1>4. Refreshed(sel, fd) = sel
  BY <1>2, <1>3 DEF Refreshed
<1>5. ASSUME NEW f \in sel.read_set PROVE ~(f <= sel.max_fd)
  <2>1. f \in Fds /\ sel.max_fd = NoFd
    BY DEF DeafSel, SelectType
  <2>2. f \in Nat
    BY <2>1, FdFacts
  <2> QED
    BY <2>1, <2>2, SMT DEF NoFd
<1> QED
  BY <1>4, <1>5 DEF Below

\* The loop that nobody can reach comes back to where it was.
LEMMA DeafSleeps ==
  ASSUME Deaf, Work \/ ProcessInterrupted
  PROVE  UNCHANGED vars
<1>1. Refreshed(sel, fd) = sel /\ Below(sel, sel.read_set) = {}
  BY DeafAsksNothing DEF Deaf
<1>2. ~ProcessEvents
  BY <1>1 DEF ProcessEvents
<1>3. accepts = <<>> /\ posted = <<>>
  BY DEF Deaf
<1>4. ~AcceptRun
  BY <1>3 DEF AcceptRun
<1>5. \A f : ~Accepted(f)
  BY <1>4 DEF Accepted
<1>6. \A c : ~EventFirst(c)
  BY <1>3 DEF EventFirst
<1>7. \A c : ~EventRun(c)
  BY <1>6 DEF EventRun
<1>8. ~AcceptFails /\ \A f : ~AcceptNoSlot(f)
  BY <1>4, <1>5 DEF AcceptFails, AcceptNoSlot
<1>9. \A c, f : ~AcceptSlot(c, f)
  BY <1>5 DEF AcceptSlot, AcceptNoPool, AcceptCrashes, AcceptOk
<1>10. \A c : ~Handler(c)
  BY <1>6, <1>7 DEF Handler, ReadAgain, ReadEnds, ReadCloses, ReadSome, ReadCrashes, BlockReading
<1>11. ~Work
  BY <1>2, <1>8, <1>9, <1>10 DEF Work
<1> QED
  BY <1>1, <1>11 DEF ProcessInterrupted, vars, daemon, net

\* Clients that are not connected can only connect, or give that up.
LEMMA OnlyWaiting ==
  ASSUME peer = [f \in Fds |-> "none"], Client
  PROVE  /\ UNCHANGED <<daemon, peer, unread>>
         /\ ClientConnect \/ (backlog > 0 /\ backlog' = backlog - 1)
<1>1. \A f \in Fds : peer[f] = "none"
  OBVIOUS
<1>2. \A f \in Fds : ~(ClientSend(f) \/ ClientShut(f) \/ ClientReset(f))
  BY <1>1 DEF ClientSend, ClientShut, ClientReset
<1> QED
  BY <1>2 DEF Client, ClientConnect, ClientAbort

\* A call of the start-up moves nothing of the loop, and nothing but listen()
\* makes a socket listen.
LEMMA CallsKept ==
  ASSUME StartInv, Start, ~Register
  PROVE  /\ UNCHANGED vars /\ stage # "run" /\ stage' # "run" /\ stage' \in Stages
         /\ SockOK' /\ HeapOK'
<1>1. UNCHANGED vars => UNCHANGED backlog
  BY DEF vars, net
<1>2. /\ SockOK /\ HeapOK /\ ListenFd # NoFd
  BY LoopAssumption, FdFacts DEF StartInv
<1>3. CASE CreatePool
  BY <1>1, <1>2, <1>3 DEF CreatePool, Goes, GivesUp, SockOK, HeapOK, Stages
<1>4. CASE AllocXdbd
  BY <1>1, <1>2, <1>4 DEF AllocXdbd, Goes, GivesUp, SockOK, HeapOK, Stages
<1>5. CASE CreateListening
  BY <1>1, <1>2, <1>5 DEF CreateListening, Goes, GivesUp, SockOK, HeapOK, Stages
<1>6. CASE OpenSocket
  BY <1>1, <1>2, <1>6 DEF OpenSocket, Goes, GivesUp, SockOK, HeapOK, Stages
<1>7. CASE Nonblocking
  BY <1>1, <1>2, <1>7 DEF Nonblocking, Goes, GivesUp, SockOK, HeapOK, Stages
<1>8. CASE Bind
  BY <1>1, <1>2, <1>8 DEF Bind, Goes, GoesDeaf, SockOK, HeapOK, Stages
<1>9. CASE Listen
  BY <1>1, <1>2, <1>9 DEF Listen, Goes, GoesDeaf, SockOK, HeapOK, Stages
<1>10. CASE InitBackend
  BY <1>1, <1>2, <1>10 DEF InitBackend, Goes, GivesUp, SockOK, HeapOK, Stages
<1>11. CASE InitTables
  BY <1>1, <1>2, <1>11 DEF InitTables, Goes, GivesUp, SockOK, HeapOK, Stages
<1>12. CASE RegisterAborts
  BY <1>1, <1>2, <1>12 DEF RegisterAborts, Goes, SockOK, HeapOK, Stages
<1> QED
  BY <1>3, <1>4, <1>5, <1>6, <1>7, <1>8, <1>9, <1>10, <1>11, <1>12 DEF Start

\* With a socket that listens the loop is started as EventLoop says.
LEMMA RegisterBoots ==
  ASSUME StartInv, Register, lsfd # NoFd
  PROVE  Booted'
<1>1. Blank /\ lsfd = ListenFd /\ Listener \in Conns
  BY LoopAssumption DEF StartInv, Register, SockOK
<1>2. sel' = AddEvent(ResetEvents(SelectInit, Listener), Read(Listener), ListenFd)
  BY <1>1 DEF Register, RegisterListener, Blank
<1>3. fd' = [c \in Conns |-> IF c = Listener THEN ListenFd ELSE NoFd]
  BY <1>1 DEF Register, Blank
<1>4. slot' = [c \in Conns |-> IF c = Listener THEN "listen" ELSE "free"]
  BY <1>1 DEF Register, Blank
<1>5. UNCHANGED <<ready, pools, accepts, posted, lost, crashed, backlog, peer, unread>>
  BY DEF Register, net
<1> QED
  BY <1>1, <1>2, <1>3, <1>4, <1>5 DEF Blank, Booted

\* Without one, -1 is registered.
LEMMA RegisterDeaf ==
  ASSUME StartInv, Register, lsfd = NoFd
  PROVE  Deaf'
<1>1. Blank /\ backlog = 0 /\ Listener \in Conns /\ ListenFd # NoFd
  <2>1. Blank /\ Listener \in Conns /\ ListenFd # NoFd
    BY LoopAssumption, FdFacts DEF StartInv, Register
  <2>2. ~(backlog > 0) /\ backlog \in 0 .. MaxBacklog
    BY <2>1 DEF StartInv, SockOK, Blank
  <2> QED
    BY <2>1, <2>2, LoopAssumption, SMT
<1>2. PICK bit \in Fds : sel' = AddEvent(ResetEvents(SelectInit, Listener), Read(Listener), bit)
  BY <1>1 DEF Register, RegisterListener, Blank
<1> DEFINE nofd == [c \in Conns |-> NoFd]
           s    == ResetEvents(SelectInit, Listener)
           gd   == [nofd EXCEPT ![Listener] = bit]
<1>3. nofd \in FdMap /\ nofd[Listener] = NoFd
  BY <1>1, FdFacts DEF FdMap
<1>4. gd \in FdMap /\ gd[Data(Read(Listener))] = bit /\ bit # NoFd /\ Read(Listener) \in Events
  BY <1>1, <1>3, EventFacts, FdFacts DEF FdMap
<1>5. BackendOK(SelectInit, nofd)
  BY <1>3, InitOK
<1> HIDE DEF nofd
<1>6. BackendOK(s, gd)
  BY <1>1, <1>3, <1>5, ResetOK
<1>7. s.nevents = 0 /\ s.max_fd = NoFd
  BY DEF SelectInit, ResetEvents
<1>8. ~Registered(s, Read(Listener))
  BY <1>1, <1>4, <1>5, ResetRegisters, EventFacts DEF BackendOK
<1> HIDE DEF s, gd
<1>9. SelectType(AddEvent(s, Read(Listener), bit))
  <2>1. BackendOK(AddEvent(s, Read(Listener), gd[Data(Read(Listener))]), gd)
    BY <1>4, <1>6, AddOK
  <2> QED
    BY <1>4, <2>1 DEF BackendOK
<1>10. SelectType(s)
  BY <1>6 DEF BackendOK
<1>11. sel' = AddEvent(s, Read(Listener), bit)
  BY <1>2 DEF s
<1>12. 0 \in Places
  <2>1. 0 < Capacity
    BY <1>4, <1>7, <1>8, <1>6, RoomForEvent DEF BackendOK
  <2> QED
    BY <2>1, EventsCount, SMT DEF Places
<1>13. sel'.nevents = 1 /\ sel'.event_index[0] = Read(Listener) /\ sel'.max_fd = NoFd
  <2>1. s.event_index \in [Places -> Events \cup {NoEvent}]
    BY <1>10 DEF SelectType
  <2> QED
    BY <1>7, <1>8, <1>10, <1>11, <1>12, <2>1 DEF AddEvent, SelectType
<1>14. DeafSel'
  BY <1>9, <1>11, <1>13 DEF DeafSel
<1>15. fd' = [c \in Conns |-> NoFd]
  BY <1>1 DEF Register, Blank
<1>16. slot' \in [Conns -> {"listen", "free"}]
  BY <1>1 DEF Register, Blank
<1>17. UNCHANGED <<ready, pools, accepts, posted, lost, crashed, backlog, peer, unread>>
  BY DEF Register, net
<1> QED
  BY <1>1, <1>14, <1>15, <1>16, <1>17 DEF Blank, Deaf

-----------------------------------------------------------------------------
\* The two invariants of the loop hold when it is started.
LEMMA BootedUp == Booted' => IInv' /\ QInv'
<1>1. Booted => IInv /\ QInv
  BY BootedInv, BootedQueue
<1> QED
  BY <1>1, PTL

\* And a step of the loop keeps them.
LEMMA LoopStep == IInv /\ QInv /\ [Next]_vars => IInv' /\ QInv'
BY StepInv, StepQueue

\* main() begins with nothing allocated and nobody waiting.
LEMMA StartInitInv == StartInit => StartInv
<1> SUFFICES ASSUME StartInit PROVE StartInv
  OBVIOUS
<1>1. stage = "pool" /\ heap = {} /\ sock = "none" /\ lsfd = NoFd /\ backlog = 0
  BY DEF StartInit
<1>2. 0 \in 0 .. MaxBacklog /\ ~(0 > 0)
  BY LoopAssumption
<1>3. Blank
  BY <1>2 DEF StartInit, Blank
<1>4. SockOK
  BY <1>1, <1>2 DEF SockOK
<1>5. HeapOK
  BY <1>1 DEF HeapOK
<1> QED
  BY <1>1, <1>3, <1>4, <1>5 DEF StartInv, Stages, Up

\* The calls of the start-up.
LEMMA StartStepInv ==
  ASSUME StartInv, Start
  PROVE  StartInv'
<1>1. CASE ~Register
  <2>1. /\ UNCHANGED vars /\ stage # "run" /\ stage' # "run" /\ stage' \in Stages
        /\ SockOK' /\ HeapOK'
    BY <1>1, CallsKept
  <2>2. Blank'
    BY <2>1 DEF StartInv, Blank, vars, daemon, net
  <2> QED
    BY <2>1, <2>2 DEF StartInv, Up
<1>2. CASE Register
  <2>1. /\ stage' = "run" /\ UNCHANGED <<heap, sock, lsfd, backlog>>
    BY <1>2 DEF Register, net
  <2>2. SockOK' /\ HeapOK'
    BY <2>1 DEF StartInv, SockOK, HeapOK
  <2>3. lsfd' = NoFd => Deaf'
    BY <1>2, <2>1, RegisterDeaf
  <2>4. Up' => IInv' /\ QInv'
    BY <1>2, <2>1, RegisterBoots, BootedUp DEF Up
  <2> QED
    BY <2>1, <2>2, <2>3, <2>4 DEF StartInv, Stages
<1> QED
  BY <1>1, <1>2

\* A client can only wait while nothing is accepted; nobody can for a socket
\* that does not listen.
LEMMA StartClientInv ==
  ASSUME StartInv, StartClient, UNCHANGED startvars
  PROVE  StartInv'
<1>1. /\ UNCHANGED <<stage, heap, sock, lsfd>>
      /\ Client /\ (ClientConnect => sock = "listening")
  BY DEF StartClient, startvars
<1>2. HeapOK' /\ stage' \in Stages /\ SockOK
  BY <1>1 DEF StartInv, HeapOK
<1>3. CASE Up
  <2>1. IInv' /\ QInv'
    BY <1>1, <1>3, LoopStep DEF StartInv, Next
  <2>2. Up' /\ SockOK'
    BY <1>1, <1>2, <1>3 DEF Up, SockOK
  <2> QED
    BY <1>1, <1>2, <1>3, <2>1, <2>2 DEF StartInv, Up
<1>4. CASE ~Up
  <2>1. peer = [f \in Fds |-> "none"] /\ backlog \in 0 .. MaxBacklog /\ 0 \in 0 .. MaxBacklog
    BY <1>4, LoopAssumption DEF StartInv, Blank, Deaf, Up
  <2>2. /\ UNCHANGED <<daemon, peer, unread>>
        /\ ClientConnect \/ (backlog > 0 /\ backlog' = backlog - 1)
    BY <1>1, <2>1, OnlyWaiting
  <2>3. sock = "listening"
    BY <1>1, <1>2, <2>2 DEF SockOK
  <2>4. stage # "run"
    BY <1>2, <1>4, <2>3, LoopAssumption, FdFacts DEF Up, SockOK
  <2>5. backlog' \in 0 .. MaxBacklog
    <3>1. CASE ClientConnect
      BY <2>1, <3>1, LoopAssumption DEF ClientConnect
    <3>2. CASE backlog > 0 /\ backlog' = backlog - 1
      BY <2>1, <3>2, LoopAssumption
    <3> QED
      BY <2>2, <3>1, <3>2
  <2>6. Blank'
    BY <2>2, <2>4, <2>5 DEF StartInv, Blank, daemon
  <2>7. SockOK'
    BY <1>1, <1>2, <2>3 DEF SockOK
  <2> QED
    BY <1>1, <1>2, <2>4, <2>6, <2>7 DEF StartInv, Up
<1> QED
  BY <1>3, <1>4

\* The loop runs, or sleeps for ever.
LEMMA StartWorkInv ==
  ASSUME StartInv, stage = "run", Work \/ ProcessInterrupted, UNCHANGED startvars
  PROVE  StartInv'
<1>1. UNCHANGED <<stage, heap, sock, lsfd>>
  BY DEF startvars
<1>2. CASE lsfd = NoFd
  <2>1. UNCHANGED vars /\ Deaf
    BY <1>2, DeafSleeps DEF StartInv
  <2>2. Deaf'
    BY <2>1 DEF Deaf, DeafSel, vars, daemon, net
  <2>3. SockOK' /\ HeapOK'
    BY <1>1, <2>1 DEF StartInv, SockOK, HeapOK, vars, net
  <2> QED
    BY <1>1, <1>2, <2>2, <2>3 DEF StartInv, Up
<1>3. CASE lsfd # NoFd
  <2>1. IInv' /\ QInv'
    BY <1>3, LoopStep DEF StartInv, Next, Up
  <2>2. SockOK' /\ HeapOK'
    BY <1>1, <1>3 DEF StartInv, SockOK, HeapOK
  <2> QED
    BY <1>1, <1>3, <2>1, <2>2 DEF StartInv, Up
<1> QED
  BY <1>2, <1>3

\* Every step keeps the invariant.
LEMMA StartInvStep == StartInv /\ [StartNext]_<<startvars, vars>> => StartInv'
<1> SUFFICES ASSUME StartInv, [StartNext]_<<startvars, vars>> PROVE StartInv'
  OBVIOUS
<1>1. CASE UNCHANGED <<startvars, vars>>
  BY <1>1 DEF StartInv, SockOK, HeapOK, Blank, Deaf, DeafSel, Up, IInv, QInv, NetOK, RolesOK,
              ArmedOK, DescOK, SlotFds, startvars, vars, daemon, net
<1>2. CASE StartNext
  BY <1>2, StartStepInv, StartClientInv, StartWorkInv DEF StartNext
<1> QED
  BY <1>1, <1>2

\* However the start-up goes, the loop it starts is the loop of EventLoop, or
\* one nobody can reach; in both the pool is there, and main() frees it.
THEOREM StartInvariant == StartSpec => []StartInv
BY StartInitInv, StartInvStep, PTL DEF StartSpec

\* Nothing that is blank, and nothing of a loop nobody can reach, is of another
\* type than in the loop.
LEMMA IdleTypes ==
  ASSUME Blank \/ Deaf
  PROVE  TypeOK
<1>1. /\ Listener \in Conns /\ 0 \in 0 .. MaxBacklog /\ 0 \in 0 .. MaxUnread
      /\ <<>> \in Seq(Events) /\ <<>> \in Seq({Read(Listener)})
  BY LoopAssumption, EmptySeq
<1>2. fd = [c \in Conns |-> NoFd] /\ fd \in FdMap /\ \A c \in Conns : fd[c] = NoFd
  BY DEF Blank, Deaf, FdMap
<1>3. SelectType(sel)
  BY <1>2, InitOK DEF Blank, Deaf, DeafSel, BackendOK
<1>4. /\ slot \in [Conns -> Roles] /\ pools \in [Conns -> 0 .. 2]
      /\ accepts = <<>> /\ posted = <<>> /\ lost = {}
  BY DEF Blank, Deaf, Roles
<1>5. ready \in [Conns -> BOOLEAN]
  BY DEF Blank, Deaf
<1>6. crashed \in BOOLEAN
  BY DEF Blank, Deaf
<1>7. /\ backlog \in 0 .. MaxBacklog
      /\ peer \in [Fds -> {"none", "open", "shut", "reset"}]
      /\ unread \in [Fds -> 0 .. MaxUnread]
  BY <1>1 DEF Blank, Deaf
<1>8. fd \in [Conns -> Fds \cup {NoFd}]
  BY <1>2 DEF FdMap
<1> QED
  BY <1>1, <1>3, <1>4, <1>5, <1>6, <1>7, <1>8 DEF TypeOK

\* Every variable keeps its type, from the first call of main() on.
THEOREM StartTypesAlwaysOK == StartSpec => []StartTypeOK
<1>1. StartInv => StartTypeOK
  <2> SUFFICES ASSUME StartInv PROVE StartTypeOK
    OBVIOUS
  <2>1. TypeOK
    BY IdleTypes, LoopTypes DEF StartInv, Up
  <2>2. lsfd \in {NoFd, ListenFd}
    BY DEF StartInv, SockOK
  <2> QED
    BY <2>1, <2>2 DEF StartInv, SockOK, HeapOK, StartTypeOK
<1> QED
  BY <1>1, StartInvariant, PTL

\* A daemon whose bind() or listen() failed runs with -1 registered, and its
\* select() is asked about no descriptor at all: no handler ever runs.
THEOREM DeafAlwaysIdle == StartSpec => []DeafIsIdle
<1>1. StartInv => DeafIsIdle
  <2> SUFFICES ASSUME StartInv, stage = "run", sock # "listening" PROVE
        accepts = <<>> /\ posted = <<>> /\ Below(Refreshed(sel, fd), sel.read_set) = {}
    BY DEF DeafIsIdle
  <2>1. Deaf
    BY DEF StartInv, SockOK
  <2>2. Refreshed(sel, fd) = sel /\ Below(sel, sel.read_set) = {}
    BY <2>1, DeafAsksNothing DEF Deaf
  <2> QED
    BY <2>1, <2>2 DEF Deaf
<1> QED
  BY <1>1, StartInvariant, PTL

-----------------------------------------------------------------------------
(***************************************************************************)
(* The refinement.  The instance Loop reads fd, sel and slot through the   *)
(* mapping; its operators on a backend state are those of this module.     *)
(***************************************************************************)
\* What is counted is counted alike.
LEMMA SameCardinality ==
  ASSUME NEW S
  PROVE  Loop!Cardinality(S) = Cardinality(S)
BY DEF Cardinality, Loop!Cardinality

\* The instance has the same events, places and marks.
LEMMA SamePlaces ==
  /\ Loop!NoFd = NoFd /\ Loop!INVALID = INVALID
  /\ Loop!Events = Events /\ Loop!Places = Places
<1>1. Loop!Places = Places
  BY SameCardinality DEF Places, Loop!Places, Capacity, Loop!Capacity
<1> QED
  BY <1>1 DEF NoFd, Loop!NoFd, INVALID, Loop!INVALID, Events, Loop!Events

\* It reads an event the same way.
LEMMA SameEvents ==
  ASSUME NEW s, NEW e, NEW c
  PROVE  /\ Loop!Read(c) = Read(c) /\ Loop!Write(c) = Write(c)
         /\ Loop!Data(e) = Data(e) /\ (Loop!IsWrite(e) <=> IsWrite(e))
         /\ (Loop!Registered(s, e) <=> Registered(s, e))
BY DEF Read, Loop!Read, Write, Loop!Write, Data, Loop!Data, IsWrite, Loop!IsWrite,
       Registered, Loop!Registered, INVALID, Loop!INVALID

\* It adds an event as this module does.
LEMMA SameAdd ==
  ASSUME NEW s, NEW e, NEW f
  PROVE  Loop!AddEvent(s, e, f) = AddEvent(s, e, f)
BY DEF AddEvent, Loop!AddEvent, Registered, Loop!Registered, INVALID, Loop!INVALID,
       IsWrite, Loop!IsWrite, NoFd, Loop!NoFd

\* And resets those of a slot.
LEMMA SameReset ==
  ASSUME NEW s, NEW c
  PROVE  Loop!ResetEvents(s, c) = ResetEvents(s, c)
BY DEF ResetEvents, Loop!ResetEvents, Events, Loop!Events, Data, Loop!Data, INVALID, Loop!INVALID

\* And starts from the same backend.
LEMMA SameInit == Loop!SelectInit = SelectInit
BY SamePlaces DEF SelectInit, Loop!SelectInit

\* And deletes an event.
LEMMA SameDel ==
  ASSUME NEW s, NEW e, NEW f
  PROVE  /\ Loop!DelEvent(s, e, f) = DelEvent(s, e, f)
         /\ Loop!DelIfActive(s, e, f) = DelIfActive(s, e, f)
<1>1. Loop!DelEvent(s, e, f) = DelEvent(s, e, f)
  BY DEF DelEvent, Loop!DelEvent, Registered, Loop!Registered, INVALID, Loop!INVALID,
         IsWrite, Loop!IsWrite, NoFd, Loop!NoFd
<1> QED
  BY <1>1 DEF DelIfActive, Loop!DelIfActive

\* And those of a connection that is closed.
LEMMA SameClose ==
  ASSUME NEW s, NEW c, NEW f
  PROVE  Loop!DelConnection(s, c, f) = DelConnection(s, c, f)
BY SameDel, SameEvents DEF DelConnection, Loop!DelConnection

\* It computes the same maximum when that is not known.
LEMMA SameRefreshed ==
  ASSUME NEW s, NEW gd
  PROVE  Loop!Refreshed(s, gd) = Refreshed(s, gd)
<1>1. Loop!MaxFd(s, gd) = MaxFd(s, gd)
  BY DEF MaxFd, Loop!MaxFd, Data, Loop!Data, NoFd, Loop!NoFd
<1> QED
  BY <1>1 DEF Refreshed, Loop!Refreshed, NoFd, Loop!NoFd

\* It asks select() about the same descriptors and repairs the same sets.
LEMMA SameBelow ==
  ASSUME NEW s, NEW fds, NEW open
  PROVE  /\ Loop!Below(s, fds) = Below(s, fds)
         /\ Loop!AsksForClosed(s, open) <=> AsksForClosed(s, open)
         /\ Loop!Repaired(s, open) = Repaired(s, open)
<1>1. \A g : Loop!Below(s, g) = Below(s, g)
  BY DEF Below, Loop!Below
<1>2. Loop!Repaired(s, open) = Repaired(s, open)
  BY DEF Repaired, Loop!Repaired, NoFd, Loop!NoFd
<1> QED
  BY <1>1, <1>2 DEF AsksForClosed, Loop!AsksForClosed

\* It finds the same events behind what select() reports.
LEMMA SameFound ==
  ASSUME NEW s, NEW gd, NEW r, NEW w, NEW open
  PROVE  /\ Loop!Found(s, gd, r, w) = Found(s, gd, r, w)
         /\ Loop!Scanned(s, gd, r, w, open) = Scanned(s, gd, r, w, open)
<1>1. Loop!Found(s, gd, r, w) = Found(s, gd, r, w)
  BY DEF Found, Loop!Found, Data, Loop!Data, IsWrite, Loop!IsWrite
<1> QED
  BY <1>1, SameCardinality, SameBelow DEF Scanned, Loop!Scanned

\* And posts them in the same order.
LEMMA SameScan ==
  ASSUME NEW s, NEW es
  PROVE  Loop!Scan(s, es) = Scan(s, es)
<1>1. Loop!Cardinality(es) = Cardinality(es)
  BY SameCardinality
<1> QED
  BY <1>1 DEF Scan, Loop!Scan, InOrder, Loop!InOrder

\* It arms an event, and hands it to the next handler, alike.
LEMMA SameHandle ==
  ASSUME NEW s, NEW c, NEW f, NEW b, NEW role
  PROVE  /\ Loop!HandleReadEvent(s, c, f, b) = HandleReadEvent(s, c, f, b)
         /\ Loop!After(role) = After(role)
<1>1. Loop!After(role) = After(role)
  BY DEF After, Loop!After
<1> QED
  BY <1>1, SameAdd, SameEvents DEF HandleReadEvent, Loop!HandleReadEvent

\* So are those on the lists, the pools, the kernel and the clients, which the
\* mapping leaves alone.
LEMMA SameNet ==
  ASSUME NEW f, NEW c
  PROVE  /\ Loop!OpenFds = OpenFds
         /\ Loop!Idle <=> Idle
         /\ Loop!Readable(f) <=> Readable(f)
         /\ Loop!NewFd(f) <=> NewFd(f)
         /\ Loop!AcceptRun <=> AcceptRun
         /\ Loop!Accepted(f) <=> Accepted(f)
         /\ Loop!EventFirst(c) <=> EventFirst(c)
         /\ Loop!EventRun(c) <=> EventRun(c)
         /\ Loop!Reading = Reading
<1>1. Loop!OpenFds = OpenFds
  BY DEF OpenFds, Loop!OpenFds
<1>2. Loop!NewFd(f) <=> NewFd(f)
  BY <1>1 DEF NewFd, Loop!NewFd
<1>3. Loop!AcceptRun <=> AcceptRun
  BY DEF AcceptRun, Loop!AcceptRun
<1>4. Loop!Accepted(f) <=> Accepted(f)
  BY <1>2, <1>3 DEF Accepted, Loop!Accepted
<1>5. Loop!EventFirst(c) <=> EventFirst(c)
  BY DEF EventFirst, Loop!EventFirst, Read, Loop!Read
<1>6. Loop!EventRun(c) <=> EventRun(c)
  BY <1>5 DEF EventRun, Loop!EventRun
<1>7. (Loop!Idle <=> Idle) /\ (Loop!Readable(f) <=> Readable(f)) /\ Loop!Reading = Reading
  BY DEF Idle, Loop!Idle, Readable, Loop!Readable, Reading, Loop!Reading
<1> QED
  BY <1>1, <1>2, <1>3, <1>4, <1>5, <1>6, <1>7

\* In a daemon that is up the mapping is the identity.
LEMMA SameUp ==
  ASSUME Up, Up'
  PROVE  /\ loopFd = fd /\ loopSel = sel /\ loopSlot = slot
         /\ loopFd' = fd' /\ loopSel' = sel' /\ loopSlot' = slot'
BY DEF loopFd, loopSel, loopSlot

\* What a client does, it does to the loop.
LEMMA ClientMaps ==
  ASSUME Client, UNCHANGED <<loopFd, loopSel, loopSlot>>
  PROVE  Loop!Client
<1>1. UNCHANGED daemon => UNCHANGED Loop!daemon
  BY DEF daemon, Loop!daemon
<1>2. CASE ClientConnect \/ ClientAbort
  BY <1>1, <1>2 DEF ClientConnect, Loop!ClientConnect, ClientAbort, Loop!ClientAbort, Loop!Client
<1>3. ASSUME NEW f \in Fds, ClientSend(f) \/ ClientShut(f) \/ ClientReset(f)
      PROVE  Loop!ClientSend(f) \/ Loop!ClientShut(f) \/ Loop!ClientReset(f)
  BY <1>1, <1>3 DEF ClientSend, Loop!ClientSend, ClientShut, Loop!ClientShut,
                    ClientReset, Loop!ClientReset
<1> QED
  BY <1>2, <1>3 DEF Client, Loop!Client

\* An interrupted select() is one of the loop.
LEMMA InterruptedMaps ==
  ASSUME Up, Up', ProcessInterrupted
  PROVE  Loop!ProcessInterrupted
BY SameUp, SameRefreshed, SameNet DEF ProcessInterrupted, Loop!ProcessInterrupted, net, Loop!net

\* Each way the accept handler ends is one of the loop.
LEMMA AcceptMaps ==
  ASSUME Up, Up', NEW c, NEW f
  PROVE  /\ AcceptFails => Loop!AcceptFails
         /\ AcceptNoSlot(f) => Loop!AcceptNoSlot(f)
         /\ AcceptSlot(c, f) => Loop!AcceptSlot(c, f)
<1> DEFINE s == ResetEvents(sel, c)
<1>1. /\ loopFd = fd /\ loopSel = sel /\ loopSlot = slot
      /\ loopFd' = fd' /\ loopSel' = sel' /\ loopSlot' = slot'
  BY SameUp
<1>2. (Loop!Accepted(f) <=> Accepted(f)) /\ (Loop!AcceptRun <=> AcceptRun) /\ Loop!OpenFds = OpenFds
  BY SameNet
<1>3. /\ Loop!ResetEvents(sel, c) = ResetEvents(sel, c)
      /\ Loop!HandleReadEvent(s, c, f, FALSE) = HandleReadEvent(s, c, f, FALSE)
  BY SameReset, SameHandle
<1>4. \A n : TakeSlot(c, f, n) => Loop!TakeSlot(c, f, n)
  BY <1>1 DEF TakeSlot, Loop!TakeSlot
<1>5. AcceptFails => Loop!AcceptFails
  BY <1>1, <1>2 DEF AcceptFails, Loop!AcceptFails, net, Loop!net
<1>6. AcceptNoSlot(f) => Loop!AcceptNoSlot(f)
  BY <1>1, <1>2 DEF AcceptNoSlot, Loop!AcceptNoSlot
<1>7. AcceptNoPool(c, f) => Loop!AcceptNoPool(c, f)
  BY <1>1, <1>2, <1>3, <1>4 DEF AcceptNoPool, Loop!AcceptNoPool
<1>8. AcceptCrashes(c, f) => Loop!AcceptCrashes(c, f)
  BY <1>1, <1>2, <1>3, <1>4 DEF AcceptCrashes, Loop!AcceptCrashes
<1>9. AcceptOk(c, f) => Loop!AcceptOk(c, f)
  BY <1>1, <1>2, <1>3, <1>4 DEF AcceptOk, Loop!AcceptOk
<1> QED
  BY <1>5, <1>6, <1>7, <1>8, <1>9 DEF AcceptSlot, Loop!AcceptSlot

\* Each way a connection's handler ends is one of the loop.
LEMMA HandlerMaps ==
  ASSUME Up, Up', NEW c, Handler(c)
  PROVE  Loop!Handler(c)
<1>1. /\ loopFd = fd /\ loopSel = sel /\ loopSlot = slot
      /\ loopFd' = fd' /\ loopSel' = sel' /\ loopSlot' = slot'
  BY SameUp
<1>2. /\ Loop!EventRun(c) <=> EventRun(c)
      /\ Loop!EventFirst(c) <=> EventFirst(c)
      /\ Loop!Reading = Reading
  BY SameNet
<1>3. /\ Loop!HandleReadEvent(sel, c, fd[c], FALSE) = HandleReadEvent(sel, c, fd[c], FALSE)
      /\ Loop!After(slot[c]) = After(slot[c])
      /\ Loop!DelIfActive(sel, Read(c), fd[c]) = DelIfActive(sel, Read(c), fd[c])
      /\ Loop!DelConnection(sel, c, fd[c]) = DelConnection(sel, c, fd[c])
      /\ Loop!Read(c) = Read(c)
  BY SameHandle, SameDel, SameClose, SameEvents
<1>4. CloseConnection(c) => Loop!CloseConnection(c)
  BY <1>1, <1>3 DEF CloseConnection, Loop!CloseConnection, NoFd, Loop!NoFd
<1>5. ReadAgain(c) => Loop!ReadAgain(c)
  BY <1>1, <1>2, <1>3 DEF ReadAgain, Loop!ReadAgain
<1>6. ReadEnds(c) => Loop!ReadEnds(c)
  BY <1>1, <1>2, <1>4 DEF ReadEnds, Loop!ReadEnds
<1>7. ReadCloses(c) => Loop!ReadCloses(c)
  BY <1>1, <1>2, <1>4 DEF ReadCloses, Loop!ReadCloses
<1>8. ReadSome(c) => Loop!ReadSome(c)
  BY <1>1, <1>2, <1>3 DEF ReadSome, Loop!ReadSome
<1>9. ReadCrashes(c) => Loop!ReadCrashes(c)
  BY <1>1, <1>2 DEF ReadCrashes, Loop!ReadCrashes, LengthMayWrap, Loop!LengthMayWrap, net, Loop!net
<1>10. BlockReading(c) => Loop!BlockReading(c)
  BY <1>1, <1>2, <1>3 DEF BlockReading, Loop!BlockReading
<1> QED
  BY <1>5, <1>6, <1>7, <1>8, <1>9, <1>10 DEF Handler, Loop!Handler

\* A round of select() reports and posts the same.
LEMMA SelectMaps ==
  ASSUME Up, Up', ProcessEvents
  PROVE  Loop!ProcessEvents
<1> DEFINE s        == Refreshed(sel, fd)
           found(r) == IF AsksForClosed(s, OpenFds) THEN {} ELSE Found(s, fd, r, {})
           t        == Loop!Refreshed(loopSel, loopFd)
           hit(r)   == IF Loop!AsksForClosed(t, Loop!OpenFds) THEN {}
                       ELSE Loop!Found(t, loopFd, r, {})
<1>1. /\ loopFd = fd /\ loopSel = sel /\ UNCHANGED <<loopFd, loopSlot>>
      /\ loopSel' = sel' /\ Idle /\ UNCHANGED <<pools, lost, crashed, net>>
  BY SameUp DEF ProcessEvents
<1>2. Loop!Idle /\ Loop!OpenFds = OpenFds /\ t = s
  BY <1>1, SameNet, SameRefreshed
<1>3. PICK r \in SUBSET Below(s, s.read_set) :
        /\ r # {}
        /\ {f \in Below(s, s.read_set) : Readable(f)} \subseteq r
        /\ sel' = IF AsksForClosed(s, OpenFds) THEN Repaired(s, OpenFds)
                  ELSE Scanned(s, fd, r, {}, OpenFds)
        /\ ready' = [c \in Conns |-> ready[c] \/ Read(c) \in found(r)]
        /\ accepts' \in Scan(s, found(r) \cap {Read(Listener)})
        /\ posted' \in Scan(s, found(r) \ {Read(Listener)})
  BY DEF ProcessEvents
<1>4. /\ Loop!Below(t, t.read_set) = Below(s, s.read_set)
      /\ Loop!AsksForClosed(t, Loop!OpenFds) <=> AsksForClosed(s, OpenFds)
      /\ Loop!Repaired(t, Loop!OpenFds) = Repaired(s, OpenFds)
      /\ Loop!Scanned(t, loopFd, r, {}, Loop!OpenFds) = Scanned(s, fd, r, {}, OpenFds)
      /\ Loop!Found(t, loopFd, r, {}) = Found(s, fd, r, {})
  <2> HIDE DEF s, t
  <2> QED
    BY <1>1, <1>2, SameBelow, SameFound
<1>5. hit(r) = found(r)
  BY <1>4
<1>6. \A c : Loop!Read(c) = Read(c)
  BY SameEvents
<1> HIDE DEF s, found, t, hit
<1>7. {f \in Loop!Below(t, t.read_set) : Loop!Readable(f)} \subseteq r
  <2>1. \A f : Loop!Readable(f) <=> Readable(f)
    BY SameNet
  <2> QED
    BY <1>3, <1>4, <2>1
<1>8. ready' = [c \in Conns |-> ready[c] \/ Loop!Read(c) \in hit(r)]
  BY <1>3, <1>5 DEF Read, Loop!Read
<1>9. accepts' \in Loop!Scan(t, hit(r) \cap {Loop!Read(Listener)})
  BY <1>2, <1>3, <1>5, <1>6, SameScan
<1>10. posted' \in Loop!Scan(t, hit(r) \ {Loop!Read(Listener)})
  BY <1>2, <1>3, <1>5, <1>6, SameScan
<1>11. loopSel' = IF Loop!AsksForClosed(t, Loop!OpenFds) THEN Loop!Repaired(t, Loop!OpenFds)
                  ELSE Loop!Scanned(t, loopFd, r, {}, Loop!OpenFds)
  BY <1>1, <1>3, <1>4
<1>12. UNCHANGED <<loopFd, loopSlot, pools, lost, crashed, Loop!net>>
  BY <1>1 DEF net, Loop!net
<1>13. r \in SUBSET Loop!Below(t, t.read_set) /\ r # {}
  BY <1>3, <1>4
<1> QED
  BY <1>2, <1>7, <1>8, <1>9, <1>10, <1>11, <1>12, <1>13, Zenon DEF Loop!ProcessEvents, t, hit

\* The daemon that is up takes the steps of the loop.
LEMMA WorkMaps ==
  ASSUME Up, Up', Work
  PROVE  Loop!Work
BY SelectMaps, AcceptMaps, HandlerMaps DEF Work, Loop!Work

\* The first state is one of the loop: nothing has been seen of it yet.
LEMMA InitMaps == StartInit => Loop!Init
<1> SUFFICES ASSUME StartInit PROVE Loop!Init
  OBVIOUS
<1>1. ~Up
  BY DEF StartInit, Up
<1>2. loopSel = Loop!AddEvent(Loop!ResetEvents(Loop!SelectInit, Listener), Loop!Read(Listener), ListenFd)
  BY <1>1, SameAdd, SameReset, SameInit, SameEvents DEF loopSel
<1>3. loopFd = [c \in Conns |-> IF c = Listener THEN ListenFd ELSE Loop!NoFd]
  BY <1>1, SamePlaces DEF loopFd
<1>4. loopSlot = [c \in Conns |-> IF c = Listener THEN "listen" ELSE "free"]
  BY <1>1 DEF loopSlot
<1> QED
  BY <1>2, <1>3, <1>4 DEF StartInit, Loop!Init

\* The calls of the start-up do not move the loop; the last of them finds it
\* where the mapping says it is.
LEMMA StartMaps ==
  ASSUME StartInv, Start
  PROVE  UNCHANGED Loop!vars
<1> SUFFICES UNCHANGED <<loopFd, loopSel, loopSlot>>
               /\ UNCHANGED <<ready, pools, accepts, posted, lost, crashed, backlog, peer, unread>>
  BY DEF Loop!vars, Loop!daemon, Loop!net
<1>1. CASE ~Register
  <2>1. UNCHANGED vars /\ ~Up /\ ~Up'
    BY <1>1, CallsKept DEF Up
  <2> QED
    BY <2>1 DEF loopFd, loopSel, loopSlot, vars, daemon, net
<1>2. CASE Register
  <2>1. UNCHANGED <<ready, pools, accepts, posted, lost, crashed, backlog, peer, unread>> /\ ~Up
    BY <1>2 DEF Register, net, Up
  <2>2. UNCHANGED lsfd
    BY <1>2 DEF Register
  <2>3. CASE lsfd = NoFd
    BY <2>1, <2>2, <2>3 DEF loopFd, loopSel, loopSlot, Up
  <2>4. CASE lsfd # NoFd
    <3>1. Booted' /\ Up'
      BY <1>2, <2>2, <2>4, RegisterBoots DEF Register, Up
    <3> QED
      BY <2>1, <3>1 DEF loopFd, loopSel, loopSlot, Booted
  <2> QED
    BY <2>1, <2>3, <2>4
<1> QED
  BY <1>1, <1>2

\* Every step is a step of the loop or moves nothing of it.
LEMMA StepMaps == StartInv /\ [StartNext]_<<startvars, vars>> => [Loop!Next]_(Loop!vars)
<1> SUFFICES ASSUME StartInv, [StartNext]_<<startvars, vars>>
             PROVE  Loop!Next \/ UNCHANGED Loop!vars
  OBVIOUS
<1>1. ASSUME UNCHANGED <<startvars, vars>> PROVE UNCHANGED Loop!vars
  BY <1>1 DEF loopFd, loopSel, loopSlot, Up, startvars, vars, daemon, net,
              Loop!vars, Loop!daemon, Loop!net
<1>2. CASE Start
  BY <1>2, StartMaps
<1>3. CASE StartClient /\ UNCHANGED startvars
  <2>1. Client /\ UNCHANGED <<sel, fd, slot, stage, lsfd>>
    BY <1>3 DEF StartClient, startvars, Client, ClientConnect, ClientAbort, ClientSend, ClientShut,
                ClientReset, daemon
  <2>2. UNCHANGED <<loopFd, loopSel, loopSlot>>
    BY <2>1 DEF loopFd, loopSel, loopSlot, Up
  <2> QED
    BY <2>1, <2>2, ClientMaps DEF Loop!Next
<1>4. CASE stage = "run" /\ (Work \/ ProcessInterrupted) /\ UNCHANGED startvars
  <2>1. CASE lsfd = NoFd
    <3>1. UNCHANGED vars
      BY <1>4, <2>1, DeafSleeps DEF StartInv
    <3> QED
      BY <1>1, <1>4, <3>1
  <2>2. CASE lsfd # NoFd
    <3>1. Up /\ Up'
      BY <1>4, <2>2 DEF Up, startvars
    <3> QED
      BY <1>4, <3>1, WorkMaps, InterruptedMaps DEF Loop!Next
  <2> QED
    BY <2>1, <2>2
<1> QED
  BY <1>1, <1>2, <1>3, <1>4 DEF StartNext

\* Whatever fails during the start-up, what anyone can see of the daemon is the
\* loop of EventLoop, from its first state on.
THEOREM StartupIsLoop == StartSpec => ImplementsLoop
BY InitMaps, StepMaps, StartInvariant, PTL DEF StartSpec, ImplementsLoop, Loop!Spec

-----------------------------------------------------------------------------
(***************************************************************************)
(* What EventLoop promises from its own first state holds of the program   *)
(* from the first call of main() on.                                       *)
(***************************************************************************)
\* A daemon that is up, however it came up and whoever connected meanwhile, has
\* a consistent backend, forgets no connection, keeps its free slots quiet and
\* its pools whole, and runs no handler on a free slot.
THEOREM UpIsSound ==
  StartSpec => [](Up => /\ BackendConsistent /\ ServedAreArmed /\ FreeIsQuiet
                        /\ ServedHavePools /\ PostedAreLive)
<1>1. StartInv => (Up => /\ BackendConsistent /\ ServedAreArmed /\ FreeIsQuiet
                         /\ ServedHavePools /\ PostedAreLive)
  BY ConnectionsSound, PostedLive DEF StartInv
<1> QED
  BY <1>1, StartInvariant, PTL

\* Until the daemon is up nobody has been accepted and nothing was posted.
LEMMA NotUp ==
  ASSUME StartInv, ~Up
  PROVE  peer = [f \in Fds |-> "none"] /\ lost = {} /\ Posted = {}
<1>1. peer = [f \in Fds |-> "none"] /\ lost = {} /\ posted = <<>>
  BY DEF StartInv, Blank, Deaf, Up
<1> QED
  BY <1>1 DEF Posted

\* Once the daemon is up, whatever happens is a step of the loop.
LEMMA UpStep ==
  ASSUME Up, [StartNext]_<<startvars, vars>>
  PROVE  [Next]_vars
<1>1. CASE UNCHANGED <<startvars, vars>>
  BY <1>1
<1>2. CASE Start
  BY <1>2 DEF Up, Start, CreatePool, AllocXdbd, CreateListening, OpenSocket, Nonblocking, Bind,
              Listen, InitBackend, InitTables, Register, RegisterAborts, Goes, GivesUp, GoesDeaf
<1>3. CASE StartClient
  BY <1>3 DEF StartClient, Next
<1> QED
  BY <1>1, <1>2, <1>3 DEF StartNext, Next

\* The descriptors of the program stay as low as those of the loop.
THEOREM StartDescriptorsLow == StartSpec => []DescriptorsStayLow
<1>1. StartInv /\ ~Up => DescriptorsStayLow
  BY NotUp, NobodyIsLow
<1>2. StartInit => ~Up
  BY DEF StartInit, Up
<1>3. StartInv /\ DescriptorsStayLow /\ [StartNext]_<<startvars, vars>> /\ Up => DescriptorsStayLow'
  BY UpStep, LowStep DEF StartInv
<1>4. StartInv /\ DescriptorsStayLow /\ [StartNext]_<<startvars, vars>> /\ ~Up
        => DescriptorsStayLow'
  <2> SUFFICES ASSUME StartInv, DescriptorsStayLow, [StartNext]_<<startvars, vars>>, ~Up
               PROVE  UNCHANGED <<peer, lost>>
    BY DEF DescriptorsStayLow, OpenFds
  <2>1. CASE UNCHANGED <<startvars, vars>>
    BY <2>1 DEF vars, daemon, net
  <2>2. CASE Start
    BY <2>2, CallsKept DEF Register, vars, daemon, net
  <2>3. CASE StartClient
    BY <2>3, NotUp, OnlyWaiting DEF StartClient, daemon
  <2>4. CASE stage = "run" /\ (Work \/ ProcessInterrupted)
    BY <2>4, DeafSleeps DEF StartInv, Up, vars, daemon, net
  <2> QED
    BY <2>1, <2>2, <2>3, <2>4 DEF StartNext
<1> QED
  BY <1>1, <1>2, <1>3, <1>4, StartInvariant, PTL DEF StartSpec

\* Nor does a report of select() ever reach another connection.
THEOREM StartKeepsFd == StartSpec => ReportedKeepFd
<1>1. StartInv /\ [StartNext]_<<startvars, vars>>
        => [\A e \in Posted : e \in {posted'[i] : i \in 1 .. Len(posted')}
              => fd'[Data(e)] = fd[Data(e)]]_vars
  <2> SUFFICES ASSUME StartInv, [StartNext]_<<startvars, vars>>, NEW e \in Posted,
                      e \in {posted'[i] : i \in 1 .. Len(posted')}
               PROVE  fd'[Data(e)] = fd[Data(e)]
    OBVIOUS
  <2>1. Up
    BY NotUp
  <2> QED
    BY <2>1, UpStep, KeepFdStep DEF StartInv
<1> QED
  BY <1>1, StartInvariant, PTL DEF StartSpec, ReportedKeepFd
=============================================================================
