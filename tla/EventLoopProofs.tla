--------------------------- MODULE EventLoopProofs ---------------------------
(***************************************************************************)
(* What the daemon keeps true, for any number of slots and descriptors and *)
(* whatever calls fail: of its slots and of the select backend in the      *)
(* first part, of the list of posted events and of the descriptors it      *)
(* opens in the second.  The events in the list are those of connections   *)
(* that are still served, each once, and a descriptor is only ever lost to *)
(* a client there was no slot for.                                         *)
(***************************************************************************)
EXTENDS EventLoop, SelectTheorems, SequenceTheorems

Served == Reading \cup {"block"}
Armed  == Reading \cup {"listen"}

\* The role of a slot says whether it has a descriptor and how many pools.
RolesOK ==
  \A c \in Conns :
    /\ slot[c] = "free" <=> fd[c] = NoFd
    /\ slot[c] = "free" => pools[c] = 0
    /\ slot[c] \in Served => pools[c] = 2

ArmedOK ==
  \A c \in Conns : /\ slot[c] \in Armed => Registered(sel, Read(c))
                   /\ slot[c] = "limbo" => ~Registered(sel, Read(c))

\* The open descriptors are those of the slots and the ones that were lost.
DescOK ==
  /\ peer \in [Fds -> {"none", "open", "shut", "reset"}]
  /\ lost \subseteq Fds /\ lost \cap SlotFds = {}
  /\ fd[Listener] = ListenFd /\ peer[ListenFd] = "none"
  /\ \A c \in Conns : slot[c] = "listen" <=> c = Listener
  /\ \A f \in Fds \ {ListenFd} : peer[f] # "none" <=> f \in lost \cup SlotFds

\* The inductive invariant.  That a slot which is read stays registered needs
\* the backend to be consistent, and the backend stays so because a slot that
\* is read has a descriptor.
IInv ==
  /\ fd \in FdMap
  /\ slot \in [Conns -> Roles]
  /\ pools \in [Conns -> 0 .. 2]
  /\ DistinctOpen(fd)
  /\ BackendOK(sel, fd)
  /\ RolesOK
  /\ ArmedOK
  /\ DescOK

-----------------------------------------------------------------------------
\* Nothing but the event itself changes its registration when it is added.
LEMMA AddRegisters ==
  ASSUME NEW s, SelectType(s), NEW e \in Events, NEW f
  PROVE  \A g \in Events : Registered(AddEvent(s, e, f), g) <=> Registered(s, g) \/ g = e
<1>1. s.nevents # INVALID
  BY EventsCount DEF SelectType, INVALID
<1>2. s.index \in [Events -> Places \cup {INVALID}]
  BY DEF SelectType
<1>3. CASE ~Registered(s, e)
  <2>1. AddEvent(s, e, f).index = [s.index EXCEPT ![e] = s.nevents]
    BY <1>3 DEF AddEvent, SelectType
  <2> QED
    BY <1>1, <1>2, <2>1 DEF Registered
<1> QED
  BY <1>3 DEF AddEvent

\* Taking an idle slot leaves its events unregistered and inactive, and the
\* other events as they are.
LEMMA ResetRegisters ==
  ASSUME NEW s, SelectType(s), NEW c \in Conns
  PROVE  LET t == ResetEvents(s, c)
         IN  /\ \A g \in Events : Registered(t, g) <=> Registered(s, g) /\ Data(g) # c
             /\ ~t.active[Read(c)]
<1> DEFINE t == ResetEvents(s, c)
<1>1. /\ t.index  = [e \in Events |-> IF Data(e) = c THEN INVALID ELSE s.index[e]]
      /\ t.active = [e \in Events |-> IF Data(e) = c THEN FALSE   ELSE s.active[e]]
  BY DEF ResetEvents, SelectType
<1> HIDE DEF t
<1>2. ~t.active[Read(c)]
  BY <1>1, EventFacts
<1>3. \A g \in Events : Registered(t, g) <=> Registered(s, g) /\ Data(g) # c
  BY <1>1 DEF Registered
<1> QED
  BY <1>2, <1>3 DEF t

\* The steps around select() register nothing and delete nothing.
LEMMA ScanRegisters ==
  ASSUME NEW s, SelectType(s), NEW gd, NEW r, NEW w, NEW open
  PROVE  /\ Refreshed(s, gd).index = s.index
         /\ Repaired(s, open).index = s.index
         /\ Scanned(s, gd, r, w, open).index = s.index
BY DEF Refreshed, Repaired, Scanned, SelectType

-----------------------------------------------------------------------------
\* The state main() hands to the loop.  Clients may be waiting already.
Booted ==
  /\ fd = [c \in Conns |-> IF c = Listener THEN ListenFd ELSE NoFd]
  /\ sel = AddEvent(ResetEvents(SelectInit, Listener), Read(Listener), ListenFd)
  /\ slot = [c \in Conns |-> IF c = Listener THEN "listen" ELSE "free"]
  /\ ready = [c \in Conns |-> FALSE]
  /\ pools = [c \in Conns |-> 0]
  /\ accepts = <<>> /\ posted = <<>>
  /\ lost = {} /\ crashed = FALSE
  /\ backlog \in 0 .. MaxBacklog
  /\ peer = [f \in Fds |-> "none"]
  /\ unread = [f \in Fds |-> 0]

\* The loop starts with the listener registered and every slot free.
LEMMA BootedInv == Booted => IInv
<1> SUFFICES ASSUME Booted PROVE IInv
  OBVIOUS
<1> DEFINE nofd == [c \in Conns |-> NoFd]
           s    == ResetEvents(SelectInit, Listener)
<1>1. /\ Listener \in Conns /\ ListenFd \in Fds
      /\ NoFd \notin Fds
      /\ Read(Listener) \in Events /\ Data(Read(Listener)) = Listener
  BY LoopAssumption, FdFacts, EventFacts
<1>2. fd \in FdMap /\ fd[Listener] = ListenFd /\ fd = [nofd EXCEPT ![Listener] = ListenFd]
  BY <1>1 DEF Booted, FdMap
<1>3. DistinctOpen(fd)
  BY DEF Booted, DistinctOpen
<1>4. nofd \in FdMap /\ nofd[Listener] = NoFd
  BY <1>1 DEF FdMap
<1>5. BackendOK(SelectInit, nofd)
  BY <1>4, InitOK
<1> HIDE DEF nofd
<1>6. BackendOK(s, fd)
  <2>1. BackendOK(s, [nofd EXCEPT ![Listener] = ListenFd])
    BY <1>1, <1>4, <1>5, ResetOK
  <2> HIDE DEF s
  <2> QED
    BY <1>2, <2>1
<1>7. sel = AddEvent(s, Read(Listener), fd[Data(Read(Listener))])
  BY <1>1, <1>2 DEF Booted
<1> HIDE DEF s
<1>8. BackendOK(sel, fd)
  BY <1>1, <1>2, <1>6, <1>7, AddOK
<1>9. Registered(sel, Read(Listener))
  BY <1>1, <1>6, <1>7, AddRegisters DEF BackendOK
<1>10. slot \in [Conns -> Roles] /\ pools \in [Conns -> 0 .. 2]
  BY DEF Booted, Roles
<1>11. RolesOK
  BY <1>1 DEF Booted, RolesOK, Served, Reading
<1>12. ArmedOK
  BY <1>9 DEF Booted, ArmedOK, Armed, Reading
<1>13. DescOK
  <2>1. SlotFds = {ListenFd}
    BY <1>1 DEF Booted, SlotFds
  <2> QED
    BY <1>1, <2>1 DEF Booted, DescOK
<1> QED
  BY <1>2, <1>3, <1>8, <1>10, <1>11, <1>12, <1>13 DEF IInv

\* Without any it is the initial state of the loop.
LEMMA InitBooted == Init => Booted
<1>1. 0 \in 0 .. MaxBacklog
  BY LoopAssumption
<1> QED
  BY <1>1 DEF Init, Booted

-----------------------------------------------------------------------------
\* What the invariant asks of a step that changes the backend only, and adds
\* registrations at most.
LEMMA SelOnly ==
  ASSUME IInv, UNCHANGED <<fd, slot, pools, peer, lost>>, BackendOK(sel', fd),
         \A c \in Conns : /\ slot[c] \in Armed /\ Registered(sel, Read(c))
                               => Registered(sel', Read(c))
                          /\ slot[c] = "limbo" /\ Registered(sel', Read(c))
                               => Registered(sel, Read(c))
  PROVE  IInv'
BY DEF IInv, RolesOK, ArmedOK, DescOK, SlotFds

\* The descriptor of a slot is open.
LEMMA HeldAreOpen ==
  ASSUME IInv, NEW c \in Conns, fd[c] # NoFd
  PROVE  fd[c] \in OpenFds /\ fd[c] \in Fds /\ fd[c] \in SlotFds
<1>1. fd[c] \in Fds /\ fd[c] \in SlotFds
  BY DEF IInv, FdMap, SlotFds
<1> QED
  BY <1>1 DEF IInv, DescOK, OpenFds

\* A round of select() registers and frees nothing.
LEMMA SelectInv ==
  ASSUME IInv, ProcessEvents \/ ProcessInterrupted
  PROVE  IInv'
<1> DEFINE s == Refreshed(sel, fd)
<1>1. fd \in FdMap /\ BackendOK(sel, fd) /\ SelectType(sel)
  BY DEF IInv, BackendOK
<1>2. BackendOK(s, fd) /\ SelectType(s) /\ s.index = sel.index
  BY <1>1, RefreshedOK, ScanRegisters DEF BackendOK
<1>3. \A c \in Conns : fd[c] # NoFd => fd[c] \in OpenFds
  BY HeldAreOpen
<1>4. UNCHANGED <<fd, slot, pools, peer, lost>>
  BY DEF ProcessEvents, ProcessInterrupted, net
<1>5. BackendOK(sel', fd) /\ sel'.index = sel.index
  <2>1. CASE ProcessInterrupted
    BY <2>1, <1>2 DEF ProcessInterrupted
  <2>2. CASE ProcessEvents
    <3>1. PICK r : sel' = IF AsksForClosed(s, OpenFds) THEN Repaired(s, OpenFds)
                          ELSE Scanned(s, fd, r, {}, OpenFds)
      BY <2>2 DEF ProcessEvents
    <3> HIDE DEF s
    <3>2. /\ BackendOK(Repaired(s, OpenFds), fd)
          /\ BackendOK(Scanned(s, fd, r, {}, OpenFds), fd)
      BY <1>1, <1>2, <1>3, RepairedOK, ScannedOK
    <3>3. /\ Repaired(s, OpenFds).index = s.index
          /\ Scanned(s, fd, r, {}, OpenFds).index = s.index
      BY <1>2, ScanRegisters
    <3> QED
      BY <1>2, <3>1, <3>2, <3>3
  <2> QED
    BY <2>1, <2>2
<1> QED
  BY <1>4, <1>5, SelOnly DEF Registered

\* A slot is taken for a fresh descriptor.
LEMMA TakeInv ==
  ASSUME IInv, NEW c \in Conns, NEW f \in Fds, NEW n \in 0 .. 2,
         Accepted(f), TakeSlot(c, f, n)
  PROVE  /\ fd' = [fd EXCEPT ![c] = f] /\ fd' \in FdMap /\ DistinctOpen(fd')
         /\ BackendOK(ResetEvents(sel, c), fd')
         /\ \A d \in Conns : d # c /\ Registered(sel, Read(d))
                               => Registered(ResetEvents(sel, c), Read(d))
         /\ ~ResetEvents(sel, c).active[Read(c)]
         /\ ~Registered(ResetEvents(sel, c), Read(c))
         /\ \A d \in Conns : Registered(ResetEvents(sel, c), Read(d))
                               => Registered(sel, Read(d))
<1>1. fd' = [fd EXCEPT ![c] = f] /\ fd[c] = NoFd
  BY DEF TakeSlot, IInv, RolesOK
<1>2. fd \in FdMap /\ DistinctOpen(fd) /\ BackendOK(sel, fd) /\ SelectType(sel)
  BY DEF IInv, BackendOK
<1>3. fd' \in FdMap
  BY <1>1, <1>2 DEF FdMap
<1>4. \A d \in Conns : fd[d] # f
  BY FdFacts, HeldAreOpen DEF Accepted, NewFd
<1>5. DistinctOpen(fd')
  BY <1>1, <1>2, <1>4 DEF DistinctOpen, FdMap
<1>6. BackendOK(ResetEvents(sel, c), fd')
  BY <1>1, <1>2, ResetOK
<1> QED
  BY <1>1, <1>2, <1>3, <1>5, <1>6, ResetRegisters, EventFacts

\* The descriptor of a slot that is taken was not open before.
LEMMA DescTake ==
  ASSUME IInv, NEW c \in Conns, NEW f \in Fds, NEW n, Accepted(f), TakeSlot(c, f, n),
         NEW role, role # "listen", slot' = [slot EXCEPT ![c] = role]
  PROVE  DescOK'
<1>1. /\ fd' = [fd EXCEPT ![c] = f] /\ lost' = lost /\ peer' = [peer EXCEPT ![f] = "open"]
      /\ f \notin OpenFds /\ slot[c] = "free"
  BY DEF TakeSlot, Accepted, NewFd
<1>2. DescOK /\ fd \in FdMap /\ slot \in [Conns -> Roles] /\ fd[c] = NoFd
  BY <1>1 DEF IInv, RolesOK
<1>3. f # ListenFd /\ f # NoFd /\ peer[f] = "none" /\ c # Listener
  BY <1>1, <1>2, FdFacts DEF OpenFds, DescOK
<1>4. SlotFds' = SlotFds \cup {f}
  BY <1>1, <1>2, <1>3 DEF FdMap, SlotFds
<1>5. f \notin lost
  BY <1>2, <1>3 DEF DescOK
<1> QED
  BY <1>1, <1>2, <1>3, <1>4, <1>5, LoopAssumption DEF DescOK, FdMap

\* An accept that gives up on its slot: it is neither free nor served.
LEMMA LimboInv ==
  ASSUME IInv, NEW c \in Conns, NEW f \in Fds, AcceptNoPool(c, f) \/ AcceptCrashes(c, f)
  PROVE  IInv'
<1>1. PICK n \in 0 .. 2 : TakeSlot(c, f, n)
  BY DEF AcceptNoPool, AcceptCrashes
<1>2. Accepted(f) /\ sel' = ResetEvents(sel, c) /\ slot' = [slot EXCEPT ![c] = "limbo"]
  BY DEF AcceptNoPool, AcceptCrashes
<1>3. pools' = [pools EXCEPT ![c] = n]
  BY <1>1 DEF TakeSlot
<1>4. /\ fd' = [fd EXCEPT ![c] = f] /\ fd' \in FdMap /\ DistinctOpen(fd')
      /\ BackendOK(sel', fd')
      /\ \A d \in Conns : d # c /\ Registered(sel, Read(d)) => Registered(sel', Read(d))
      /\ ~Registered(sel', Read(c))
      /\ \A d \in Conns : Registered(sel', Read(d)) => Registered(sel, Read(d))
  BY <1>1, <1>2, TakeInv
<1>5. slot' \in [Conns -> Roles] /\ pools' \in [Conns -> 0 .. 2]
  BY <1>2, <1>3 DEF IInv, Roles
<1>6. RolesOK'
  BY <1>2, <1>3, <1>4, FdFacts DEF IInv, FdMap, RolesOK, Served, Reading
<1>7. ArmedOK'
  BY <1>2, <1>4 DEF IInv, ArmedOK, Armed, Reading
<1>8. DescOK'
  BY <1>1, <1>2, DescTake
<1> QED
  BY <1>4, <1>5, <1>6, <1>7, <1>8 DEF IInv

\* A connection that is set up is served and armed.
LEMMA AcceptInv ==
  ASSUME IInv, NEW c \in Conns, NEW f \in Fds, AcceptOk(c, f)
  PROVE  IInv'
<1> DEFINE s == ResetEvents(sel, c)
<1>1. Accepted(f) /\ TakeSlot(c, f, 2) /\ slot' = [slot EXCEPT ![c] = "wait"]
  BY DEF AcceptOk
<1>2. pools' = [pools EXCEPT ![c] = 2]
  BY <1>1 DEF TakeSlot
<1>3. /\ fd' = [fd EXCEPT ![c] = f] /\ fd' \in FdMap /\ DistinctOpen(fd')
      /\ BackendOK(s, fd')
      /\ \A d \in Conns : d # c /\ Registered(sel, Read(d)) => Registered(s, Read(d))
      /\ \A d \in Conns : Registered(s, Read(d)) => Registered(sel, Read(d))
      /\ ~s.active[Read(c)]
  BY <1>1, TakeInv
<1>4. sel' = HandleReadEvent(s, c, f, FALSE)
  BY DEF AcceptOk
<1> HIDE DEF s
<1>5. fd'[c] = f /\ f # NoFd
  BY <1>3, FdFacts DEF IInv, FdMap
<1>6. Read(c) \in Events /\ Data(Read(c)) = c /\ \A d \in Conns : Read(d) \in Events
  BY EventFacts
<1>7. sel' = AddEvent(s, Read(c), f)
  BY <1>3, <1>4 DEF HandleReadEvent
<1>8. BackendOK(sel', fd')
  BY <1>3, <1>5, <1>6, <1>7, AddOK
<1>9. \A d \in Conns : Registered(sel', Read(d)) <=> Registered(s, Read(d)) \/ Read(d) = Read(c)
  BY <1>3, <1>6, <1>7, AddRegisters DEF BackendOK
<1>10. slot' \in [Conns -> Roles] /\ pools' \in [Conns -> 0 .. 2]
  BY <1>1, <1>2 DEF IInv, Roles, Reading
<1>11. RolesOK'
  BY <1>1, <1>2, <1>3, <1>5 DEF IInv, FdMap, RolesOK, Served, Reading
<1>12. ArmedOK'
  <2>1. slot \in [Conns -> Roles] /\ ArmedOK
    BY DEF IInv
  <2>2. \A d \in Conns : Read(d) = Read(c) => d = c
    BY EventFacts
  <2>3. slot'[c] = "wait" /\ \A d \in Conns : d # c => slot'[d] = slot[d]
    BY <1>1, <2>1
  <2>4. ASSUME NEW d \in Conns PROVE slot'[d] \in Armed => Registered(sel', Read(d))
    BY <1>3, <1>9, <2>1, <2>3 DEF ArmedOK
  <2>5. ASSUME NEW d \in Conns, slot'[d] = "limbo" PROVE ~Registered(sel', Read(d))
    <3>1. d # c /\ slot[d] = "limbo"
      BY <2>3, <2>5
    <3> QED
      BY <1>3, <1>9, <2>1, <2>2, <3>1 DEF ArmedOK
  <2> QED
    BY <2>4, <2>5 DEF ArmedOK
<1>13. DescOK'
  BY <1>1, DescTake
<1> QED
  BY <1>3, <1>8, <1>10, <1>11, <1>12, <1>13 DEF IInv

-----------------------------------------------------------------------------
\* Arming the read event of a slot with a descriptor keeps the backend and
\* every registration.
LEMMA ArmOK ==
  ASSUME IInv, NEW c \in Conns, slot[c] # "free"
  PROVE  LET t == HandleReadEvent(sel, c, fd[c], FALSE)
         IN  /\ BackendOK(t, fd)
             /\ \A d \in Conns : Registered(sel, Read(d)) => Registered(t, Read(d))
             /\ \A d \in Conns : Registered(t, Read(d)) => Registered(sel, Read(d)) \/ d = c
<1> DEFINE t == HandleReadEvent(sel, c, fd[c], FALSE)
<1>1. fd \in FdMap /\ BackendOK(sel, fd) /\ SelectType(sel) /\ fd[c] # NoFd
  BY DEF IInv, BackendOK, RolesOK
<1>2. Data(Read(c)) = c /\ \A d \in Conns : Read(d) \in Events
  BY EventFacts
<1>3. BackendOK(AddEvent(sel, Read(c), fd[c]), fd)
  BY <1>1, <1>2, AddOK
<1>4. \A d \in Conns : Registered(AddEvent(sel, Read(c), fd[c]), Read(d))
                         <=> Registered(sel, Read(d)) \/ d = c
  BY <1>1, <1>2, AddRegisters, EventFacts
<1> QED
  BY <1>1, <1>3, <1>4 DEF HandleReadEvent

\* Closing a slot closes its descriptor.
LEMMA DescClose ==
  ASSUME IInv, NEW c \in Conns, slot[c] \in Reading, CloseConnection(c), lost' = lost
  PROVE  DescOK'
<1>1. /\ fd' = [fd EXCEPT ![c] = NoFd] /\ slot' = [slot EXCEPT ![c] = "free"]
      /\ peer' = [peer EXCEPT ![fd[c]] = "none"]
  BY DEF CloseConnection
<1>2. /\ DescOK /\ fd \in FdMap /\ slot \in [Conns -> Roles] /\ DistinctOpen(fd)
      /\ c # Listener /\ fd[c] # NoFd
  BY DEF IInv, RolesOK, DescOK, Reading
<1>3. fd[c] \in Fds /\ fd[c] # ListenFd /\ fd[c] \in SlotFds /\ Listener \in Conns
  BY <1>2, HeldAreOpen, LoopAssumption DEF DescOK, DistinctOpen
<1>4. SlotFds' = SlotFds \ {fd[c]}
  BY <1>1, <1>2, <1>3 DEF FdMap, SlotFds, DistinctOpen
<1>5. \A f \in Fds \ {ListenFd} : peer'[f] # "none" <=> f \in lost \cup SlotFds'
  BY <1>1, <1>2, <1>3, <1>4 DEF DescOK
<1> QED
  BY <1>1, <1>2, <1>3, <1>4, <1>5, LoopAssumption DEF DescOK, FdMap

\* A slot that is closed is as it was before it was taken.
LEMMA CloseInv ==
  ASSUME IInv, NEW c \in Conns, slot[c] \in Reading, CloseConnection(c), lost' = lost
  PROVE  IInv'
<1>1. /\ fd \in FdMap /\ DistinctOpen(fd) /\ BackendOK(sel, fd)
      /\ fd' = [fd EXCEPT ![c] = NoFd]
      /\ slot' = [slot EXCEPT ![c] = "free"] /\ pools' = [pools EXCEPT ![c] = 0]
      /\ sel' = DelConnection(sel, c, fd[c])
  BY DEF IInv, CloseConnection
<1>2. /\ BackendOK(sel', fd')
      /\ \A g \in Events : Registered(sel', g) <=> Registered(sel, g) /\ Data(g) # c
  BY <1>1, CloseOK
<1>3. fd' \in FdMap /\ DistinctOpen(fd')
  BY <1>1 DEF FdMap, DistinctOpen
<1>4. slot' \in [Conns -> Roles] /\ pools' \in [Conns -> 0 .. 2]
  BY <1>1 DEF IInv, Roles
<1>5. RolesOK'
  BY <1>1 DEF IInv, FdMap, RolesOK, Served, Reading
<1>6. ArmedOK'
  BY <1>1, <1>2, EventFacts DEF IInv, ArmedOK, Armed, Reading
<1>7. DescOK'
  BY DescClose
<1> QED
  BY <1>2, <1>3, <1>4, <1>5, <1>6, <1>7 DEF IInv

\* Bytes were received: the slot goes on to another handler.
LEMMA ReadSomeInv ==
  ASSUME IInv, NEW c \in Conns, ReadSome(c)
  PROVE  IInv'
<1>1. PICK role \in Served :
        /\ slot' = [slot EXCEPT ![c] = role]
        /\ sel' = sel \/ sel' = HandleReadEvent(sel, c, fd[c], FALSE)
  BY DEF ReadSome, After, Served, Reading
<1>2. slot[c] \in Reading /\ UNCHANGED <<fd, pools, peer, lost>>
  BY DEF ReadSome, EventRun
<1>3. slot[c] # "free" /\ role # "free" /\ role # "listen"
  BY <1>2 DEF Reading, Served
<1>4. /\ BackendOK(sel', fd)
      /\ \A d \in Conns : Registered(sel, Read(d)) => Registered(sel', Read(d))
      /\ \A d \in Conns : Registered(sel', Read(d)) => Registered(sel, Read(d)) \/ d = c
  BY <1>1, <1>3, ArmOK DEF IInv
<1>5. slot' \in [Conns -> Roles]
  BY <1>1 DEF IInv, Roles, Served
<1>6. RolesOK'
  BY <1>1, <1>2, <1>3 DEF IInv, RolesOK, Served
<1>7. ArmedOK'
  BY <1>1, <1>2, <1>3, <1>4 DEF IInv, ArmedOK, Armed, Served, Reading
<1>8. DescOK'
  BY <1>1, <1>2, <1>3 DEF IInv, DescOK, SlotFds, Reading
<1> QED
  BY <1>2, <1>4, <1>5, <1>6, <1>7, <1>8 DEF IInv

\* A handler that runs keeps, blocks or frees its own slot only.
LEMMA HandlerInv ==
  ASSUME IInv, NEW c \in Conns, Handler(c)
  PROVE  IInv'
<1>1. CASE ReadAgain(c)
  <2>1. /\ slot[c] # "free" /\ slot[c] # "limbo" /\ UNCHANGED <<fd, slot, pools, peer, lost>>
        /\ sel' = HandleReadEvent(sel, c, fd[c], FALSE)
    BY <1>1 DEF ReadAgain, Reading, EventRun
  <2> QED
    BY <2>1, ArmOK, SelOnly
<1>2. CASE ReadEnds(c) \/ ReadCloses(c)
  BY <1>2, CloseInv DEF ReadEnds, ReadCloses, EventRun
<1>3. CASE ReadSome(c)
  BY <1>3, ReadSomeInv
<1>4. CASE ReadCrashes(c)
  BY <1>4 DEF ReadCrashes, IInv, RolesOK, ArmedOK, DescOK, SlotFds, EventFirst, net
<1>5. CASE BlockReading(c)
  <2>1. /\ slot[c] = "block" /\ UNCHANGED <<fd, slot, pools, peer, lost>>
        /\ sel' = DelIfActive(sel, Read(c), fd[c])
    BY <1>5 DEF BlockReading, EventRun
  <2>2. /\ Read(c) \in Events /\ Data(Read(c)) = c
        /\ \A d \in Conns : Read(d) \in Events /\ (Read(d) = Read(c) => d = c)
    BY EventFacts
  <2>3. /\ BackendOK(sel', fd)
        /\ \A g \in Events : Registered(sel', g) <=> Registered(sel, g) /\ g # Read(c)
    BY <2>1, <2>2, DelIfActiveOK DEF IInv
  <2>4. "block" \notin Armed
    BY DEF Armed, Reading
  <2> QED
    BY <2>1, <2>2, <2>3, <2>4, SelOnly
<1> QED
  BY <1>1, <1>2, <1>3, <1>4, <1>5 DEF Handler

\* Nobody but a client does anything, or accept() has no connection for us.
LEMMA PeerInv ==
  ASSUME IInv, UNCHANGED <<sel, fd, slot, pools, lost>>,
         peer' \in [Fds -> {"none", "open", "shut", "reset"}],
         \A f \in Fds : peer[f] = "none" <=> peer'[f] = "none"
  PROVE  IInv'
BY LoopAssumption DEF IInv, RolesOK, ArmedOK, DescOK, SlotFds

\* There was no slot for an accepted connection: its descriptor is lost.
LEMMA NoSlotInv ==
  ASSUME IInv, NEW f \in Fds, AcceptNoSlot(f)
  PROVE  IInv'
<1>1. /\ UNCHANGED <<sel, fd, slot, pools>> /\ lost' = lost \cup {f}
      /\ peer' = [peer EXCEPT ![f] = "open"] /\ f \notin OpenFds
  BY DEF AcceptNoSlot, Accepted, NewFd
<1>2. DescOK /\ f # ListenFd
  BY <1>1 DEF IInv, OpenFds
<1>3. SlotFds' = SlotFds /\ f \notin SlotFds
  BY <1>1, FdFacts, HeldAreOpen DEF SlotFds
<1>4. DescOK'
  BY <1>1, <1>2, <1>3 DEF DescOK
<1> QED
  BY <1>1, <1>4 DEF IInv, RolesOK, ArmedOK

\* Every step of the daemon keeps the invariant.
LEMMA StepInv == IInv /\ [Next]_vars => IInv'
<1> SUFFICES ASSUME IInv, [Next]_vars PROVE IInv'
  OBVIOUS
<1>1. CASE UNCHANGED <<sel, fd, slot, pools, peer, lost>>
  BY <1>1, PeerInv DEF IInv, DescOK
<1>2. CASE Work
  <2>1. CASE ProcessEvents
    BY <2>1, SelectInv
  <2>2. CASE AcceptFails
    BY <2>2, <1>1 DEF AcceptFails, net
  <2>3. ASSUME NEW f \in Fds, AcceptNoSlot(f) PROVE IInv'
    BY <2>3, NoSlotInv
  <2>4. ASSUME NEW c \in Conns, NEW f \in Fds, AcceptSlot(c, f) PROVE IInv'
    BY <2>4, LimboInv, AcceptInv DEF AcceptSlot
  <2>5. ASSUME NEW c \in Conns, Handler(c) PROVE IInv'
    BY <2>5, HandlerInv
  <2> QED
    BY <1>2, <2>1, <2>2, <2>3, <2>4, <2>5 DEF Work
<1>3. CASE ProcessInterrupted
  BY <1>3, SelectInv
<1>4. CASE Client
  <2>1. CASE ClientConnect \/ ClientAbort
    BY <2>1, <1>1 DEF ClientConnect, ClientAbort, daemon
  <2>2. ASSUME NEW f \in Fds, ClientSend(f) PROVE IInv'
    BY <2>2, <1>1 DEF ClientSend, daemon
  <2>3. ASSUME NEW f \in Fds, ClientShut(f) \/ ClientReset(f) PROVE IInv'
    BY <2>3, PeerInv DEF ClientShut, ClientReset, daemon, IInv, DescOK
  <2> QED
    BY <1>4, <2>1, <2>2, <2>3 DEF Client
<1>5. CASE UNCHANGED vars
  BY <1>5, <1>1 DEF vars, daemon, net
<1> QED
  BY <1>2, <1>3, <1>4, <1>5 DEF Next

-----------------------------------------------------------------------------
\* The invariant holds of every state of the daemon.
THEOREM Invariant == Spec => []IInv
BY InitBooted, BootedInv, StepInv, PTL DEF Spec

\* What the invariant says of the connections.
LEMMA ConnectionsSound ==
  IInv => BackendConsistent /\ ServedAreArmed /\ FreeIsQuiet /\ ServedHavePools
<1> SUFFICES ASSUME IInv
             PROVE  BackendConsistent /\ ServedAreArmed /\ FreeIsQuiet /\ ServedHavePools
  OBVIOUS
<1>1. BackendConsistent
  BY DEF IInv, BackendConsistent
<1>2. ServedAreArmed
  BY DEF IInv, ArmedOK, Armed, ServedAreArmed
<1>3. FreeIsQuiet
  BY EventFacts DEF IInv, RolesOK, BackendOK, OpenOK, FreeIsQuiet
<1>4. ServedHavePools
  BY DEF IInv, RolesOK, Served, ServedHavePools
<1> QED
  BY <1>1, <1>2, <1>3, <1>4

\* The backend of the daemon is consistent, and no two slots ever hold the
\* same descriptor.
THEOREM BackendAlwaysConsistent == Spec => []BackendConsistent
BY ConnectionsSound, Invariant, PTL

\* A connection that waits for bytes, and the listener, is always watched.
THEOREM ServedAlwaysArmed == Spec => []ServedAreArmed
BY ConnectionsSound, Invariant, PTL

\* Nothing of a free slot is in use: no descriptor, no pool, no event.
THEOREM FreeAlwaysQuiet == Spec => []FreeIsQuiet
BY ConnectionsSound, Invariant, PTL

\* A slot that serves a connection holds both its pools until it is closed.
THEOREM ServedAlwaysHavePools == Spec => []ServedHavePools
BY ConnectionsSound, Invariant, PTL

-----------------------------------------------------------------------------
\* An event in the list is the read event of a served slot, and is there once.
QueueOK(q, role) ==
  /\ q \in Seq(Events)
  /\ \A i \in 1 .. Len(q) : q[i] = Read(Data(q[i])) /\ role[Data(q[i])] \in Served
  /\ \A i, j \in 1 .. Len(q) : q[i] = q[j] => i = j

\* The variables nothing else depends on.
NetOK ==
  /\ ready \in [Conns -> BOOLEAN]
  /\ accepts \in Seq({Read(Listener)})
  /\ crashed \in BOOLEAN
  /\ backlog \in 0 .. MaxBacklog
  /\ unread \in [Fds -> 0 .. MaxUnread]

QInv == NetOK /\ QueueOK(posted, slot)

-----------------------------------------------------------------------------
\* Taking the first element off a sequence.
LEMMA TailFacts ==
  ASSUME NEW S, NEW q \in Seq(S), q # <<>>
  PROVE  /\ Tail(q) \in Seq(S) /\ Len(q) \in Nat /\ Len(q) >= 1
         /\ Len(Tail(q)) = Len(q) - 1
         /\ \A i \in 1 .. Len(q) - 1 : Tail(q)[i] = q[i + 1]
         /\ Head(q) = q[1]
BY HeadTailProperties, EmptySeq

\* A list without its first event contains none of it, and what else it
\* contains was in the list.
LEMMA TailQueue ==
  ASSUME NEW q, NEW role, QueueOK(q, role), q # <<>>
  PROVE  /\ QueueOK(Tail(q), role)
         /\ \A i \in 1 .. Len(Tail(q)) : Tail(q)[i] # Head(q)
         /\ Head(q) \in Events /\ Head(q) = Read(Data(Head(q)))
         /\ role[Data(Head(q))] \in Served
<1>1. /\ q \in Seq(Events) /\ Tail(q) \in Seq(Events) /\ Len(q) \in Nat /\ Len(q) >= 1
      /\ Len(Tail(q)) = Len(q) - 1
      /\ \A i \in 1 .. Len(q) - 1 : Tail(q)[i] = q[i + 1]
      /\ Head(q) = q[1]
  BY TailFacts DEF QueueOK
<1>2. \A i \in 1 .. Len(q) : q[i] \in Events
  BY <1>1, ElementOfSeq
<1>3. \A i \in 1 .. Len(q) : q[i] = Read(Data(q[i])) /\ role[Data(q[i])] \in Served
  BY DEF QueueOK
<1>4. \A i, j \in 1 .. Len(q) : q[i] = q[j] => i = j
  BY DEF QueueOK
<1> HIDE DEF QueueOK
<1>5. \A i \in 1 .. Len(Tail(q)) : i + 1 \in 1 .. Len(q) /\ 1 \in 1 .. Len(q) /\ i \in Nat
  BY <1>1
<1>6. \A i \in 1 .. Len(Tail(q)) : Tail(q)[i] = q[i + 1] /\ Tail(q)[i] # Head(q)
  BY <1>1, <1>4, <1>5
<1>7. \A i, j \in 1 .. Len(Tail(q)) : Tail(q)[i] = Tail(q)[j] => i = j
  BY <1>4, <1>5, <1>6
<1>8. QueueOK(Tail(q), role)
  BY <1>1, <1>3, <1>5, <1>6, <1>7 DEF QueueOK
<1>9. 1 \in 1 .. Len(q)
  BY <1>1
<1> QED
  BY <1>1, <1>2, <1>3, <1>6, <1>8, <1>9

\* A list stays good when the slots of its events keep being served.
LEMMA RoleQueue ==
  ASSUME NEW q, NEW old, NEW new, QueueOK(q, old),
         \A i \in 1 .. Len(q) : old[Data(q[i])] \in Served => new[Data(q[i])] \in Served
  PROVE  QueueOK(q, new)
BY DEF QueueOK

\* A function that lists registered events by their place lists none twice.
LEMMA OrderedOnce ==
  ASSUME NEW s, NEW es, es \subseteq Events, IsFiniteSet(es), NEW q \in InOrder(s, es),
         s.index \in [Events -> Places \cup {INVALID}]
  PROVE  /\ q \in Seq(Events) /\ \A i \in 1 .. Len(q) : q[i] \in es
         /\ \A i, j \in 1 .. Len(q) : q[i] = q[j] => i = j
<1>1. Cardinality(es) \in Nat
  BY FS_CardinalityType
<1> DEFINE n == Cardinality(es)
<1>2. q \in [1 .. n -> es]
  BY DEF InOrder
<1>3. \A i, j \in 1 .. n : i < j => s.index[q[i]] < s.index[q[j]]
  BY <1>2 DEF InOrder
<1>4. n \in Nat
  BY <1>1
<1> HIDE DEF n
<1>5. q \in Seq(Events) /\ Len(q) = n
  BY <1>2, <1>4
<1>6. \A i, j \in 1 .. n : i < j => q[i] # q[j]
  <2>1. TAKE i, j \in 1 .. n
  <2>2. HAVE i < j
  <2>3. SUFFICES ASSUME q[i] = q[j] PROVE FALSE
    OBVIOUS
  <2>4. s.index[q[i]] < s.index[q[j]] /\ s.index[q[i]] = s.index[q[j]]
    BY <1>3, <2>2, <2>3
  <2>5. q[i] \in Events
    BY <1>2
  <2>6. s.index[q[i]] \in Int
    <3>1. Capacity \in Nat
      BY EventsCount
    <3> QED
      BY <2>5, <3>1 DEF Places, INVALID
  <2> QED
    BY <2>4, <2>6
<1>7. \A i, j \in 1 .. n : q[i] = q[j] => i = j
  BY <1>4, <1>6
<1> QED
  BY <1>2, <1>5, <1>7

-----------------------------------------------------------------------------
\* Nothing is posted at the start.
LEMMA BootedQueue == Booted => QInv
<1> SUFFICES ASSUME Booted PROVE QInv
  OBVIOUS
<1>1. Len(<<>>) = 0 /\ <<>> \in Seq(Events) /\ <<>> \in Seq({Read(Listener)})
  BY EmptySeq
<1>2. QueueOK(<<>>, slot)
  BY <1>1 DEF QueueOK
<1>3. NetOK
  <2>1. 0 \in 0 .. MaxUnread
    BY LoopAssumption
  <2>2. ready = [c \in Conns |-> FALSE]
    BY DEF Booted
  <2>3. ready \in [Conns -> BOOLEAN]
    BY <2>2, Zenon
  <2>4. unread = [f \in Fds |-> 0] /\ backlog \in 0 .. MaxBacklog /\ accepts = <<>> /\ crashed = FALSE
    BY DEF Booted
  <2> QED
    BY <1>1, <2>1, <2>3, <2>4 DEF NetOK
<1> QED
  BY <1>2, <1>3 DEF Booted, QInv

\* What a scan finds next to the listener are read events of served slots.
LEMMA FoundServed ==
  ASSUME IInv, NEW s, BackendOK(s, fd), s.index = sel.index, NEW r, NEW e,
         e \in Found(s, fd, r, {}) \ {Read(Listener)}
  PROVE  e \in Events /\ e = Read(Data(e)) /\ slot[Data(e)] \in Served
<1>1. PICK i \in 0 .. s.nevents - 1 : e = s.event_index[i]
  BY DEF Found
<1>2. e \in Events /\ s.index[e] = i /\ SelectType(s)
  BY <1>1 DEF BackendOK, IndexOK
<1>3. s.nevents \in Nat
  BY <1>2, EventsCount DEF SelectType
<1>4. Registered(s, e) /\ Registered(sel, e)
  BY <1>2, <1>3 DEF Registered, INVALID
<1>5. Data(e) \in Conns /\ ~IsWrite(e)
  BY <1>2, EventFacts DEF Found
<1>6. e = Read(Data(e))
  BY <1>2, <1>5, EventFacts
<1>7. slot[Data(e)] # "free" /\ slot[Data(e)] # "limbo" /\ slot[Data(e)] # "listen"
  <2>1. fd[Data(e)] # NoFd
    BY <1>2, <1>4 DEF BackendOK, OpenOK
  <2>2. Data(e) # Listener
    BY <1>6
  <2> QED
    BY <1>4, <1>5, <1>6, <2>1, <2>2 DEF IInv, RolesOK, ArmedOK, DescOK
<1>8. slot[Data(e)] \in Roles
  BY <1>5 DEF IInv
<1> QED
  BY <1>2, <1>6, <1>7, <1>8 DEF Roles, Served

\* The scan posts events of connections that are served, each once.
LEMMA ScanQueue ==
  ASSUME IInv, QInv, ProcessEvents
  PROVE  QInv'
<1> DEFINE s == Refreshed(sel, fd)
<1>1. fd \in FdMap /\ BackendOK(sel, fd) /\ SelectType(sel)
  BY DEF IInv, BackendOK
<1>2. BackendOK(s, fd) /\ SelectType(s) /\ s.index = sel.index
  BY <1>1, RefreshedOK, ScanRegisters DEF BackendOK
<1> HIDE DEF s
<1>3. PICK r : LET found == IF AsksForClosed(s, OpenFds) THEN {} ELSE Found(s, fd, r, {})
               IN  /\ accepts' \in Scan(s, found \cap {Read(Listener)})
                   /\ posted' \in Scan(s, found \ {Read(Listener)})
                   /\ ready' = [c \in Conns |-> ready[c] \/ Read(c) \in found]
  BY DEF ProcessEvents, s
<1> DEFINE found == IF AsksForClosed(s, OpenFds) THEN {} ELSE Found(s, fd, r, {})
<1>4. accepts' \in Scan(s, found \cap {Read(Listener)}) /\ posted' \in Scan(s, found \ {Read(Listener)})
  BY <1>3
<1>5. \A e \in found \ {Read(Listener)} :
        e \in Events /\ e = Read(Data(e)) /\ slot[Data(e)] \in Served
  BY <1>2, FoundServed
<1> HIDE DEF found
<1>6. s.index \in [Events -> Places \cup {INVALID}] /\ IsFiniteSet(Events)
      /\ Read(Listener) \in Events
  BY <1>2, EventsCount, EventFacts, LoopAssumption DEF SelectType
<1>7. \A es : es \subseteq Events => IsFiniteSet(es)
  BY <1>6, FS_Subset
<1>8. QueueOK(posted', slot)
  <2>1. found \ {Read(Listener)} \subseteq Events
    BY <1>5
  <2>2. /\ posted' \in Seq(Events)
        /\ \A i \in 1 .. Len(posted') : posted'[i] \in found \ {Read(Listener)}
        /\ \A i, j \in 1 .. Len(posted') : posted'[i] = posted'[j] => i = j
    BY <1>4, <1>6, <1>7, <2>1, OrderedOnce DEF Scan
  <2> QED
    BY <1>5, <2>2 DEF QueueOK
<1>9. accepts' \in Seq({Read(Listener)})
  <2>1. found \cap {Read(Listener)} \subseteq Events
    BY <1>6
  <2>2. /\ accepts' \in Seq(Events)
        /\ \A i \in 1 .. Len(accepts') : accepts'[i] \in {Read(Listener)}
    BY <1>4, <1>6, <1>7, <2>1, OrderedOnce DEF Scan
  <2> QED
    BY <2>2
<1>10. ready' \in [Conns -> BOOLEAN]
  <2>1. ready' = [c \in Conns |-> ready[c] \/ Read(c) \in found]
    BY <1>3 DEF found
  <2>2. ready \in [Conns -> BOOLEAN]
    BY DEF QInv, NetOK
  <2> QED
    BY <2>1, <2>2, Zenon
<1>11. UNCHANGED <<slot, crashed, backlog, unread>>
  BY DEF ProcessEvents, net
<1> QED
  BY <1>8, <1>9, <1>10, <1>11 DEF QInv, NetOK

-----------------------------------------------------------------------------
\* A handler of the accept event: the posted events stay as they are.
LEMMA AcceptQueue ==
  ASSUME IInv, QInv, AcceptRun, UNCHANGED unread,
         backlog' = backlog \/ (backlog > 0 /\ backlog' = backlog - 1),
         crashed' \in BOOLEAN, ready' \in [Conns -> BOOLEAN],
         slot' = slot \/ \E c \in Conns : \E role : slot[c] = "free" /\ slot' = [slot EXCEPT ![c] = role]
  PROVE  QInv'
<1>1. /\ accepts \in Seq({Read(Listener)}) /\ accepts # <<>> /\ accepts' = Tail(accepts)
      /\ posted' = posted /\ QueueOK(posted, slot)
  BY DEF AcceptRun, QInv, NetOK
<1>2. accepts' \in Seq({Read(Listener)})
  BY <1>1, TailFacts
<1>3. QueueOK(posted, slot')
  <2>1. \A i \in 1 .. Len(posted) : slot[Data(posted[i])] \in Served
          => slot'[Data(posted[i])] \in Served
    <3>1. TAKE i \in 1 .. Len(posted)
    <3>2. posted[i] \in Events /\ Data(posted[i]) \in Conns
      BY <1>1, ElementOfSeq, EventFacts DEF QueueOK
    <3> QED
      BY <3>2 DEF IInv, Served, Reading
  <2> QED
    BY <1>1, <2>1, RoleQueue
<1>4. backlog' \in 0 .. MaxBacklog
  BY LoopAssumption DEF QInv, NetOK
<1>5. unread' = unread /\ unread \in [Fds -> 0 .. MaxUnread]
  BY DEF QInv, NetOK
<1> QED
  BY <1>1, <1>2, <1>3, <1>4, <1>5 DEF QInv, NetOK

\* A handler of a connection: its event leaves the list, and the slots of the
\* events behind it are not touched.
LEMMA EventQueue ==
  ASSUME IInv, QInv, NEW c \in Conns, EventRun(c),
         unread' \in [Fds -> 0 .. MaxUnread], ready' \in [Conns -> BOOLEAN],
         NEW role, slot' = [slot EXCEPT ![c] = role]
  PROVE  QInv'
<1>1. /\ QueueOK(posted, slot) /\ posted # <<>> /\ Head(posted) = Read(c)
      /\ posted' = Tail(posted) /\ UNCHANGED <<accepts, crashed, backlog>>
  BY DEF EventRun, EventFirst, QInv
<1>2. QueueOK(Tail(posted), slot) /\ \A i \in 1 .. Len(Tail(posted)) : Tail(posted)[i] # Read(c)
  BY <1>1, TailQueue
<1>3. ASSUME NEW i \in 1 .. Len(Tail(posted))
      PROVE  slot'[Data(Tail(posted)[i])] = slot[Data(Tail(posted)[i])]
  <2>1. /\ Tail(posted)[i] \in Events /\ Tail(posted)[i] = Read(Data(Tail(posted)[i]))
        /\ Tail(posted)[i] # Read(c)
    BY <1>2, ElementOfSeq DEF QueueOK
  <2>2. Data(Tail(posted)[i]) \in Conns /\ Data(Tail(posted)[i]) # c
    BY <2>1, EventFacts
  <2> QED
    BY <2>2 DEF IInv
<1>4. QueueOK(Tail(posted), slot')
  BY <1>2, <1>3, RoleQueue
<1>5. NetOK'
  BY <1>1 DEF QInv, NetOK
<1> QED
  BY <1>1, <1>4, <1>5 DEF QInv

\* Setting one event's ready flag keeps the type of the flags.
LEMMA ReadyType ==
  ASSUME NEW g \in [Conns -> BOOLEAN], NEW c \in Conns, NEW b \in BOOLEAN
  PROVE  [g EXCEPT ![c] = b] \in [Conns -> BOOLEAN]
OBVIOUS

\* A handler runs for the head of the list and frees no other slot.
LEMMA HandlerQueue ==
  ASSUME IInv, QInv, NEW c \in Conns, Handler(c)
  PROVE  QInv'
<1>1. /\ unread \in [Fds -> 0 .. MaxUnread] /\ ready \in [Conns -> BOOLEAN]
      /\ slot \in [Conns -> Roles] /\ fd \in FdMap /\ 0 \in 0 .. MaxUnread
  BY LoopAssumption DEF QInv, NetOK, IInv
<1>2. slot = [slot EXCEPT ![c] = slot[c]]
  BY <1>1
<1>3. CASE ReadAgain(c)
  <2>1. /\ EventRun(c) /\ unread' = unread /\ slot' = slot
        /\ ready' = [ready EXCEPT ![c] = FALSE]
    BY <1>3 DEF ReadAgain
  <2>2. ready' \in [Conns -> BOOLEAN]
    BY <1>1, <2>1, ReadyType
  <2> QED
    BY <1>1, <1>2, <2>1, <2>2, EventQueue
<1>4. CASE ReadEnds(c) \/ ReadCloses(c)
  <2>1. PICK b \in BOOLEAN : ready' = [ready EXCEPT ![c] = b]
    BY <1>4 DEF ReadEnds, ReadCloses
  <2>2. /\ EventRun(c) /\ unread' = [unread EXCEPT ![fd[c]] = 0]
        /\ slot' = [slot EXCEPT ![c] = "free"]
    BY <1>4 DEF ReadEnds, ReadCloses, CloseConnection
  <2>3. unread' \in [Fds -> 0 .. MaxUnread]
    BY <1>1, <2>2
  <2>4. ready' \in [Conns -> BOOLEAN]
    BY <1>1, <2>1, ReadyType
  <2> QED
    BY <2>2, <2>3, <2>4, EventQueue
<1>5. CASE ReadSome(c)
  <2>1. EventRun(c) /\ slot[c] \in Reading
    BY <1>5 DEF ReadSome
  <2>2. PICK k \in 1 .. unread[fd[c]] : unread' = [unread EXCEPT ![fd[c]] = @ - k]
    BY <1>5 DEF ReadSome
  <2>3. PICK role \in After(slot[c]) : slot' = [slot EXCEPT ![c] = role]
    BY <1>5 DEF ReadSome
  <2>4. ready' = [ready EXCEPT ![c] = TRUE] \/ ready' = [ready EXCEPT ![c] = FALSE]
    BY <1>5 DEF ReadSome
  <2>5. ready' \in [Conns -> BOOLEAN]
    BY <1>1, <2>4, ReadyType
  <2>6. fd[c] \in Fds
    BY <2>1 DEF IInv, RolesOK, Reading, FdMap
  <2>7. unread[fd[c]] - k \in 0 .. MaxUnread
    BY <1>1, <2>2, <2>6, LoopAssumption
  <2>8. unread' \in [Fds -> 0 .. MaxUnread]
    BY <1>1, <2>2, <2>6, <2>7
  <2> QED
    BY <2>1, <2>3, <2>5, <2>8, EventQueue
<1>6. CASE ReadCrashes(c)
  BY <1>6 DEF ReadCrashes, net, QInv, NetOK
<1>7. CASE BlockReading(c)
  <2>1. EventRun(c) /\ unread' = unread /\ slot' = slot /\ ready' = ready
    BY <1>7 DEF BlockReading
  <2> QED
    BY <1>1, <1>2, <2>1, EventQueue
<1> QED
  BY <1>3, <1>4, <1>5, <1>6, <1>7 DEF Handler

\* accept takes a free slot, which is not in the list.
LEMMA AcceptStepQueue ==
  ASSUME IInv, QInv, AcceptFails \/ (\E f \in Fds : AcceptNoSlot(f))
                     \/ (\E c \in Conns, f \in Fds : AcceptSlot(c, f))
  PROVE  QInv'
<1>1. /\ ready \in [Conns -> BOOLEAN] /\ Listener \in Conns
      /\ crashed \in BOOLEAN
  BY LoopAssumption DEF QInv, NetOK
<1>2. CASE AcceptFails
  <2>1. /\ AcceptRun /\ ready' = [ready EXCEPT ![Listener] = FALSE]
        /\ UNCHANGED <<slot, crashed, backlog, unread>>
    BY <1>2 DEF AcceptFails, net
  <2>2. ready' \in [Conns -> BOOLEAN]
    BY <1>1, <2>1, ReadyType
  <2> QED
    BY <1>1, <2>1, <2>2, AcceptQueue
<1>3. ASSUME NEW f \in Fds, AcceptNoSlot(f) PROVE QInv'
  <2>1. /\ AcceptRun /\ ready' = [ready EXCEPT ![Listener] = FALSE]
        /\ UNCHANGED <<slot, crashed, unread>> /\ backlog > 0 /\ backlog' = backlog - 1
    BY <1>3 DEF AcceptNoSlot, Accepted
  <2>2. ready' \in [Conns -> BOOLEAN]
    BY <1>1, <2>1, ReadyType
  <2> QED
    BY <1>1, <2>1, <2>2, AcceptQueue
<1>4. ASSUME NEW c \in Conns, NEW f \in Fds, AcceptSlot(c, f) PROVE QInv'
  <2>1. /\ AcceptRun /\ unread' = unread /\ backlog > 0 /\ backlog' = backlog - 1
        /\ \E n : TakeSlot(c, f, n)
    BY <1>4 DEF AcceptSlot, AcceptNoPool, AcceptCrashes, AcceptOk, Accepted
  <2>2. slot[c] = "free" /\ ready' = [ready EXCEPT ![Listener] = FALSE, ![c] = FALSE]
    BY <2>1 DEF TakeSlot
  <2>3. crashed' \in BOOLEAN
    BY <1>1, <1>4 DEF AcceptSlot, AcceptNoPool, AcceptCrashes, AcceptOk
  <2>4. \E role : slot' = [slot EXCEPT ![c] = role]
    BY <1>4 DEF AcceptSlot, AcceptNoPool, AcceptCrashes, AcceptOk
  <2>5. ready' \in [Conns -> BOOLEAN]
    BY <1>1, <2>2, ReadyType
  <2> QED
    BY <1>1, <2>1, <2>2, <2>3, <2>4, <2>5, AcceptQueue
<1> QED
  BY <1>2, <1>3, <1>4

\* Every step of the daemon keeps what is known of the lists.
LEMMA StepQueue == IInv /\ QInv /\ [Next]_vars => QInv'
<1> SUFFICES ASSUME IInv, QInv, [Next]_vars PROVE QInv'
  OBVIOUS
<1>1. CASE Work
  BY <1>1, ScanQueue, AcceptStepQueue, HandlerQueue DEF Work
<1>2. CASE ProcessInterrupted
  BY <1>2 DEF ProcessInterrupted, net, QInv, NetOK
<1>3. CASE Client
  <2>1. UNCHANGED <<ready, accepts, posted, slot, crashed>>
    BY <1>3 DEF Client, ClientConnect, ClientAbort, ClientSend, ClientShut, ClientReset, daemon
  <2>2. backlog' \in 0 .. MaxBacklog
    BY <1>3, LoopAssumption
       DEF Client, ClientConnect, ClientAbort, ClientSend, ClientShut, ClientReset, QInv, NetOK
  <2>3. unread' \in [Fds -> 0 .. MaxUnread]
    <3>1. unread \in [Fds -> 0 .. MaxUnread] /\ 0 \in 0 .. MaxUnread
      BY LoopAssumption DEF QInv, NetOK
    <3>2. ASSUME NEW f \in Fds, ClientSend(f) PROVE unread' \in [Fds -> 0 .. MaxUnread]
      <4>1. unread[f] + 1 \in 0 .. MaxUnread
        BY <3>1, <3>2, LoopAssumption DEF ClientSend
      <4> QED
        BY <3>1, <3>2, <4>1 DEF ClientSend
    <3>3. ASSUME NEW f \in Fds, ClientReset(f) PROVE unread' \in [Fds -> 0 .. MaxUnread]
      BY <3>1, <3>3 DEF ClientReset
    <3>4. CASE UNCHANGED unread
      BY <3>1, <3>4
    <3> QED
      BY <1>3, <3>2, <3>3, <3>4 DEF Client, ClientConnect, ClientAbort, ClientShut
  <2> QED
    BY <2>1, <2>2, <2>3 DEF QInv, NetOK
<1>4. CASE UNCHANGED vars
  BY <1>4 DEF vars, daemon, net, QInv, NetOK
<1> QED
  BY <1>1, <1>2, <1>3, <1>4 DEF Next

-----------------------------------------------------------------------------
\* Both invariants together.
THEOREM QueueInvariant == Spec => [](IInv /\ QInv)
<1>1. Init => IInv /\ QInv
  BY InitBooted, BootedInv, BootedQueue
<1>2. IInv /\ QInv /\ [Next]_vars => (IInv /\ QInv)'
  BY StepInv, StepQueue
<1> QED
  BY <1>1, <1>2, PTL DEF Spec

\* The two invariants say of what type the variables are.
LEMMA LoopTypes == IInv /\ QInv => TypeOK
<1> SUFFICES ASSUME IInv, QInv PROVE TypeOK
  OBVIOUS
<1>1. SelectType(sel) /\ fd \in [Conns -> Fds \cup {NoFd}]
  BY DEF IInv, BackendOK, FdMap
<1>2. posted \in Seq(Events)
  BY DEF QInv, QueueOK
<1> QED
  BY <1>1, <1>2 DEF IInv, DescOK, QInv, NetOK, TypeOK

\* Every variable of the daemon keeps its type.
THEOREM TypesAlwaysOK == Spec => []TypeOK
BY LoopTypes, QueueInvariant, PTL

\* The events in the list are different ones.
LEMMA PostedCount ==
  ASSUME QInv
  PROVE  Cardinality(Posted) = Len(posted)
<1> DEFINE q == posted
           n == Len(posted)
           f == [i \in 1 .. n |-> q[i]]
<1>1. n \in Nat /\ \A i, j \in 1 .. n : q[i] = q[j] => i = j
  BY LenProperties DEF QInv, QueueOK
<1>2. Posted = {q[i] : i \in 1 .. n}
  BY DEF Posted
<1> HIDE DEF q, n
<1>3. IsFiniteSet(1 .. n) /\ Cardinality(1 .. n) = n
  <2>1. 1 \in Int /\ n \in Int
    BY <1>1
  <2>2. IsFiniteSet(1 .. n) /\ Cardinality(1 .. n) = IF 1 > n THEN 0 ELSE n - 1 + 1
    BY <2>1, FS_Interval, Zenon
  <2> QED
    BY <1>1, <2>2
<1>4. f \in Surjection(1 .. n, Posted) /\ f \in Injection(1 .. n, Posted)
  <2>1. f \in [1 .. n -> Posted] /\ \A i \in 1 .. n : f[i] = q[i]
    BY <1>2
  <2>2. \A t \in Posted : \E i \in 1 .. n : f[i] = t
    BY <1>2, <2>1
  <2>3. \A i, j \in 1 .. n : f[i] = f[j] => i = j
    BY <1>1, <2>1 DEF q, n
  <2> HIDE DEF f
  <2> QED
    BY <2>1, <2>2, <2>3 DEF Surjection, Injection, IsInjective
<1>5. Cardinality(Posted) = Cardinality(1 .. n)
  BY <1>3, <1>4, FS_Surjection
<1> QED
  BY <1>3, <1>5 DEF n

\* The list holds events of served slots, which have a descriptor.
LEMMA PostedLive == IInv /\ QInv => PostedAreLive
<1> SUFFICES ASSUME IInv, QInv PROVE PostedAreLive
  OBVIOUS
<1>1. ASSUME NEW e \in Posted
      PROVE  slot[Data(e)] \in Reading \cup {"block"} /\ fd[Data(e)] # NoFd
  <2>1. PICK i \in 1 .. Len(posted) : e = posted[i]
    BY DEF Posted
  <2>2. posted[i] \in Events /\ slot[Data(e)] \in Served
    BY <2>1, ElementOfSeq DEF QInv, QueueOK
  <2>3. Data(e) \in Conns
    BY <2>1, <2>2, EventFacts
  <2> QED
    BY <2>2, <2>3 DEF IInv, RolesOK, Served, Reading
<1> QED
  BY <1>1, PostedCount DEF PostedAreLive

\* A posted event is posted once and belongs to a connection that is served.
THEOREM PostedAlwaysLive == Spec => []PostedAreLive
BY PostedLive, QueueInvariant, PTL

-----------------------------------------------------------------------------
\* A slot with an event in the list keeps its descriptor in every step that
\* leaves the event there.
LEMMA KeepFdStep ==
  ASSUME IInv, QInv, [Next]_vars, NEW e \in Posted,
         e \in {posted'[i] : i \in 1 .. Len(posted')}
  PROVE  fd'[Data(e)] = fd[Data(e)]
<1>1. PICK k \in 1 .. Len(posted) : e = posted[k]
  BY DEF Posted
<1>2. e \in Events /\ e = Read(Data(e)) /\ slot[Data(e)] \in Served /\ Data(e) \in Conns
  BY <1>1, ElementOfSeq, EventFacts DEF QInv, QueueOK
<1>3. fd \in FdMap
  BY DEF IInv
<1>4. CASE UNCHANGED fd
  BY <1>4
<1>5. ASSUME NEW c \in Conns, NEW f \in Fds, AcceptSlot(c, f) PROVE fd'[Data(e)] = fd[Data(e)]
  <2>1. slot[c] = "free" /\ fd' = [fd EXCEPT ![c] = f]
    BY <1>5 DEF AcceptSlot, AcceptNoPool, AcceptCrashes, AcceptOk, TakeSlot
  <2>2. Data(e) # c
    BY <1>2, <2>1 DEF Served, Reading
  <2> QED
    BY <1>2, <1>3, <2>1, <2>2 DEF FdMap
<1>6. ASSUME NEW c \in Conns, EventRun(c), CloseConnection(c) PROVE fd'[Data(e)] = fd[Data(e)]
  <2>1. /\ posted # <<>> /\ Head(posted) = Read(c) /\ posted' = Tail(posted)
        /\ QueueOK(posted, slot)
    BY <1>6 DEF EventRun, EventFirst, QInv
  <2>2. \A i \in 1 .. Len(Tail(posted)) : Tail(posted)[i] # Read(c)
    BY <2>1, TailQueue
  <2>3. Data(e) # c
    BY <1>2, <2>1, <2>2
  <2> QED
    BY <1>2, <1>3, <1>6, <2>3 DEF CloseConnection, FdMap
<1>7. CASE Work
  <2>1. ASSUME NEW c \in Conns, Handler(c) PROVE fd'[Data(e)] = fd[Data(e)]
    BY <2>1, <1>4, <1>6
       DEF Handler, ReadAgain, ReadEnds, ReadCloses, ReadSome, ReadCrashes, BlockReading
  <2>2. CASE ProcessEvents
    BY <2>2, <1>4 DEF ProcessEvents
  <2>3. CASE AcceptFails \/ \E f \in Fds : AcceptNoSlot(f)
    BY <2>3, <1>4 DEF AcceptFails, AcceptNoSlot
  <2> QED
    BY <1>5, <1>7, <2>1, <2>2, <2>3 DEF Work
<1>8. CASE ProcessInterrupted
  BY <1>8, <1>4 DEF ProcessInterrupted
<1>9. CASE Client
  BY <1>9, <1>4 DEF Client, ClientConnect, ClientAbort, ClientSend, ClientShut, ClientReset, daemon
<1>10. CASE UNCHANGED vars
  BY <1>10, <1>4 DEF vars, daemon
<1> QED
  BY <1>7, <1>8, <1>9, <1>10 DEF Next

\* A report of select() never reaches a connection it was not made for.
THEOREM ReportedAlwaysKeepFd == Spec => ReportedKeepFd
<1>1. IInv /\ QInv /\ [Next]_vars
        => [\A e \in Posted : e \in {posted'[i] : i \in 1 .. Len(posted')}
              => fd'[Data(e)] = fd[Data(e)]]_vars
  BY KeepFdStep
<1> QED
  BY <1>1, QueueInvariant, PTL DEF Spec, ReportedKeepFd

-----------------------------------------------------------------------------
\* The slots hold as many descriptors as there are slots that hold one.
LEMMA HeldCount ==
  ASSUME IInv
  PROVE  LET held == {c \in Conns : fd[c] # NoFd}
         IN  /\ IsFiniteSet(held) /\ IsFiniteSet(SlotFds) /\ IsFiniteSet(lost)
             /\ Cardinality(SlotFds) = Cardinality(held)
<1> DEFINE held == {c \in Conns : fd[c] # NoFd}
           g    == [c \in held |-> fd[c]]
<1>1. fd \in FdMap /\ DistinctOpen(fd) /\ lost \subseteq Fds
  BY DEF IInv, DescOK
<1>2. IsFiniteSet(held)
  BY SelectAssumption, FS_Subset
<1>3. IsFiniteSet(SlotFds) /\ IsFiniteSet(lost)
  <2>1. SlotFds \in SUBSET Fds /\ lost \in SUBSET Fds
    BY <1>1 DEF SlotFds, FdMap
  <2> QED
    BY <2>1, SelectAssumption, FS_Subset
<1>4. g \in Surjection(held, SlotFds) /\ g \in Injection(held, SlotFds)
  <2>1. g \in [held -> SlotFds] /\ \A c \in held : g[c] = fd[c]
    BY DEF SlotFds
  <2>2. \A t \in SlotFds : \E c \in held : g[c] = t
    BY <2>1 DEF SlotFds
  <2>3. \A c, d \in held : g[c] = g[d] => c = d
    BY <1>1, <2>1 DEF DistinctOpen
  <2> HIDE DEF held, g
  <2> QED
    BY <2>1, <2>2, <2>3 DEF Surjection, Injection, IsInjective
<1> HIDE DEF held, g
<1>5. Cardinality(SlotFds) = Cardinality(held)
  BY <1>2, <1>4, FS_Surjection
<1> QED
  BY <1>2, <1>3, <1>5 DEF held

\* The open descriptors are those of the slots and the lost ones.
LEMMA OpenAre ==
  ASSUME IInv
  PROVE  OpenFds = SlotFds \cup lost
<1>1. ListenFd \in SlotFds
  BY LoopAssumption, FdFacts DEF IInv, DescOK, SlotFds
<1>2. SlotFds \subseteq Fds /\ lost \subseteq Fds
  BY DEF IInv, DescOK, SlotFds, FdMap
<1> QED
  BY <1>1, <1>2 DEF IInv, DescOK, OpenFds

\* A new descriptor is not above the number of those open.
LEMMA NewIsLow ==
  ASSUME IInv, NEW f \in Fds, NewFd(f)
  PROVE  f - ListenFd <= Cardinality(SlotFds) + Cardinality(lost)
<1>1. f \in Nat /\ ListenFd \in Nat /\ ListenFd <= f /\ ListenFd .. f \subseteq Fds
  BY LoopAssumption, FdFacts
<1>2. ListenFd .. f - 1 \subseteq OpenFds
  BY <1>1 DEF NewFd
<1>3. IsFiniteSet(SlotFds) /\ IsFiniteSet(lost)
  BY HeldCount
<1>4. /\ IsFiniteSet(SlotFds \cup lost)
      /\ Cardinality(SlotFds \cup lost)
           = Cardinality(SlotFds) + Cardinality(lost) - Cardinality(SlotFds \cap lost)
  BY <1>3, FS_Union
<1>5. SlotFds \cap lost = {}
  BY DEF IInv, DescOK
<1>6. ListenFd .. f - 1 \in SUBSET (SlotFds \cup lost)
  BY <1>2, OpenAre
<1>7. Cardinality(ListenFd .. f - 1) <= Cardinality(SlotFds \cup lost)
  BY <1>4, <1>6, FS_Subset
<1>8. Cardinality(ListenFd .. f - 1) = f - ListenFd
  <2>1. ListenFd \in Int /\ f - 1 \in Int
    BY <1>1
  <2>2. Cardinality(ListenFd .. f - 1) = IF ListenFd > f - 1 THEN 0 ELSE f - 1 - ListenFd + 1
    BY <2>1, FS_Interval, Zenon
  <2> QED
    BY <1>1, <2>2
<1>9. /\ Cardinality(SlotFds) \in Nat /\ Cardinality(lost) \in Nat
      /\ Cardinality(SlotFds \cap lost) = 0
  BY <1>3, <1>5, FS_CardinalityType, FS_EmptySet
<1> QED
  BY <1>1, <1>4, <1>7, <1>8, <1>9

\* Nor above the number of slots, less one when a slot is free.
LEMMA SlotsBound ==
  ASSUME IInv
  PROVE  /\ Cardinality(Conns) \in Nat /\ Cardinality(SlotFds) \in Nat
         /\ Cardinality(SlotFds) <= Cardinality(Conns)
         /\ (\E c \in Conns : slot[c] = "free") => Cardinality(SlotFds) < Cardinality(Conns)
<1> DEFINE held == {c \in Conns : fd[c] # NoFd}
<1>1. IsFiniteSet(held) /\ Cardinality(SlotFds) = Cardinality(held) /\ IsFiniteSet(Conns)
  BY HeldCount, SelectAssumption
<1>2. (\E c \in Conns : slot[c] = "free") => held # Conns
  BY DEF IInv, RolesOK
<1>3. held \in SUBSET Conns
  OBVIOUS
<1> HIDE DEF held
<1>4. /\ Cardinality(held) <= Cardinality(Conns)
      /\ Cardinality(Conns) = Cardinality(held) => Conns = held
  BY <1>1, <1>3, FS_Subset
<1>5. Cardinality(held) \in Nat /\ Cardinality(Conns) \in Nat
  BY <1>1, FS_CardinalityType
<1> QED
  BY <1>1, <1>2, <1>4, <1>5

-----------------------------------------------------------------------------
\* One step keeps the descriptors low.
LEMMA LowStep ==
  ASSUME IInv, DescriptorsStayLow, [Next]_vars
  PROVE  DescriptorsStayLow'
<1> DEFINE b == Cardinality(Conns)
           l == Cardinality(lost)
<1>1. /\ b \in Nat /\ l \in Nat /\ ListenFd \in Nat /\ \A f \in Fds : f \in Nat
      /\ IsFiniteSet(lost)
  BY SlotsBound, HeldCount, FS_CardinalityType, LoopAssumption, FdFacts
<1>2. \A f \in OpenFds : f < ListenFd + b + l
  BY DEF DescriptorsStayLow
<1>3. CASE lost' = lost /\ OpenFds' \subseteq OpenFds
  BY <1>2, <1>3 DEF DescriptorsStayLow
<1>4. ASSUME NEW f \in Fds, AcceptNoSlot(f) PROVE DescriptorsStayLow'
  <2>1. NewFd(f) /\ lost' = lost \cup {f} /\ peer' = [peer EXCEPT ![f] = "open"]
    BY <1>4 DEF AcceptNoSlot, Accepted
  <2>2. OpenFds' \subseteq OpenFds \cup {f} /\ f \notin lost
    BY <2>1, OpenAre DEF OpenFds, NewFd, IInv, DescOK
  <2>3. Cardinality(lost') = l + 1
    BY <1>1, <2>1, <2>2, FS_AddElement
  <2>4. f - ListenFd <= Cardinality(SlotFds) + l
    BY <2>1, NewIsLow
  <2>5. Cardinality(SlotFds) \in Nat /\ Cardinality(SlotFds) <= b
    BY SlotsBound
  <2>6. OpenFds \subseteq Fds
    BY LoopAssumption DEF OpenFds
  <2> HIDE DEF b, l
  <2>7. f < ListenFd + b + (l + 1)
    BY <1>1, <2>4, <2>5
  <2>8. \A g \in OpenFds : g < ListenFd + b + (l + 1)
    BY <1>1, <1>2, <2>6
  <2>9. \A g \in OpenFds' : g < ListenFd + b + Cardinality(lost')
    BY <2>2, <2>3, <2>7, <2>8
  <2> QED
    BY <2>9 DEF DescriptorsStayLow, b
<1>5. ASSUME NEW c \in Conns, NEW f \in Fds, AcceptSlot(c, f) PROVE DescriptorsStayLow'
  <2>1. /\ NewFd(f) /\ lost' = lost /\ peer' = [peer EXCEPT ![f] = "open"]
        /\ slot[c] = "free"
    BY <1>5 DEF AcceptSlot, AcceptNoPool, AcceptCrashes, AcceptOk, Accepted, TakeSlot
  <2>2. OpenFds' \subseteq OpenFds \cup {f}
    BY <2>1 DEF OpenFds, IInv, DescOK
  <2>3. f - ListenFd <= Cardinality(SlotFds) + l
    BY <2>1, NewIsLow
  <2>4. Cardinality(SlotFds) \in Nat /\ Cardinality(SlotFds) < b
    BY <2>1, SlotsBound
  <2> HIDE DEF b, l
  <2>5. f < ListenFd + b + l
    BY <1>1, <2>3, <2>4
  <2> QED
    BY <1>2, <2>1, <2>2, <2>5 DEF DescriptorsStayLow, b, l
<1>6. CASE Work
  <2>1. ASSUME NEW c \in Conns, Handler(c) PROVE lost' = lost /\ OpenFds' \subseteq OpenFds
    <3>1. lost' = lost
      BY <2>1 DEF Handler, ReadAgain, ReadEnds, ReadCloses, ReadSome, ReadCrashes, BlockReading,
                  EventRun
    <3>2. CASE UNCHANGED peer
      BY <3>1, <3>2 DEF OpenFds
    <3>3. CASE peer' = [peer EXCEPT ![fd[c]] = "none"]
      BY <3>1, <3>3 DEF OpenFds, IInv, DescOK
    <3> QED
      BY <2>1, <3>1, <3>2, <3>3
         DEF Handler, ReadAgain, ReadEnds, ReadCloses, ReadSome, ReadCrashes, BlockReading,
             CloseConnection, net
  <2>2. CASE ProcessEvents \/ AcceptFails
    BY <2>2, <1>3 DEF ProcessEvents, AcceptFails, net, OpenFds
  <2> QED
    BY <1>3, <1>4, <1>5, <1>6, <2>1, <2>2 DEF Work
<1>7. CASE ProcessInterrupted
  BY <1>7, <1>3 DEF ProcessInterrupted, net, OpenFds
<1>8. CASE Client
  <2>1. lost' = lost
    BY <1>8 DEF Client, ClientConnect, ClientAbort, ClientSend, ClientShut, ClientReset, daemon
  <2>2. OpenFds' \subseteq OpenFds
    BY <1>8 DEF Client, ClientConnect, ClientAbort, ClientSend, ClientShut, ClientReset,
                OpenFds, IInv, DescOK
  <2> QED
    BY <1>3, <2>1, <2>2
<1>9. CASE UNCHANGED vars
  BY <1>9, <1>3 DEF vars, daemon, net, OpenFds
<1> QED
  BY <1>6, <1>7, <1>8, <1>9 DEF Next

\* While nobody is connected only the listener is open.
LEMMA NobodyIsLow ==
  ASSUME peer = [f \in Fds |-> "none"], lost = {}
  PROVE  DescriptorsStayLow
<1>1. OpenFds = {ListenFd} /\ ListenFd \in Nat
  BY LoopAssumption, FdFacts DEF OpenFds
<1>2. Cardinality(lost) = 0
  BY FS_EmptySet
<1>3. Cardinality(Conns) \in Nat /\ Cardinality(Conns) # 0
  BY SelectAssumption, LoopAssumption, FS_CardinalityType, FS_EmptySet
<1> QED
  BY <1>1, <1>2, <1>3 DEF DescriptorsStayLow

\* A descriptor is above the number of slots only by as many connections as
\* there was no slot for.
THEOREM DescriptorsAlwaysLow == Spec => []DescriptorsStayLow
<1>1. Init => DescriptorsStayLow
  BY NobodyIsLow DEF Init
<1>2. IInv /\ DescriptorsStayLow /\ [Next]_vars => DescriptorsStayLow'
  BY LowStep
<1> QED
  BY <1>1, <1>2, Invariant, PTL DEF Spec

-----------------------------------------------------------------------------
\* When no call fails and there is a slot for every descriptor the process may
\* get, none is lost.
NothingLost == lost = {} /\ \A c \in Conns : slot[c] # "limbo"

\* While no call fails every descriptor of a client finds its slot.
LEMMA LostStep ==
  ASSUME Failing = {}, Cardinality(Fds) <= Cardinality(Conns),
         IInv, NothingLost, [Next]_vars
  PROVE  NothingLost'
<1>1. slot \in [Conns -> Roles]
  BY DEF IInv
<1>2. ASSUME NEW f \in Fds, AcceptNoSlot(f) PROVE FALSE
  <2>1. \A c \in Conns : fd[c] # NoFd
    BY <1>2 DEF AcceptNoSlot, IInv, RolesOK
  <2>2. {c \in Conns : fd[c] # NoFd} = Conns
    BY <2>1
  <2>3. Cardinality(SlotFds) = Cardinality(Conns)
    BY <2>2, HeldCount
  <2>4. SlotFds \in SUBSET Fds /\ f \notin SlotFds
    <3>1. SlotFds \subseteq Fds
      BY DEF SlotFds, IInv, FdMap
    <3>2. f \notin OpenFds
      BY <1>2 DEF AcceptNoSlot, Accepted, NewFd
    <3> QED
      BY <3>1, <3>2, OpenAre
  <2>5. /\ IsFiniteSet(Fds) /\ IsFiniteSet(SlotFds) /\ Cardinality(Fds) \in Nat
        /\ Cardinality(SlotFds) \in Nat
    BY SelectAssumption, HeldCount, FS_CardinalityType
  <2>6. /\ Cardinality(SlotFds) <= Cardinality(Fds)
        /\ Cardinality(Fds) = Cardinality(SlotFds) => Fds = SlotFds
    BY <2>4, <2>5, FS_Subset
  <2> QED
    BY <2>3, <2>4, <2>5, <2>6
<1>3. CASE UNCHANGED <<lost, slot>>
  BY <1>3 DEF NothingLost
<1>4. ASSUME NEW c \in Conns, NEW f \in Fds, AcceptSlot(c, f) PROVE NothingLost'
  BY <1>1, <1>4 DEF AcceptSlot, AcceptNoPool, AcceptCrashes, AcceptOk, TakeSlot, NothingLost
<1>5. ASSUME NEW c \in Conns, Handler(c) PROVE NothingLost'
  <2>1. lost' = lost
    BY <1>5 DEF Handler, ReadAgain, ReadEnds, ReadCloses, ReadSome, ReadCrashes, BlockReading,
                EventRun
  <2>2. slot' = slot \/ \E role \in Served \cup {"free"} : slot' = [slot EXCEPT ![c] = role]
    BY <1>5 DEF Handler, ReadAgain, ReadEnds, ReadCloses, ReadSome, ReadCrashes, BlockReading,
                CloseConnection, After, Served, Reading
  <2> QED
    BY <1>1, <2>1, <2>2 DEF NothingLost, Served, Reading
<1>6. CASE Work
  <2>1. CASE ProcessEvents \/ AcceptFails
    BY <2>1, <1>3 DEF ProcessEvents, AcceptFails
  <2> QED
    BY <1>2, <1>4, <1>5, <1>6, <2>1 DEF Work
<1>7. CASE ProcessInterrupted \/ Client \/ UNCHANGED vars
  BY <1>7, <1>3 DEF ProcessInterrupted, Client, ClientConnect, ClientAbort, ClientSend,
                    ClientShut, ClientReset, daemon, vars
<1> QED
  BY <1>6, <1>7 DEF Next

\* Every open descriptor is held by a slot that answers for it, as long as
\* nothing fails and there are slots enough.
THEOREM NoDescriptorEverLost ==
  ASSUME Failing = {}, Cardinality(Fds) <= Cardinality(Conns)
  PROVE  Spec => []NoDescriptorLost
<1>1. Init => NothingLost
  BY DEF Init, NothingLost
<1>2. IInv /\ NothingLost /\ [Next]_vars => NothingLost'
  BY LostStep
<1>3. IInv /\ NothingLost => NoDescriptorLost
  <2> SUFFICES ASSUME IInv, NothingLost PROVE NoDescriptorLost
    OBVIOUS
  <2>1. peer[ListenFd] = "none" /\ ListenFd \in Fds /\ SlotFds \subseteq Fds
    BY LoopAssumption DEF IInv, DescOK, SlotFds, FdMap
  <2>2. \A f \in Fds \ {ListenFd} : peer[f] # "none" <=> f \in SlotFds
    BY DEF IInv, DescOK, NothingLost
  <2> QED
    BY <2>1, <2>2 DEF NothingLost, NoDescriptorLost
<1> QED
  BY <1>1, <1>2, <1>3, Invariant, PTL DEF Spec
=============================================================================
