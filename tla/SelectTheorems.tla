--------------------------- MODULE SelectTheorems ---------------------------
(***************************************************************************)
(* What every operation of module Select preserves, for any number of      *)
(* slots and descriptors.  The lemmas are about a backend state s and do   *)
(* not depend on who calls the operation.                                  *)
(***************************************************************************)
EXTENDS Select, FiniteSetTheorems, WellFoundedInduction, TLAPS

FdMap == [Conns -> Fds \cup {NoFd}]

\* Descriptors are natural numbers and differ from -1.
LEMMA FdFacts ==
  /\ NoFd \in Int /\ NoFd \notin Fds
  /\ \A f \in Fds : f \in Nat
BY SelectAssumption DEF NoFd

\* An event is the read or the write event of exactly one slot.
LEMMA EventFacts ==
  /\ \A e \in Events : /\ Data(e) \in Conns
                        /\ e = IF IsWrite(e) THEN Write(Data(e)) ELSE Read(Data(e))
  /\ \A c \in Conns : /\ Read(c) \in Events /\ Write(c) \in Events
                       /\ Data(Read(c)) = c /\ Data(Write(c)) = c
                       /\ ~IsWrite(Read(c)) /\ IsWrite(Write(c))
BY DEF Events, Data, IsWrite, Read, Write

\* Capacity is twice the number of slots, and so is the number of events.
LEMMA EventsCount ==
  IsFiniteSet(Events) /\ Cardinality(Events) = Capacity /\ Capacity \in Nat
<1> DEFINE R == {Read(c) : c \in Conns}
           W == {Write(c) : c \in Conns}
           rd == [c \in Conns |-> Read(c)]
           wr == [c \in Conns |-> Write(c)]
<1>1. rd \in Bijection(Conns, R) /\ wr \in Bijection(Conns, W)
  BY DEF Bijection, Injection, Surjection, IsInjective, Read, Write
<1>2. ExistsBijection(Conns, R) /\ ExistsBijection(Conns, W)
  BY <1>1 DEF ExistsBijection
<1>3. IsFiniteSet(Conns) /\ Cardinality(Conns) \in Nat
  BY SelectAssumption, FS_CardinalityType
<1>4. /\ IsFiniteSet(R) /\ Cardinality(R) = Cardinality(Conns)
      /\ IsFiniteSet(W) /\ Cardinality(W) = Cardinality(Conns)
  BY <1>2, <1>3, FS_Bijection
<1>5. Events = R \cup W /\ R \cap W = {}
  BY DEF Events, Read, Write
<1>6. IsFiniteSet(Events) /\ Cardinality(Events) = Cardinality(R) + Cardinality(W)
  <2>1. Cardinality(R \cap W) = 0
    BY <1>5, FS_EmptySet
  <2>2. IsFiniteSet(R \cup W) /\ Cardinality(R \cup W)
          = Cardinality(R) + Cardinality(W) - Cardinality(R \cap W)
    BY <1>4, FS_Union
  <2> QED
    BY <1>3, <1>4, <1>5, <2>1, <2>2
<1> QED
  BY <1>3, <1>4, <1>6 DEF Capacity

\* event_index has room for an event that is not registered: the write
\* event_index[nevents] of xdbd_select_add_event is inside the array.
LEMMA RoomForEvent ==
  ASSUME NEW s, SelectType(s), IndexOK(s),
         NEW e \in Events, ~Registered(s, e)
  PROVE  s.nevents < Capacity
<1> DEFINE n == s.nevents
           f == [i \in 0 .. n - 1 |-> s.event_index[i]]
           T == Events \ {e}
<1>1. n \in Nat /\ n <= Capacity /\ Capacity \in Nat
  BY EventsCount DEF SelectType
<1>2. f \in Injection(0 .. n - 1, T)
  BY <1>1 DEF Injection, IsInjective, IndexOK, Registered, INVALID
<1>3. IsFiniteSet(T) /\ Cardinality(T) = Capacity - 1
  BY EventsCount, FS_RemoveElement
<1>4. Cardinality(0 .. n - 1) = n
  <2>1. 0 \in Int /\ n - 1 \in Int
    BY <1>1
  <2>2. Cardinality(0 .. n - 1) = IF 0 > n - 1 THEN 0 ELSE n - 1 - 0 + 1
    BY <2>1, FS_Interval, Zenon
  <2> QED
    BY <1>1, <2>2
<1>5. Cardinality(0 .. n - 1) <= Cardinality(T)
  BY <1>2, <1>3, FS_Injection
<1> QED
  BY <1>1, <1>3, <1>4, <1>5

-----------------------------------------------------------------------------
\* xdbd_select_init: nothing is registered.
LEMMA InitOK ==
  ASSUME NEW fd \in FdMap
  PROVE  BackendOK(SelectInit, fd)
<1>1. Capacity \in Nat
  BY EventsCount
<1>2. SelectType(SelectInit)
  BY <1>1 DEF SelectType, SelectInit, NoFd, INVALID, Places
<1>3. \A e \in Events : ~Registered(SelectInit, e)
  BY DEF SelectInit, Registered
<1>4. IndexOK(SelectInit)
  <2>1. SelectInit.nevents = 0
    BY DEF SelectInit
  <2> QED
    BY <1>3, <2>1 DEF IndexOK
<1>5. SetsOK(SelectInit, fd)
  BY <1>3 DEF SetsOK, SelectInit, Read, Write, Events
<1> QED
  BY <1>2, <1>3, <1>4, <1>5 DEF BackendOK, OpenOK, MaxOK

\* The descriptor of a slot none of whose events is registered may change.
LEMMA IdleSlotOK ==
  ASSUME NEW s, NEW fd \in FdMap, BackendOK(s, fd),
         NEW c \in Conns, ~Registered(s, Read(c)), ~Registered(s, Write(c)), NEW f
  PROVE  BackendOK(s, [fd EXCEPT ![c] = f])
<1> DEFINE gd == [fd EXCEPT ![c] = f]
<1>1. \A e \in Events : Registered(s, e) => gd[Data(e)] = fd[Data(e)]
  BY EventFacts DEF FdMap
<1> HIDE DEF gd
<1>2. \A d \in Conns : /\ Registered(s, Read(d)) => gd[d] = fd[d]
                       /\ Registered(s, Write(d)) => gd[d] = fd[d]
  BY <1>1, EventFacts
<1>3. SetsOK(s, gd)
  BY <1>2 DEF BackendOK, SetsOK
<1>4. OpenOK(s, gd) /\ MaxOK(s, gd)
  BY <1>1 DEF BackendOK, OpenOK, MaxOK
<1> QED
  BY <1>3, <1>4 DEF BackendOK, gd

\* Taking a slot from the free list touches only events that are not
\* registered, so the place of no other event is lost.
LEMMA ResetOK ==
  ASSUME NEW s, NEW fd \in FdMap, BackendOK(s, fd),
         NEW c \in Conns, fd[c] = NoFd, NEW f \in Fds
  PROVE  BackendOK(ResetEvents(s, c), [fd EXCEPT ![c] = f])
<1> DEFINE t == ResetEvents(s, c)
<1>1. \A e \in Events : Data(e) = c => s.index[e] = INVALID
  BY DEF BackendOK, OpenOK, Registered
<1>2. t.index = s.index
  BY <1>1 DEF ResetEvents, BackendOK, SelectType
<1>3. /\ t.event_index = s.event_index /\ t.nevents = s.nevents
      /\ t.read_set = s.read_set /\ t.write_set = s.write_set
      /\ t.max_fd = s.max_fd
      /\ t.active = [e \in Events |-> IF Data(e) = c THEN FALSE ELSE s.active[e]]
  BY DEF ResetEvents, BackendOK, SelectType
<1>4. SelectType(t)
  BY <1>2, <1>3 DEF ResetEvents, BackendOK, SelectType
<1> HIDE DEF t
<1>5. \A e \in Events : /\ Registered(t, e) <=> Registered(s, e)
                        /\ Registered(t, e) => t.active[e] = s.active[e]
  BY <1>1, <1>2, <1>3 DEF Registered
<1>6. IndexOK(t) /\ OpenOK(t, fd) /\ MaxOK(t, fd)
  <2>1. IndexOK(t)
    BY <1>2, <1>3, <1>5 DEF BackendOK, IndexOK
  <2> QED
    BY <1>3, <1>5, <2>1 DEF BackendOK, OpenOK, MaxOK
<1>7. SetsOK(t, fd)
  BY <1>3, <1>5, EventFacts DEF BackendOK, SetsOK
<1>8. ~Registered(t, Read(c)) /\ ~Registered(t, Write(c))
  BY <1>1, <1>2, EventFacts DEF Registered
<1>9. BackendOK(t, fd)
  BY <1>4, <1>6, <1>7 DEF BackendOK
<1> QED
  BY <1>8, <1>9, IdleSlotOK DEF t

\* What the registered events are after xdbd_select_add_event.
LEMMA AddOK ==
  ASSUME NEW s, NEW fd \in FdMap, BackendOK(s, fd),
         NEW e \in Events, fd[Data(e)] # NoFd
  PROVE  BackendOK(AddEvent(s, e, fd[Data(e)]), fd)
<1> DEFINE f == fd[Data(e)]
           t == AddEvent(s, e, f)
<1>0. CASE Registered(s, e)
  BY <1>0 DEF AddEvent
<1>1. SUFFICES ASSUME ~Registered(s, e) PROVE BackendOK(t, fd)
  BY <1>0
<1>2. s.nevents \in Places /\ s.nevents \in Nat /\ Capacity \in Nat
  BY <1>1, RoomForEvent, EventsCount DEF BackendOK, SelectType, Places
<1>3. f \in Fds /\ f # NoFd /\ f \in Nat
  BY FdFacts, EventFacts DEF FdMap
<1>4. /\ t.read_set  = IF IsWrite(e) THEN s.read_set ELSE s.read_set \cup {f}
      /\ t.write_set = IF IsWrite(e) THEN s.write_set \cup {f} ELSE s.write_set
      /\ t.max_fd    = IF s.max_fd # NoFd /\ s.max_fd < f THEN f ELSE s.max_fd
      /\ t.active    = [s.active EXCEPT ![e] = TRUE]
      /\ t.event_index = [s.event_index EXCEPT ![s.nevents] = e]
      /\ t.index     = [s.index EXCEPT ![e] = s.nevents]
      /\ t.nevents   = s.nevents + 1
  BY <1>1 DEF AddEvent, BackendOK, SelectType
<1>5. SelectType(t)
  <2>1. t = [ read_set |-> t.read_set, write_set |-> t.write_set,
              event_index |-> t.event_index, nevents |-> t.nevents,
              max_fd |-> t.max_fd, index |-> t.index, active |-> t.active ]
    BY <1>1 DEF AddEvent, BackendOK, SelectType
  <2>2. /\ t.read_set \in SUBSET Fds /\ t.write_set \in SUBSET Fds
        /\ t.max_fd \in Fds \cup {NoFd} /\ t.nevents \in 0 .. Capacity
    BY <1>2, <1>3, <1>4 DEF BackendOK, SelectType, Places
  <2>3. /\ t.event_index \in [Places -> Events \cup {NoEvent}]
        /\ t.index \in [Events -> Places \cup {INVALID}]
        /\ t.active \in [Events -> BOOLEAN]
    BY <1>2, <1>4 DEF BackendOK, SelectType
  <2> HIDE DEF t
  <2> QED
    BY <2>1, <2>2, <2>3 DEF SelectType
<1> HIDE DEF t
<1>6. /\ s.index \in [Events -> Places \cup {INVALID}]
      /\ s.event_index \in [Places -> Events \cup {NoEvent}]
      /\ s.active \in [Events -> BOOLEAN]
      /\ s.max_fd \in Int
  BY FdFacts DEF BackendOK, SelectType
<1>7. \A g \in Events : Registered(t, g) <=> Registered(s, g) \/ g = e
  BY <1>2, <1>4, <1>6 DEF Registered, INVALID
<1>8. IndexOK(t)
  <2>1. \A i \in 0 .. s.nevents - 1 : i \in Places /\ i # s.nevents
    BY <1>2 DEF Places
  <2>2. ASSUME NEW i \in 0 .. t.nevents - 1
        PROVE  t.event_index[i] \in Events /\ t.index[t.event_index[i]] = i
    <3>1. CASE i = s.nevents
      BY <1>2, <1>4, <1>6, <3>1
    <3>2. CASE i # s.nevents
      <4>1. i \in 0 .. s.nevents - 1
        BY <1>2, <1>4, <3>2
      <4>2. s.event_index[i] # e
        BY <1>1, <4>1 DEF BackendOK, IndexOK, Registered, INVALID
      <4> QED
        BY <1>2, <1>4, <1>6, <2>1, <4>1, <4>2 DEF BackendOK, IndexOK
    <3> QED
      BY <3>1, <3>2
  <2>3. ASSUME NEW g \in Events, Registered(t, g)
        PROVE  t.index[g] \in 0 .. t.nevents - 1 /\ t.event_index[t.index[g]] = g
    <3>1. CASE g = e
      BY <1>2, <1>4, <1>6, <3>1
    <3>2. CASE g # e
      <4>1. Registered(s, g)
        BY <1>7, <2>3, <3>2
      <4>2. s.index[g] \in 0 .. s.nevents - 1 /\ s.event_index[s.index[g]] = g
        BY <4>1 DEF BackendOK, IndexOK
      <4> QED
        BY <1>2, <1>4, <1>6, <2>1, <3>2, <4>2
    <3> QED
      BY <3>1, <3>2
  <2> QED
    BY <2>2, <2>3 DEF IndexOK
<1>9. SetsOK(t, fd)
  <2>1. \A d \in Conns : Read(d) \in Events /\ Write(d) \in Events
    BY DEF Read, Write, Events
  <2>2. CASE IsWrite(e)
    <3>1. e = Write(Data(e)) /\ Data(e) \in Conns /\ \A d \in Conns : e # Read(d)
      BY <2>2 DEF IsWrite, Write, Read, Data, Events
    <3>2. \A d \in Conns : Registered(t, Read(d)) <=> Registered(s, Read(d))
      BY <1>7, <2>1, <3>1
    <3>3. \A d \in Conns : Registered(t, Write(d)) <=> Registered(s, Write(d)) \/ d = Data(e)
      BY <1>7, <2>1, <3>1, EventFacts
    <3> QED
      BY <1>4, <2>2, <3>1, <3>2, <3>3 DEF BackendOK, SetsOK
  <2>3. CASE ~IsWrite(e)
    <3>1. e = Read(Data(e)) /\ Data(e) \in Conns /\ \A d \in Conns : e # Write(d)
      BY <2>3 DEF IsWrite, Write, Read, Data, Events
    <3>2. \A d \in Conns : Registered(t, Write(d)) <=> Registered(s, Write(d))
      BY <1>7, <2>1, <3>1
    <3>3. \A d \in Conns : Registered(t, Read(d)) <=> Registered(s, Read(d)) \/ d = Data(e)
      BY <1>7, <2>1, <3>1, EventFacts
    <3> QED
      BY <1>4, <2>3, <3>1, <3>2, <3>3 DEF BackendOK, SetsOK
  <2> QED
    BY <2>2, <2>3
<1>10. OpenOK(t, fd)
  BY <1>3, <1>4, <1>6, <1>7 DEF BackendOK, OpenOK
<1>11. MaxOK(t, fd)
  <2>1. \A g \in Events : fd[Data(g)] \in Int
    BY FdFacts, EventFacts DEF FdMap
  <2> QED
    BY <1>3, <1>4, <1>6, <1>7, <2>1 DEF BackendOK, MaxOK, NoFd
<1> QED
  BY <1>5, <1>8, <1>9, <1>10, <1>11 DEF BackendOK

\* xdbd_select_del_event takes out exactly the event it is called with,
\* wherever the last event of the array moves.
LEMMA DelOK ==
  ASSUME NEW s, NEW fd \in FdMap, BackendOK(s, fd), DistinctOpen(fd),
         NEW e \in Events
  PROVE  LET t == DelEvent(s, e, fd[Data(e)])
         IN  /\ BackendOK(t, fd)
             /\ \A g \in Events : Registered(t, g) <=> Registered(s, g) /\ g # e
<1> DEFINE f == fd[Data(e)]
           t == DelEvent(s, e, f)
           last  == s.nevents - 1
           moved == s.event_index[last]
           hole  == s.index[e]
           Goal  == /\ BackendOK(t, fd)
                    /\ \A g \in Events : Registered(t, g) <=> Registered(s, g) /\ g # e
<1>0. CASE ~Registered(s, e)
  BY <1>0 DEF DelEvent
<1>1. SUFFICES ASSUME Registered(s, e) PROVE Goal
  BY <1>0
<1>2. /\ s.nevents \in Nat /\ last \in Nat /\ last \in Places /\ last < Capacity
      /\ hole \in 0 .. last /\ hole \in Places
      /\ s.event_index[hole] = e
      /\ moved \in Events /\ s.index[moved] = last
  <2>1. s.nevents \in 0 .. Capacity /\ Capacity \in Nat
    BY EventsCount DEF BackendOK, SelectType
  <2>2. hole \in 0 .. s.nevents - 1 /\ s.event_index[hole] = e
    BY <1>1 DEF BackendOK, IndexOK
  <2>3. last \in 0 .. s.nevents - 1
    BY <2>1, <2>2
  <2>4. moved \in Events /\ s.index[moved] = last
    BY <2>3 DEF BackendOK, IndexOK
  <2> QED
    BY <2>1, <2>2, <2>3, <2>4 DEF Places
<1>3. f \in Fds /\ f # NoFd
  BY <1>1, EventFacts DEF FdMap, BackendOK, OpenOK
<1>4. /\ t.read_set  = IF IsWrite(e) THEN s.read_set ELSE s.read_set \ {f}
      /\ t.write_set = IF IsWrite(e) THEN s.write_set \ {f} ELSE s.write_set
      /\ t.max_fd    = IF s.max_fd = f THEN NoFd ELSE s.max_fd
      /\ t.active    = s.active
      /\ t.event_index = IF hole < last THEN [s.event_index EXCEPT ![hole] = moved]
                                        ELSE s.event_index
      /\ t.index     = IF hole < last
                         THEN [s.index EXCEPT ![moved] = hole, ![e] = INVALID]
                         ELSE [s.index EXCEPT ![e] = INVALID]
      /\ t.nevents   = last
  BY <1>1 DEF DelEvent, BackendOK, SelectType
<1>5. SelectType(t)
  <2>1. t = [ read_set |-> t.read_set, write_set |-> t.write_set,
              event_index |-> t.event_index, nevents |-> t.nevents,
              max_fd |-> t.max_fd, index |-> t.index, active |-> t.active ]
    BY <1>1 DEF DelEvent, BackendOK, SelectType
  <2>2. /\ t.read_set \in SUBSET Fds /\ t.write_set \in SUBSET Fds
        /\ t.max_fd \in Fds \cup {NoFd} /\ t.nevents \in 0 .. Capacity
    BY <1>2, <1>4, EventsCount DEF BackendOK, SelectType
  <2>3. /\ t.event_index \in [Places -> Events \cup {NoEvent}]
        /\ t.index \in [Events -> Places \cup {INVALID}]
        /\ t.active \in [Events -> BOOLEAN]
    BY <1>2, <1>4 DEF BackendOK, SelectType
  <2> HIDE DEF t
  <2> QED
    BY <2>1, <2>2, <2>3 DEF SelectType
<1> HIDE DEF t, f
<1>6. /\ s.index \in [Events -> Places \cup {INVALID}]
      /\ s.event_index \in [Places -> Events \cup {NoEvent}]
  BY DEF BackendOK, SelectType
<1>7. \A i \in 0 .. last : i \in Places
  BY <1>2, EventsCount DEF Places
<1>8. \A g \in Events : Registered(t, g) <=> Registered(s, g) /\ g # e
  BY <1>2, <1>4, <1>6 DEF Registered, INVALID
<1>9. IndexOK(t)
  <2>1. ASSUME NEW i \in 0 .. t.nevents - 1
        PROVE  t.event_index[i] \in Events /\ t.index[t.event_index[i]] = i
    <3>1. i \in 0 .. last /\ i # last /\ i \in Places
      BY <1>2, <1>4, <1>7
    <3>2. s.event_index[i] \in Events /\ s.index[s.event_index[i]] = i
      BY <1>2, <3>1 DEF BackendOK, IndexOK
    <3>3. CASE i = hole
      BY <1>2, <1>4, <1>6, <3>1, <3>3
    <3>4. CASE i # hole
      BY <1>2, <1>4, <1>6, <3>1, <3>2, <3>4
    <3> QED
      BY <3>3, <3>4
  <2>2. ASSUME NEW g \in Events, Registered(t, g)
        PROVE  t.index[g] \in 0 .. t.nevents - 1 /\ t.event_index[t.index[g]] = g
    <3>1. Registered(s, g) /\ g # e
      BY <1>8, <2>2
    <3>2. s.index[g] \in 0 .. last /\ s.event_index[s.index[g]] = g /\ s.index[g] # hole
      BY <1>2, <3>1 DEF BackendOK, IndexOK
    <3>3. CASE hole < last /\ g = moved
      BY <1>2, <1>4, <1>6, <1>7, <3>1, <3>3
    <3>4. CASE hole < last /\ g # moved
      BY <1>2, <1>4, <1>6, <1>7, <3>1, <3>2, <3>4
    <3>5. CASE ~(hole < last)
      BY <1>2, <1>4, <1>6, <1>7, <3>1, <3>2, <3>5
    <3> QED
      BY <3>3, <3>4, <3>5
  <2> QED
    BY <2>1, <2>2 DEF IndexOK
<1>10. SetsOK(t, fd)
  <2>1. \A d \in Conns : (Registered(s, Read(d)) \/ Registered(s, Write(d)))
                            => (fd[d] = f <=> d = Data(e))
    BY <1>3, EventFacts DEF DistinctOpen, BackendOK, OpenOK, f
  <2>2. CASE IsWrite(e)
    <3>1. \A d \in Conns : /\ Registered(t, Read(d)) <=> Registered(s, Read(d))
                           /\ Registered(t, Write(d)) <=> Registered(s, Write(d)) /\ d # Data(e)
      BY <1>8, <2>2, EventFacts
    <3> QED
      BY <1>4, <2>1, <2>2, <3>1 DEF BackendOK, SetsOK
  <2>3. CASE ~IsWrite(e)
    <3>1. \A d \in Conns : /\ Registered(t, Write(d)) <=> Registered(s, Write(d))
                           /\ Registered(t, Read(d)) <=> Registered(s, Read(d)) /\ d # Data(e)
      BY <1>8, <2>3, EventFacts
    <3> QED
      BY <1>4, <2>1, <2>3, <3>1 DEF BackendOK, SetsOK
  <2> QED
    BY <2>2, <2>3
<1>11. OpenOK(t, fd) /\ MaxOK(t, fd)
  BY <1>4, <1>8 DEF BackendOK, OpenOK, MaxOK
<1> QED
  BY <1>5, <1>8, <1>9, <1>10, <1>11 DEF BackendOK, f, t

\* Nothing registered is inactive, so deleting by the active flag is enough.
LEMMA DelIfActiveOK ==
  ASSUME NEW s, NEW fd \in FdMap, BackendOK(s, fd), DistinctOpen(fd),
         NEW e \in Events
  PROVE  LET t == DelIfActive(s, e, fd[Data(e)])
         IN  /\ BackendOK(t, fd)
             /\ \A g \in Events : Registered(t, g) <=> Registered(s, g) /\ g # e
<1>1. CASE s.active[e]
  BY <1>1, DelOK DEF DelIfActive
<1>2. CASE ~s.active[e]
  BY <1>2 DEF DelIfActive, BackendOK, OpenOK
<1> QED
  BY <1>1, <1>2

\* Closing a connection takes both its events out before the descriptor goes.
LEMMA CloseOK ==
  ASSUME NEW s, NEW fd \in FdMap, BackendOK(s, fd), DistinctOpen(fd),
         NEW c \in Conns
  PROVE  LET t == DelConnection(s, c, fd[c])
         IN  /\ BackendOK(t, [fd EXCEPT ![c] = NoFd])
             /\ \A g \in Events : Registered(t, g) <=> Registered(s, g) /\ Data(g) # c
<1> DEFINE u == DelIfActive(s, Read(c), fd[c])
           t == DelIfActive(u, Write(c), fd[c])
<1>1. Read(c) \in Events /\ Write(c) \in Events /\ Data(Read(c)) = c /\ Data(Write(c)) = c
  BY EventFacts
<1>2. /\ BackendOK(u, fd)
      /\ \A g \in Events : Registered(u, g) <=> Registered(s, g) /\ g # Read(c)
  BY <1>1, DelIfActiveOK
<1> HIDE DEF u
<1>3. /\ BackendOK(t, fd)
      /\ \A g \in Events : Registered(t, g) <=> Registered(u, g) /\ g # Write(c)
  BY <1>1, <1>2, DelIfActiveOK
<1> HIDE DEF t
<1>4. \A g \in Events : Registered(t, g) <=> Registered(s, g) /\ Data(g) # c
  BY <1>2, <1>3, EventFacts
<1>5. BackendOK(t, [fd EXCEPT ![c] = NoFd])
  BY <1>1, <1>3, <1>4, IdleSlotOK
<1> QED
  BY <1>4, <1>5 DEF DelConnection, t, u

-----------------------------------------------------------------------------
\* A finite set of natural numbers has an upper bound: a smallest subset
\* without one would lose that property with any of its elements.
LEMMA FiniteIsBounded ==
  ASSUME NEW S, IsFiniteSet(S), S \subseteq Nat
  PROVE  \E b \in Nat : \A x \in S : x <= b
<1> DEFINE Bounded(T) == \E b \in Nat : \A x \in T : x <= b
           Bad == {T \in SUBSET S : ~Bounded(T)}
<1>1. SUFFICES ASSUME Bad # {} PROVE FALSE
  OBVIOUS
<1>2. PICK T \in Bad : \A U \in Bad : <<U, T>> \notin StrictSubsetOrdering(S)
  <2>1. Bad \subseteq FiniteSubsetsOf(S)
    BY FS_FiniteSubsetsOfFinite
  <2> HIDE DEF Bad
  <2> QED
    BY <1>1, <2>1, FS_StrictSubsetOrderingWellFounded, WFMin
<1>3. \A U \in Bad : ~(U \subseteq T /\ U # T)
  BY <1>2 DEF StrictSubsetOrdering
<1>4. PICK x \in T : x \in Nat
  <2>1. T # {}
    BY DEF Bad
  <2> QED
    BY <2>1
<1>5. Bounded(T \ {x})
  <2>1. T \ {x} \in SUBSET S /\ T \ {x} \subseteq T /\ T \ {x} # T
    OBVIOUS
  <2>2. T \ {x} \notin Bad
    BY <1>3, <2>1, Zenon
  <2> QED
    BY <2>1, <2>2
<1>6. PICK b \in Nat : \A y \in T \ {x} : y <= b
  BY <1>5
<1>7. CASE x <= b
  BY <1>6, <1>7
<1>8. CASE ~(x <= b)
  BY <1>4, <1>6, <1>8
<1> QED
  BY <1>7, <1>8

\* The loop that computes max_fd again finds a descriptor that is watched and
\* that no watched one exceeds, or -1 when none is.
LEMMA MaxFdOK ==
  ASSUME NEW s, NEW fd \in FdMap, BackendOK(s, fd)
  PROVE  /\ MaxFd(s, fd) \in Fds \cup {NoFd}
         /\ \A e \in Events : Registered(s, e) => fd[Data(e)] <= MaxFd(s, fd)
<1> DEFINE watched == {fd[Data(s.event_index[i])] : i \in 0 .. s.nevents - 1}
           bounds  == {n \in Nat : \A f \in watched : f <= n}
           Max(m)  == m \in watched \cup {NoFd} /\ \A f \in watched : f <= m
<1>1. watched \subseteq Fds
  <2>1. \A i \in 0 .. s.nevents - 1 : /\ s.event_index[i] \in Events
                                      /\ Registered(s, s.event_index[i])
    BY DEF BackendOK, IndexOK, Registered, INVALID
  <2> QED
    BY <2>1, EventFacts DEF BackendOK, OpenOK, FdMap
<1>2. \A e \in Events : Registered(s, e) => fd[Data(e)] \in watched
  BY DEF BackendOK, IndexOK
<1> HIDE DEF watched
<1>3. PICK b \in Nat : \A f \in Fds : f <= b
  BY SelectAssumption, FiniteIsBounded
<1>4. bounds \subseteq Nat /\ bounds # {}
  BY <1>1, <1>3
<1>5. PICK m \in bounds : \A n \in bounds : ~ (n < m)
  <2>1. PICK x \in bounds : \A y \in bounds : <<y, x>> \notin OpToRel(<, Nat)
    BY <1>4, NatLessThanWellFounded, WFMin
  <2>2. \A y \in bounds : ~ (y < x)
    BY <1>4, <2>1 DEF OpToRel
  <2> QED
    BY <2>2
<1>6. \E x : Max(x)
  <2>1. CASE watched = {}
    BY <2>1
  <2>2. CASE watched # {}
    <3>1. m \in watched
      <4>1. SUFFICES ASSUME m \notin watched PROVE FALSE
        OBVIOUS
      <4>2. \A f \in watched : f \in Nat /\ f < m
        BY <1>1, <4>1, FdFacts
      <4>3. m - 1 \in bounds
        BY <2>2, <4>2
      <4> QED
        BY <1>5, <4>3
    <3> QED
      BY <3>1
  <2> QED
    BY <2>1, <2>2
<1>7. MaxFd(s, fd) = CHOOSE x \in watched \cup {NoFd} : \A f \in watched : f <= x
  BY DEF MaxFd, watched
<1>8. Max(MaxFd(s, fd))
  BY <1>6, <1>7
<1> QED
  BY <1>1, <1>2, <1>8

\* Computing the maximum changes nothing else, and the result covers what is watched.
LEMMA RefreshedOK ==
  ASSUME NEW s, NEW fd \in FdMap, BackendOK(s, fd)
  PROVE  BackendOK(Refreshed(s, fd), fd)
<1>1. CASE s.max_fd # NoFd
  BY <1>1 DEF Refreshed
<1>2. CASE s.max_fd = NoFd
  <2> DEFINE t == [s EXCEPT !.max_fd = MaxFd(s, fd)]
  <2>1. SelectType(t) /\ MaxOK(t, fd)
    BY MaxFdOK DEF BackendOK, SelectType, MaxOK, Registered
  <2>2. IndexOK(t)
    BY DEF BackendOK, SelectType, IndexOK, Registered
  <2>3. SetsOK(t, fd) /\ OpenOK(t, fd)
    BY DEF BackendOK, SelectType, SetsOK, OpenOK, Registered
  <2> QED
    BY <1>2, <2>1, <2>2, <2>3 DEF Refreshed, BackendOK
<1> QED
  BY <1>1, <1>2

\* xdbd_select_repair_fd_sets drops nothing when the watched descriptors are
\* open; it only forgets max_fd.
LEMMA RepairedOK ==
  ASSUME NEW s, NEW fd \in FdMap, BackendOK(s, fd),
         NEW open, \A c \in Conns : fd[c] # NoFd => fd[c] \in open
  PROVE  BackendOK(Repaired(s, open), fd)
<1> DEFINE t == [s EXCEPT !.max_fd = NoFd]
<1>1. s.read_set \subseteq open /\ s.write_set \subseteq open
  BY EventFacts DEF BackendOK, SetsOK, OpenOK
<1>2. Repaired(s, open) = t
  BY <1>1 DEF Repaired, BackendOK, SelectType
<1>3. SelectType(t) /\ MaxOK(t, fd)
  BY DEF BackendOK, SelectType, MaxOK
<1>4. IndexOK(t)
  BY DEF BackendOK, SelectType, IndexOK, Registered
<1>5. SetsOK(t, fd) /\ OpenOK(t, fd)
  BY DEF BackendOK, SelectType, SetsOK, OpenOK, Registered
<1> QED
  BY <1>2, <1>3, <1>4, <1>5 DEF BackendOK

\* Neither does the scan harm the backend: it repairs the sets or leaves it alone.
LEMMA ScannedOK ==
  ASSUME NEW s, NEW fd \in FdMap, BackendOK(s, fd),
         NEW open, \A c \in Conns : fd[c] # NoFd => fd[c] \in open,
         NEW r, NEW w
  PROVE  BackendOK(Scanned(s, fd, r, w, open), fd)
BY RepairedOK DEF Scanned

\* Every reported bit belongs to exactly one registered event of the scan, so
\* "ready != nready" never holds.
LEMMA FoundCount ==
  ASSUME NEW s, NEW fd \in FdMap, BackendOK(s, fd), DistinctOpen(fd)
  PROVE  CountOK(s, fd)
<1> SUFFICES ASSUME NEW r \in SUBSET s.read_set, NEW w \in SUBSET s.write_set
             PROVE  Cardinality(Found(s, fd, r, w)) = Cardinality(r) + Cardinality(w)
  BY DEF CountOK
<1> DEFINE F  == Found(s, fd, r, w)
           FR == {e \in F : ~IsWrite(e)}
           FW == {e \in F : IsWrite(e)}
           toR == [e \in FR |-> fd[Data(e)]]
           toW == [e \in FW |-> fd[Data(e)]]
<1>1. \A e : e \in F <=> /\ e \in Events /\ Registered(s, e)
                         /\ fd[Data(e)] \in (IF IsWrite(e) THEN w ELSE r)
  <2>1. \A i \in 0 .. s.nevents - 1 : /\ s.event_index[i] \in Events
                                      /\ Registered(s, s.event_index[i])
    BY DEF BackendOK, IndexOK, Registered, INVALID
  <2>2. \A e \in Events : Registered(s, e) =>
           \E i \in 0 .. s.nevents - 1 : s.event_index[i] = e
    BY DEF BackendOK, IndexOK
  <2> QED
    BY <2>1, <2>2 DEF Found
<1> HIDE DEF F
<1>2. \A d, e \in F : fd[Data(d)] = fd[Data(e)] => Data(d) = Data(e)
  BY <1>1, EventFacts DEF BackendOK, OpenOK, DistinctOpen
<1>3. \A f \in r : \E e \in FR : fd[Data(e)] = f
  <2> SUFFICES ASSUME NEW f \in r PROVE \E e \in FR : fd[Data(e)] = f
    OBVIOUS
  <2>1. PICK c \in Conns : Registered(s, Read(c)) /\ fd[c] = f
    BY DEF BackendOK, SetsOK
  <2>2. Read(c) \in FR /\ fd[Data(Read(c))] = f
    BY <1>1, <2>1, EventFacts
  <2> QED
    BY <2>2
<1>4. \A f \in w : \E e \in FW : fd[Data(e)] = f
  <2> SUFFICES ASSUME NEW f \in w PROVE \E e \in FW : fd[Data(e)] = f
    OBVIOUS
  <2>1. PICK c \in Conns : Registered(s, Write(c)) /\ fd[c] = f
    BY DEF BackendOK, SetsOK
  <2>2. Write(c) \in FW /\ fd[Data(Write(c))] = f
    BY <1>1, <2>1, EventFacts
  <2> QED
    BY <2>2
<1>5. toR \in Bijection(FR, r)
  <2>1. \A e \in FR : fd[Data(e)] \in r
    BY <1>1
  <2>2. \A d, e \in FR : fd[Data(d)] = fd[Data(e)] => d = e
    BY <1>1, <1>2, EventFacts
  <2> HIDE DEF FR
  <2> QED
    BY <1>3, <2>1, <2>2 DEF Bijection, Injection, Surjection, IsInjective
<1>6. toW \in Bijection(FW, w)
  <2>1. \A e \in FW : fd[Data(e)] \in w
    BY <1>1
  <2>2. \A d, e \in FW : fd[Data(d)] = fd[Data(e)] => d = e
    BY <1>1, <1>2, EventFacts
  <2> HIDE DEF FW
  <2> QED
    BY <1>4, <2>1, <2>2 DEF Bijection, Injection, Surjection, IsInjective
<1>7. IsFiniteSet(FR) /\ IsFiniteSet(FW)
  <2>1. FR \in SUBSET Events /\ FW \in SUBSET Events
    BY <1>1
  <2> HIDE DEF FR, FW
  <2> QED
    BY <2>1, EventsCount, FS_Subset
<1>8. Cardinality(r) = Cardinality(FR) /\ Cardinality(w) = Cardinality(FW)
  <2> HIDE DEF FR, FW, toR, toW
  <2>1. ExistsBijection(FR, r) /\ ExistsBijection(FW, w)
    BY <1>5, <1>6 DEF ExistsBijection
  <2> QED
    BY <1>7, <2>1, FS_Bijection
<1>9. Cardinality(F) = Cardinality(FR) + Cardinality(FW)
  <2>1. F = FR \cup FW /\ FR \cap FW = {}
    OBVIOUS
  <2> HIDE DEF FR, FW
  <2>2. Cardinality(FR \cap FW) = 0
    BY <2>1, FS_EmptySet
  <2>3. Cardinality(FR) \in Nat /\ Cardinality(FW) \in Nat
    BY <1>7, FS_CardinalityType
  <2>4. Cardinality(FR \cup FW)
          = Cardinality(FR) + Cardinality(FW) - Cardinality(FR \cap FW)
    BY <1>7, FS_Union
  <2> QED
    BY <2>1, <2>2, <2>3, <2>4
<1> QED
  BY <1>8, <1>9 DEF F
=============================================================================
