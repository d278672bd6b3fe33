------------------------ MODULE SelectBackendProofs ------------------------
(***************************************************************************)
(* The safety properties of SelectBackend for any number of slots and any  *)
(* finite set of descriptors.  The operations are treated in               *)
(* SelectTheorems; here each action is reduced to the operation it calls.  *)
(***************************************************************************)
EXTENDS SelectBackend, SelectTheorems

\* The inductive invariant.  The properties need each other: the fd_sets are
\* right because no descriptor has two slots and because an event's place is
\* right, closing by the active flag is right because nothing registered is
\* inactive.
IInv ==
  /\ fd \in FdMap
  /\ ready \in [Events -> BOOLEAN]
  /\ BackendOK(sel, fd)
  /\ DistinctOpen(fd)

\* A backend in which nothing is registered is consistent.
LEMMA InitInv == Init => IInv
<1> SUFFICES ASSUME Init PROVE IInv
  OBVIOUS
<1>1. fd \in FdMap /\ ready \in [Events -> BOOLEAN] /\ DistinctOpen(fd)
  BY DEF Init, FdMap, DistinctOpen
<1> QED
  BY <1>1, InitOK DEF Init, IInv

\* Every call of a well-behaved caller keeps it so.
LEMMA StepInv == IInv /\ [Next]_vars => IInv'
<1> SUFFICES ASSUME IInv, [Next]_vars PROVE IInv'
  OBVIOUS
<1> USE DEF IInv
<1>1. ASSUME NEW c \in Conns, NEW f \in Fds, GetConnection(c, f) PROVE IInv'
  <2>1. fd[c] = NoFd /\ f \notin OpenFds /\ fd' = [fd EXCEPT ![c] = f]
    BY <1>1 DEF GetConnection
  <2>2. fd' \in FdMap
    BY <2>1 DEF FdMap
  <2>3. ready' \in [Events -> BOOLEAN]
    BY <1>1 DEF GetConnection
  <2>4. BackendOK(sel', fd')
    <3>1. BackendOK(ResetEvents(sel, c), [fd EXCEPT ![c] = f])
      BY <2>1, ResetOK
    <3> QED
      BY <1>1, <2>1, <3>1 DEF GetConnection
  <2>5. DistinctOpen(fd')
    BY <2>1 DEF DistinctOpen, FdMap, OpenFds
  <2> QED
    BY <2>2, <2>3, <2>4, <2>5
<1>2. ASSUME NEW c \in Conns, HandleReadEvent(c) PROVE IInv'
  <2>1. BackendOK(sel', fd)
    BY <1>2, AddOK, EventFacts DEF HandleReadEvent
  <2> QED
    BY <1>2, <2>1 DEF HandleReadEvent
<1>3. ASSUME NEW c \in Conns, HandleWriteEvent(c) PROVE IInv'
  <2>1. BackendOK(sel', fd)
    BY <1>3, AddOK, DelOK, EventFacts DEF HandleWriteEvent
  <2> QED
    BY <1>3, <2>1 DEF HandleWriteEvent
<1>4. ASSUME NEW c \in Conns, BlockReading(c) PROVE IInv'
  <2>1. BackendOK(sel', fd)
    BY <1>4, DelOK, EventFacts DEF BlockReading
  <2> QED
    BY <1>4, <2>1 DEF BlockReading
<1>5. ASSUME NEW c \in Conns, CloseConnection(c) PROVE IInv'
  <2>1. fd' \in FdMap /\ DistinctOpen(fd')
    BY <1>5 DEF CloseConnection, FdMap, DistinctOpen
  <2>2. BackendOK(sel', fd')
    BY <1>5, CloseOK DEF CloseConnection
  <2> QED
    BY <1>5, <2>1, <2>2 DEF CloseConnection
<1>6. ASSUME NEW e \in Events, WouldBlock(e) PROVE IInv'
  BY <1>6 DEF WouldBlock
<1>7. ASSUME ProcessEvents PROVE IInv'
  <2> DEFINE s == Refreshed(sel, fd)
  <2>1. BackendOK(s, fd)
    BY RefreshedOK
  <2>2. \A c \in Conns : fd[c] # NoFd => fd[c] \in OpenFds
    BY DEF OpenFds
  <2>3. PICK r, w : sel' = IF AsksForClosed(s, OpenFds) THEN Repaired(s, OpenFds)
                           ELSE Scanned(s, fd, r, w, OpenFds)
    BY <1>7 DEF ProcessEvents
  <2> HIDE DEF s
  <2>4. BackendOK(sel', fd)
    BY <2>1, <2>2, <2>3, RepairedOK, ScannedOK
  <2>5. fd' = fd /\ ready' \in [Events -> BOOLEAN]
    BY <1>7 DEF ProcessEvents
  <2> QED
    BY <2>4, <2>5
<1>8. ASSUME ProcessInterrupted PROVE IInv'
  BY <1>8, RefreshedOK DEF ProcessInterrupted
<1>9. CASE UNCHANGED vars
  BY <1>9 DEF vars
<1> QED
  BY <1>1, <1>2, <1>3, <1>4, <1>5, <1>6, <1>7, <1>8, <1>9 DEF Next

\* The invariant holds of every state the backend can reach.
THEOREM Invariant == Spec => []IInv
BY InitInv, StepInv, PTL DEF Spec

\* Every state is well formed; in particular nevents never exceeds the
\* length of event_index.
THEOREM TypeCorrect == Spec => []TypeOK
<1>1. IInv => TypeOK
  BY DEF IInv, TypeOK, BackendOK, FdMap
<1> QED
  BY <1>1, Invariant, PTL

\* The array and the places the events remember stay inverse to each other.
THEOREM IndexAlwaysConsistent == Spec => []IndexConsistent
<1>1. IInv => IndexConsistent
  BY DEF IInv, IndexConsistent, BackendOK
<1> QED
  BY <1>1, Invariant, PTL

\* The fd_sets hold the descriptors of the registered events and no other.
THEOREM SetsAlwaysMatch == Spec => []SetsMatchIndex
<1>1. IInv => SetsMatchIndex
  BY DEF IInv, SetsMatchIndex, BackendOK
<1> QED
  BY <1>1, Invariant, PTL

\* Only events of open connections are registered, and they are active.
THEOREM RegisteredAlwaysOpen == Spec => []RegisteredAreOpen
<1>1. IInv => RegisteredAreOpen
  BY DEF IInv, RegisteredAreOpen, BackendOK
<1> QED
  BY <1>1, Invariant, PTL

\* A known max_fd covers every registered descriptor.
THEOREM MaxFdAlwaysCovers == Spec => []MaxFdCovers
<1>1. IInv => MaxFdCovers
  BY DEF IInv, MaxFdCovers, BackendOK
<1> QED
  BY <1>1, Invariant, PTL

\* The scan finds as many events as the kernel reported bits.
THEOREM ReadyAlwaysEqualsNready == Spec => []ReadyEqualsNready
<1>1. IInv => ReadyEqualsNready
  BY FoundCount DEF IInv, ReadyEqualsNready
<1> QED
  BY <1>1, Invariant, PTL
=============================================================================
