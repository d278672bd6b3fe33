------------------------------- MODULE Select -------------------------------
(***************************************************************************)
(* The data of the select(2) backend, src/event/select/xdbd_select.c, and  *)
(* the operations on it.                                                   *)
(*                                                                         *)
(* The backend keeps a dense array event_index of the registered events;   *)
(* each event remembers its own place in it.  Deleting an event moves the  *)
(* last one into the hole.  Next to the array it keeps the two fd_sets     *)
(* handed to select() and max_fd, a cached maximum with -1 for "unknown".  *)
(*                                                                         *)
(* A backend state s is one record, an operation a function of it.  Module *)
(* SelectBackend runs the operations alone, EventLoop inside the daemon.   *)
(***************************************************************************)
EXTENDS Integers, FiniteSets

CONSTANTS
  Conns,   \* the connection slots, xdbd->connections
  Fds,     \* the descriptors the process may get
  NoEvent  \* content of an array place that was never written

Read(c)  == <<c, "read">>      \* &xdbd->read_events[i] of slot c
Write(c) == <<c, "write">>     \* &xdbd->write_events[i] of slot c
Events   == Conns \X {"read", "write"}

ASSUME SelectAssumption ==
  /\ IsFiniteSet(Conns)
  /\ IsFiniteSet(Fds) /\ Fds \subseteq Nat
  /\ NoEvent \notin Events

NoFd    == -1      \* (xdbd_socket_t) -1, and max_fd when it is not known
INVALID == -1      \* XDBD_INVALID_INDEX: any value that is no array index

Capacity == 2 * Cardinality(Conns)     \* "double connections means read and write"
Places   == 0 .. Capacity - 1

\* ev->data and ev->write
Data(e)    == e[1]
IsWrite(e) == e[2] = "write"

-----------------------------------------------------------------------------
SelectInit ==
  [ read_set    |-> {},
    write_set   |-> {},
    event_index |-> [i \in Places |-> NoEvent],
    nevents     |-> 0,
    max_fd      |-> NoFd,
    index       |-> [e \in Events |-> INVALID],
    active      |-> [e \in Events |-> FALSE] ]

Registered(s, e) == s.index[e] # INVALID

\* A slip: a slot that is used again is still marked active.
ResetEventsKeepsActive(s, c) ==
  [s EXCEPT !.index = [e \in Events |-> IF Data(e) = c THEN INVALID ELSE @[e]]]

\* The part of xdbd_get_connection that concerns the backend: both events of
\* the slot are zeroed and their index is marked invalid.
ResetEvents(s, c) ==
  [s EXCEPT !.index  = [e \in Events |-> IF Data(e) = c THEN INVALID ELSE @[e]],
            !.active = [e \in Events |-> IF Data(e) = c THEN FALSE   ELSE @[e]]]

\* A slip: the cached maximum is kept although a higher descriptor comes in.
AddEventKeepsMax(s, e, f) ==
  IF Registered(s, e) THEN s
  ELSE [s EXCEPT
          !.read_set    = IF IsWrite(e) THEN @ ELSE @ \cup {f},
          !.write_set   = IF IsWrite(e) THEN @ \cup {f} ELSE @,
          !.active      = [@ EXCEPT ![e] = TRUE],
          !.event_index = [@ EXCEPT ![s.nevents] = e],
          !.index       = [@ EXCEPT ![e] = s.nevents],
          !.nevents     = @ + 1]

AddEvent(s, e, f) ==
  IF Registered(s, e) THEN s
  ELSE [s EXCEPT
          !.read_set    = IF IsWrite(e) THEN @ ELSE @ \cup {f},
          !.write_set   = IF IsWrite(e) THEN @ \cup {f} ELSE @,
          !.max_fd      = IF @ # NoFd /\ @ < f THEN f ELSE @,
          !.active      = [@ EXCEPT ![e] = TRUE],
          !.event_index = [@ EXCEPT ![s.nevents] = e],
          !.index       = [@ EXCEPT ![e] = s.nevents],
          !.nevents     = @ + 1]

\* Slips: the moved event is not told its place, the bit stays in the fd_set,
\* the hole is never filled.
DelEventForgetsMoved(s, e, f) ==
  IF ~Registered(s, e) THEN s
  ELSE [s EXCEPT
          !.read_set    = IF IsWrite(e) THEN @ ELSE @ \ {f},
          !.write_set   = IF IsWrite(e) THEN @ \ {f} ELSE @,
          !.max_fd      = IF @ = f THEN NoFd ELSE @,
          !.event_index = [@ EXCEPT ![s.index[e]] = s.event_index[s.nevents - 1]],
          !.index       = [@ EXCEPT ![e] = INVALID],
          !.nevents     = @ - 1]

DelEventKeepsBit(s, e, f) ==
  IF ~Registered(s, e) THEN s
  ELSE LET moved == s.event_index[s.nevents - 1]
       IN [s EXCEPT
             !.max_fd      = IF @ = f THEN NoFd ELSE @,
             !.event_index = [@ EXCEPT ![s.index[e]] = moved],
             !.index       = [@ EXCEPT ![moved] = s.index[e], ![e] = INVALID],
             !.nevents     = @ - 1]

DelEventKeepsPlace(s, e, f) ==
  IF ~Registered(s, e) THEN s
  ELSE [s EXCEPT
          !.read_set  = IF IsWrite(e) THEN @ ELSE @ \ {f},
          !.write_set = IF IsWrite(e) THEN @ \ {f} ELSE @,
          !.max_fd    = IF @ = f THEN NoFd ELSE @,
          !.index     = [@ EXCEPT ![e] = INVALID]]

\* The last event of the array fills the hole; note that active stays set.
DelEvent(s, e, f) ==
  IF ~Registered(s, e) THEN s
  ELSE LET last  == s.nevents - 1
           moved == s.event_index[last]
           hole  == s.index[e]
       IN [s EXCEPT
             !.read_set    = IF IsWrite(e) THEN @ ELSE @ \ {f},
             !.write_set   = IF IsWrite(e) THEN @ \ {f} ELSE @,
             !.max_fd      = IF @ = f THEN NoFd ELSE @,
             !.event_index = IF hole < last THEN [@ EXCEPT ![hole] = moved] ELSE @,
             !.index       = IF hole < last THEN [@ EXCEPT ![moved] = hole, ![e] = INVALID]
                                            ELSE [@ EXCEPT ![e] = INVALID],
             !.nevents     = last]

DelIfActive(s, e, f) == IF s.active[e] THEN DelEvent(s, e, f) ELSE s

\* A slip: the write event is forgotten.
DelConnectionReadOnly(s, c, f) == DelIfActive(s, Read(c), f)

\* The part of xdbd_close_connection that concerns the backend.
DelConnection(s, c, f) == DelIfActive(DelIfActive(s, Read(c), f), Write(c), f)

\* select() needs the maximum of the registered descriptors: it is computed
\* again when it is not known.
MaxFd(s, fd) ==
  LET watched == {fd[Data(s.event_index[i])] : i \in 0 .. s.nevents - 1}
  IN  CHOOSE m \in watched \cup {NoFd} : \A f \in watched : f <= m

Refreshed(s, fd) == IF s.max_fd = NoFd THEN [s EXCEPT !.max_fd = MaxFd(s, fd)] ELSE s

\* The bits select(max_fd + 1) looks at.
Below(s, fds) == {f \in fds : f <= s.max_fd}

\* xdbd_select_repair_fd_sets, open being the descriptors getsockopt() accepts.
Repaired(s, open) ==
  [s EXCEPT !.read_set  = {f \in @ : f \in open \/ f > s.max_fd},
            !.write_set = {f \in @ : f \in open \/ f > s.max_fd},
            !.max_fd    = NoFd]

\* The events the scan after select() marks, when the kernel left the
\* descriptors r in the read set and w in the write set.
Found(s, fd, r, w) ==
  {e \in {s.event_index[i] : i \in 0 .. s.nevents - 1} :
      fd[Data(e)] \in (IF IsWrite(e) THEN w ELSE r)}

\* The backend after a scan: the sets are repaired when the number of events
\* found is not the number of bits the kernel reported.
Scanned(s, fd, r, w, open) ==
  IF Cardinality(Found(s, fd, r, w)) # Cardinality(r) + Cardinality(w)
  THEN Repaired(s, open) ELSE s

\* Some bit select() looks at is not an open descriptor: it fails with EBADF.
AsksForClosed(s, open) ==
  ~(Below(s, s.read_set) \cup Below(s, s.write_set) \subseteq open)

-----------------------------------------------------------------------------
(***************************************************************************)
(* What holds of a backend state s when fd[c] is the descriptor of slot c. *)
(***************************************************************************)
SelectType(s) ==
  s \in [ read_set    : SUBSET Fds,
          write_set   : SUBSET Fds,
          event_index : [Places -> Events \cup {NoEvent}],
          nevents     : 0 .. Capacity,
          max_fd      : Fds \cup {NoFd},
          index       : [Events -> Places \cup {INVALID}],
          active      : [Events -> BOOLEAN] ]

IndexOK(s) ==
  /\ \A i \in 0 .. s.nevents - 1 :
        /\ s.event_index[i] \in Events
        /\ s.index[s.event_index[i]] = i
  /\ \A e \in Events : Registered(s, e) =>
        /\ s.index[e] \in 0 .. s.nevents - 1
        /\ s.event_index[s.index[e]] = e

SetsOK(s, fd) ==
  /\ s.read_set  = {fd[c] : c \in {d \in Conns : Registered(s, Read(d))}}
  /\ s.write_set = {fd[c] : c \in {d \in Conns : Registered(s, Write(d))}}

OpenOK(s, fd) ==
  \A e \in Events : Registered(s, e) => s.active[e] /\ fd[Data(e)] # NoFd

MaxOK(s, fd) ==
  s.max_fd # NoFd => \A e \in Events : Registered(s, e) => fd[Data(e)] <= s.max_fd

CountOK(s, fd) ==
  \A r \in SUBSET s.read_set, w \in SUBSET s.write_set :
    Cardinality(Found(s, fd, r, w)) = Cardinality(r) + Cardinality(w)

\* The parts that the operations keep together.
BackendOK(s, fd) ==
  SelectType(s) /\ IndexOK(s) /\ SetsOK(s, fd) /\ OpenOK(s, fd) /\ MaxOK(s, fd)

\* The kernel never hands out a descriptor that is open.
DistinctOpen(fd) == \A c, d \in Conns : fd[c] = fd[d] /\ fd[c] # NoFd => c = d
=============================================================================
