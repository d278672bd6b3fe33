---------------------------- MODULE SelectBackend ----------------------------
(***************************************************************************)
(* The select(2) backend alone, with the functions of xdbd_event.c that    *)
(* arm and disarm an event through it, under any caller that behaves like  *)
(* the callers in src/: it arms events of open connections only and goes   *)
(* through xdbd_close_connection before a descriptor is closed.  Unlike    *)
(* the daemon as it is today, this caller also uses the write events.      *)
(***************************************************************************)
EXTENDS Select

VARIABLES
  sel,     \* the backend state
  fd,      \* fd[c], the descriptor of slot c or NoFd
  ready    \* ready[e], the ready flag of an event

vars == <<sel, fd, ready>>

OpenFds == {fd[c] : c \in Conns} \ {NoFd}

TypeOK ==
  /\ SelectType(sel)
  /\ fd \in [Conns -> Fds \cup {NoFd}]
  /\ ready \in [Events -> BOOLEAN]

Init ==
  /\ sel = SelectInit
  /\ fd = [c \in Conns |-> NoFd]
  /\ ready = [e \in Events |-> FALSE]

\* xdbd_get_connection on a free slot, with a descriptor fresh from the kernel.
GetConnection(c, f) ==
  /\ fd[c] = NoFd
  /\ f \notin OpenFds
  /\ sel' = ResetEvents(sel, c)
  /\ fd' = [fd EXCEPT ![c] = f]
  /\ ready' = [e \in Events |-> ready[e] /\ Data(e) # c]

\* xdbd_handle_read_event with flags 0, the value every caller passes.
HandleReadEvent(c) ==
  /\ fd[c] # NoFd
  /\ ~sel.active[Read(c)] /\ ~ready[Read(c)]
  /\ sel' = AddEvent(sel, Read(c), fd[c])
  /\ UNCHANGED <<fd, ready>>

\* xdbd_handle_write_event: armed when idle, disarmed once it is ready.
HandleWriteEvent(c) ==
  /\ fd[c] # NoFd
  /\ \/ /\ ~sel.active[Write(c)] /\ ~ready[Write(c)]
        /\ sel' = AddEvent(sel, Write(c), fd[c])
     \/ /\ sel.active[Write(c)] /\ ready[Write(c)]
        /\ sel' = DelEvent(sel, Write(c), fd[c])
  /\ UNCHANGED <<fd, ready>>

\* xdbd_adb_block_reading: a caller stops listening to an event it armed.
BlockReading(c) ==
  /\ fd[c] # NoFd
  /\ sel.active[Read(c)]
  /\ sel' = DelEvent(sel, Read(c), fd[c])
  /\ UNCHANGED <<fd, ready>>

\* recv() or send() on the slot reported EAGAIN.
WouldBlock(e) ==
  /\ fd[Data(e)] # NoFd
  /\ ready' = [ready EXCEPT ![e] = FALSE]
  /\ UNCHANGED <<sel, fd>>

CloseConnection(c) ==
  /\ fd[c] # NoFd
  /\ sel' = DelConnection(sel, c, fd[c])
  /\ fd' = [fd EXCEPT ![c] = NoFd]
  /\ UNCHANGED ready

\* xdbd_select_process_events: the kernel reports any non-empty part r, w of
\* what it was asked about, or fails with EBADF.
ProcessEvents ==
  LET s == Refreshed(sel, fd)
  IN \E r \in SUBSET Below(s, s.read_set), w \in SUBSET Below(s, s.write_set) :
       /\ r # {} \/ w # {}
       /\ sel' = IF AsksForClosed(s, OpenFds) THEN Repaired(s, OpenFds)
                 ELSE Scanned(s, fd, r, w, OpenFds)
       /\ ready' = [e \in Events |-> \/ ready[e]
                                     \/ /\ ~AsksForClosed(s, OpenFds)
                                        /\ e \in Found(s, fd, r, w)]
       /\ UNCHANGED fd

\* select() was interrupted by a signal: only the cached maximum has changed.
ProcessInterrupted ==
  /\ sel' = Refreshed(sel, fd)
  /\ UNCHANGED <<fd, ready>>

Next ==
  \/ \E c \in Conns, f \in Fds : GetConnection(c, f)
  \/ \E c \in Conns : \/ HandleReadEvent(c) \/ HandleWriteEvent(c)
                      \/ BlockReading(c) \/ CloseConnection(c)
  \/ \E e \in Events : WouldBlock(e)
  \/ ProcessEvents
  \/ ProcessInterrupted

Spec == Init /\ [][Next]_vars

-----------------------------------------------------------------------------
\* The array event_index and the places the events remember are inverse to
\* each other: the move of the last event into the hole of a deleted one
\* (xdbd_select_del_event), in whatever order events are deleted, never leaves
\* an event with the place of another.
IndexConsistent == IndexOK(sel)

\* The fd_sets hold the descriptors of the registered events and no other, so
\* select() is never asked about a descriptor that was closed or handed to
\* another connection, even though closing relies on the active flag only.
SetsMatchIndex == SetsOK(sel, fd)

\* An event is only registered while its connection is open and while it is
\* marked active: xdbd_close_connection decides by active what to delete.
RegisteredAreOpen == OpenOK(sel, fd)

\* The cached max_fd, when it is known, is not below a registered descriptor:
\* select(max_fd + 1) leaves no registered event out.
MaxFdCovers == MaxOK(sel, fd)

\* Whatever part of the sets the kernel reports, the scan of event_index finds
\* as many events as there are bits: the "ready != nready" warning and repair
\* of xdbd_select_process_events are never reached.
ReadyEqualsNready == CountOK(sel, fd)
=============================================================================
