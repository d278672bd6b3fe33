----------------------------- MODULE Connections -----------------------------
(***************************************************************************)
(* The connection table of src/connection/connection.c: an array of slots  *)
(* whose free ones form a linked list.  The link shares the field c->data  *)
(* with what the owner of a slot keeps there, the request of the packet    *)
(* that is being read, so a list is only as good as the discipline of its  *)
(* users.  Slots are array indexes; a pointer is an index, NULL is Nil.    *)
(***************************************************************************)
EXTENDS Integers, FiniteSets

CONSTANTS
  N,      \* xdbd->connection_n, DEFAULT_CONNECTIONS in the program
  Fds     \* descriptors

ASSUME TableAssumption == N \in Nat /\ Fds \subseteq Nat

Conns   == 0 .. N - 1
Nil     == -1      \* NULL
Request == -2      \* c->data points to a request, not to a slot

VARIABLES
  data,              \* c->data
  free_connections,  \* the first slot of the list
  free_connection_n,
  fd,                \* c->fd
  got                \* what the last xdbd_get_connection returned

vars == <<data, free_connections, free_connection_n, fd, got>>

TypeOK ==
  /\ data \in [Conns -> Conns \cup {Nil, Request}]
  /\ free_connections \in Conns \cup {Nil}
  /\ free_connection_n \in 0 .. N
  /\ fd \in [Conns -> Fds \cup {-1}]
  /\ got \in Conns \cup {Nil}

\* The loop of xdbd_event_init_connections links the slots from the last to
\* the first.
Init ==
  /\ data = [c \in Conns |-> IF c = N - 1 THEN Nil ELSE c + 1]
  /\ free_connections = IF N = 0 THEN Nil ELSE 0
  /\ free_connection_n = N
  /\ fd = [c \in Conns |-> -1]
  /\ got = Nil

\* A slip: the list is not advanced.
GetConnectionAgain(f) ==
  LET c == free_connections
  IN /\ c # Nil
     /\ free_connection_n' = free_connection_n - 1
     /\ data' = [data EXCEPT ![c] = Nil]
     /\ fd' = [fd EXCEPT ![c] = f]
     /\ got' = c
     /\ UNCHANGED free_connections

\* xdbd_get_connection takes the first slot of the list and zeroes it.
GetConnection(f) ==
  LET c == free_connections
  IN /\ c # Nil
     /\ free_connections' = data[c]
     /\ free_connection_n' = free_connection_n - 1
     /\ data' = [data EXCEPT ![c] = Nil]
     /\ fd' = [fd EXCEPT ![c] = f]
     /\ got' = c

\* "connection pool is over"
GetNothing ==
  /\ free_connections = Nil
  /\ got' = Nil
  /\ UNCHANGED <<data, free_connections, free_connection_n, fd>>

\* A slip: the request is stored although the connection was closed.
SetRequestLate(c) ==
  /\ data' = [data EXCEPT ![c] = Request]
  /\ UNCHANGED <<free_connections, free_connection_n, fd, got>>

\* xdbd_adb_wait_apacket_handler: c->data becomes the request of the packet.
SetRequest(c) ==
  /\ fd[c] # -1
  /\ data' = [data EXCEPT ![c] = Request]
  /\ UNCHANGED <<free_connections, free_connection_n, fd, got>>

\* A slip: a second call closes again.
CloseTwice(c) ==
  /\ data' = [data EXCEPT ![c] = free_connections]
  /\ free_connections' = c
  /\ free_connection_n' = free_connection_n + 1
  /\ fd' = [fd EXCEPT ![c] = -1]
  /\ UNCHANGED got

\* xdbd_close_connection with xdbd_free_connection; a second call returns early.
CloseConnection(c) ==
  /\ fd[c] # -1
  /\ data' = [data EXCEPT ![c] = free_connections]
  /\ free_connections' = c
  /\ free_connection_n' = free_connection_n + 1
  /\ fd' = [fd EXCEPT ![c] = -1]
  /\ UNCHANGED got

Next ==
  \/ \E f \in Fds : GetConnection(f)
  \/ GetNothing
  \/ \E c \in Conns : SetRequest(c) \/ CloseConnection(c)

Spec == Init /\ [][Next]_vars

-----------------------------------------------------------------------------
\* q is the list: it starts at free_connections, follows the links and ends.
Chain(q) ==
  LET n == free_connection_n
  IN /\ n = 0 => free_connections = Nil
     /\ n > 0 => free_connections = q[1] /\ data[q[n]] = Nil
     /\ \A i \in 1 .. n - 1 : data[q[i]] = q[i + 1]
     /\ \A i, j \in 1 .. n : q[i] = q[j] => i = j
     /\ {q[i] : i \in 1 .. n} = {c \in Conns : fd[c] = -1}

\* Whatever the order in which slots are closed and requests are stored in
\* them, the links lead from free_connections through every slot without a
\* descriptor exactly once, free_connection_n of them, and end in NULL; they
\* never run into a slot in use, whose data field holds something else.
FreeListIntact == \E q \in [1 .. free_connection_n -> Conns] : Chain(q)

\* The table implements the abstract pool.
Pool == INSTANCE SlotPool
ImplementsPool == Pool!PoolSpec
=============================================================================
