------------------------------ MODULE SlotPool ------------------------------
(***************************************************************************)
(* What the connection table promises its callers: xdbd_get_connection     *)
(* hands out a slot that nobody holds and fails only when all are held;    *)
(* xdbd_close_connection gives back the slot it is called with, once.      *)
(***************************************************************************)
EXTENDS Integers

CONSTANTS
  Conns,  \* the slots
  Fds,    \* the descriptors a slot can be taken for
  Nil     \* the answer of xdbd_get_connection when it fails

VARIABLES
  fd,     \* the descriptor a slot is held for, -1 when nobody holds it
  got     \* the answer of the last xdbd_get_connection

Free == {c \in Conns : fd[c] = -1}

PoolInit ==
  /\ fd = [c \in Conns |-> -1]
  /\ got = Nil

Take(c, f) ==
  /\ c \in Free
  /\ fd' = [fd EXCEPT ![c] = f]
  /\ got' = c

Refuse ==
  /\ Free = {}
  /\ got' = Nil
  /\ UNCHANGED fd

GiveBack(c) ==
  /\ c \notin Free
  /\ fd' = [fd EXCEPT ![c] = -1]
  /\ UNCHANGED got

PoolNext ==
  \/ \E c \in Conns, f \in Fds : Take(c, f)
  \/ Refuse
  \/ \E c \in Conns : GiveBack(c)

PoolSpec == PoolInit /\ [][PoolNext]_<<fd, got>>
=============================================================================
