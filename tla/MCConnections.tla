---------------------------- MODULE MCConnections ----------------------------
(* Five slots: a list with a first, a last and inner slots, in every order.  *)
EXTENDS Connections

MCFds == 7 .. 8
=============================================================================
