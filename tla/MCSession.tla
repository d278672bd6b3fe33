------------------------------ MODULE MCSession ------------------------------
(* Answers of two bytes.  The send buffer takes one of them, or one and a    *)
(* half.                                                                     *)
EXTENDS Session

Hdr(cmd, id, n) == [pcmd |-> cmd, arg0 |-> id, dlen |-> n, magic |-> TRUE]

MCHeaders == { Hdr("AUTH", 0, 0), Hdr("WRTE", 7, 2), Hdr("CLSE", 7, 0), Hdr("SYNC", 0, 0) }

\* Packets that are answered.
Requests == { Hdr("OKAY", 7, 0), Hdr("WRTE", 7, 1) }
=============================================================================
