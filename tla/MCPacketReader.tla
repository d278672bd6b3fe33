--------------------------- MODULE MCPacketReader ---------------------------
(* Headers of three bytes and a buffer of five: a payload of two fills it.  *)
EXTENDS PacketReader

Hdr(cmd, id, n, ok) == [pcmd |-> cmd, arg0 |-> id, dlen |-> n, magic |-> ok]

MCHeaders ==
  { Hdr("CNXN", 0, 1, TRUE), Hdr("AUTH", 0, 0, TRUE), Hdr("OPEN", 7, 2, TRUE),
    Hdr("OPEN", 0, 0, TRUE), Hdr("WRTE", 7, 1, TRUE), Hdr("CLSE", 7, 0, TRUE),
    Hdr("SYNC", 0, 0, TRUE), Hdr("OKAY", 7, 0, TRUE), Hdr("OKAY", 7, 0, FALSE) }

\* Few headers for a stream that may be cut anywhere.
FewHeaders ==
  { Hdr("OKAY", 7, 0, TRUE), Hdr("WRTE", 7, 2, TRUE), Hdr("WRTE", 7, 0, FALSE) }
=============================================================================
