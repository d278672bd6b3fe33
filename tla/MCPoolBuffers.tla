---------------------------- MODULE MCPoolBuffers ----------------------------
(* Pages of four bytes with pieces of two; a buffer that grows leaves its   *)
(* page for the next one, and a capacity of four is a block.  A receive     *)
(* buffer of three has room for a header of two and one byte of a payload.  *)
EXTENDS PoolBuffers

MCChunks == {<<"x">>, <<"x", "y">>}
MCZeros  == <<"0">>
MCSizes  == {1, 3}
=============================================================================
