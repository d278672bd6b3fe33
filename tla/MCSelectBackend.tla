--------------------------- MODULE MCSelectBackend ---------------------------
(* Two slots with a read and a write event each and two descriptors: enough *)
(* for a deletion to move an event of the same slot, of the other slot, or  *)
(* none, and for a descriptor to be reused by the other slot.               *)
EXTENDS SelectBackend

MCFds == 4 .. 5
=============================================================================
