----------------------------- MODULE ByteStrings -----------------------------
(***************************************************************************)
(* What buffers promise: each is a string of bytes of its own.  Bytes are  *)
(* added at its end, whatever is done to other buffers, until all of them  *)
(* are dropped together.                                                   *)
(*                                                                         *)
(* Bytes of a receive buffer may be taken from its front and from its end. *)
(* When more are taken than there are the buffer owes the difference, and  *)
(* pays with the bytes that are added next: these are lost.                *)
(***************************************************************************)
EXTENDS Integers, Sequences

CONSTANTS
  Bufs,    \* the names of buffers
  Inputs,  \* those that bytes are taken from
  Chunks,  \* strings that are added
  Zeros,   \* what a buffer starts with that is not empty
  Fronts,  \* how many bytes are taken from the front
  Backs    \* and how many from the end

VARIABLE content  \* what each buffer there is holds, and how much it owes

Holding(s) == [held |-> s, owed |-> 0]

StringsInit == content = [b \in {} |-> Holding(<<>>)]

\* A new buffer starts with the string s.
New(b, s) ==
  /\ b \notin DOMAIN content
  /\ content' = [c \in DOMAIN content \cup {b} |-> IF c = b THEN Holding(s) ELSE content[c]]

Beyond(m, n) == IF n > m THEN n - m ELSE 0

Added(r, s) ==
  [held |-> r.held \o SubSeq(s, r.owed + 1, Len(s)), owed |-> Beyond(Len(s), r.owed)]

WithoutFront(r, n) ==
  [held |-> SubSeq(r.held, n + 1, Len(r.held)), owed |-> r.owed + Beyond(Len(r.held), n)]

WithoutBack(r, n) ==
  [held |-> SubSeq(r.held, 1, Len(r.held) - n), owed |-> r.owed + Beyond(Len(r.held), n)]

Becomes(b, r) == content' = [content EXCEPT ![b] = r]

Extend(b, s) == Becomes(b, Added(content[b], s))

Take(b) ==
  \/ \E n \in Fronts : Becomes(b, WithoutFront(content[b], n))
  \/ \E n \in Backs : Becomes(b, WithoutBack(content[b], n))
  \/ Becomes(b, Holding(<<>>))

DropAll == content' = [b \in {} |-> Holding(<<>>)]

StringsNext ==
  \/ \E b \in Bufs, s \in {<<>>, Zeros} : New(b, s)
  \/ \E b \in DOMAIN content, s \in Chunks : Extend(b, s)
  \/ \E b, c \in DOMAIN content : Extend(b, content[c].held)
  \/ \E b \in Inputs \cap DOMAIN content : Take(b)
  \/ DropAll

StringsSpec == StringsInit /\ [][StringsNext]_content
=============================================================================
