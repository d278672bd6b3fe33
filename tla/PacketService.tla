---------------------------- MODULE PacketService ----------------------------
(***************************************************************************)
(* What a connection promises its client: the packets are served one after *)
(* the other, in the order they were sent, each with its own header and    *)
(* its own payload, and each that is accepted is answered.  The first that *)
(* is not accepted is the last.                                            *)
(***************************************************************************)
EXTENDS AdbPacket, Sequences

CONSTANTS
  Headers,  \* the headers a client may send
  HdrLen    \* bytes of a header on the wire

VARIABLES
  sent,     \* the headers of the packets the client has sent
  served,   \* the packets that were processed, with their payloads
  replies   \* the headers of the packets sent back

\* Byte j of the k-th packet.
Byte(k, j) == <<k, j>>

\* The k-th packet as the client means it.
Packet(k) ==
  [header |-> sent[k], payload |-> [j \in 1 .. sent[k].dlen |-> Byte(k, HdrLen + j)]]

ServiceInit == sent = <<>> /\ served = <<>> /\ replies = <<>>

Send(h) ==
  /\ sent' = Append(sent, h)
  /\ UNCHANGED <<served, replies>>

Serve ==
  LET k == Len(served) + 1
  IN /\ k <= Len(sent)
     /\ \A i \in 1 .. Len(served) : Verdict(served[i].header) = "ok"
     /\ served' = Append(served, Packet(k))
     /\ replies' = IF Verdict(sent[k]) = "ok" THEN Append(replies, Reply(sent[k])) ELSE replies
     /\ UNCHANGED sent

ServiceNext == (\E h \in Headers : Send(h)) \/ Serve

ServiceSpec == ServiceInit /\ [][ServiceNext]_<<sent, served, replies>>
=============================================================================
