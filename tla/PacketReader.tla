---------------------------- MODULE PacketReader ----------------------------
(***************************************************************************)
(* One connection of src/adb/xdbd_adb.c: how the bytes of a stream become  *)
(* packets.  The handler of the read event moves from "wait" to "header"   *)
(* to "payload" and back; a handler may call the next one directly, so one *)
(* run of it may receive several times, and bytes arrive in between.       *)
(*                                                                         *)
(* A byte is its place in the stream, Byte(k, j): the j-th byte of the     *)
(* k-th packet.  The buffer is the sequence of the bytes between           *)
(* buffer->start and buffer->last; pos is an offset in it.                 *)
(*                                                                         *)
(* rev->ready has no variable: the scan after select() sets it before a    *)
(* handler runs, only a recv() that returns nothing clears it, and the     *)
(* handlers return then.                                                   *)
(***************************************************************************)
EXTENDS AdbPacket, Sequences

CONSTANTS
  Headers,     \* the headers a client may send
  HdrLen,      \* sizeof(xdbd_adb_header_t)
  BufSize,     \* ADB_MAX_PACKET_SIZE, the size of c->buffer
  Window,      \* packets a client sends before it waits for answers
  MaxPackets,  \* bound on the packets of a connection
  Splits,      \* TRUE when the network may cut the stream anywhere, FALSE when
               \* it cuts it inside headers only
  Failing      \* {"malloc"} when memory may run out

ASSUME ReaderAssumption ==
  /\ HdrLen \in Nat /\ HdrLen >= 2
  /\ BufSize \in Nat /\ BufSize >= HdrLen
  /\ Window \in Nat /\ MaxPackets \in Nat
  /\ Splits \in BOOLEAN /\ Failing \subseteq {"malloc"}
  /\ \A h \in Headers : h.dlen \in Nat /\ h.magic \in BOOLEAN

VARIABLES
  sent,      \* headers of the packets the client sent
  shut,      \* the client has closed its end
  inflight,  \* bytes on their way
  wire,      \* bytes in the receive queue of the socket
  handler,   \* rev->handler, or "closed", or "crashed"
  at,        \* the handler that is running, "idle" when none is
  buf, pos,  \* c->buffer
  h,         \* r->h, the header of the packet being read
  served,    \* what xdbd_process_packet was called with
  replies    \* what was handed to c->send

client == <<sent, shut, inflight>>
vars   == <<client, wire, handler, at, buf, pos, h, served, replies>>

Byte(k, j) == <<k, j>>
Bytes      == (1 .. MaxPackets) \X Nat
NoHeader   == [pcmd |-> "none", arg0 |-> 0, dlen |-> 0, magic |-> FALSE]
Reading    == {"wait", "header", "payload"}

TypeOK ==
  /\ sent \in Seq(Headers) /\ Len(sent) <= MaxPackets
  /\ shut \in BOOLEAN
  /\ inflight \in Seq(Bytes) /\ wire \in Seq(Bytes)
  /\ handler \in Reading \cup {"block", "closed", "crashed"}
  /\ at \in Reading \cup {"idle"}
  /\ buf \in Seq(Bytes) /\ Len(buf) <= BufSize
  /\ pos \in Nat
  /\ h \in Headers \cup {NoHeader}
  /\ \A i \in 1 .. Len(served) : served[i].header \in Headers
  /\ Len(replies) <= Len(served)

Init ==
  /\ sent = <<>> /\ shut = FALSE /\ inflight = <<>> /\ wire = <<>>
  /\ handler = "wait" /\ at = "idle"
  /\ buf = <<>> /\ pos = 0 /\ h = NoHeader
  /\ served = <<>> /\ replies = <<>>

-----------------------------------------------------------------------------
Send(hd) ==
  /\ ~shut
  /\ Len(sent) < MaxPackets
  /\ Len(sent) < Len(replies) + Window
  /\ sent' = Append(sent, hd)
  /\ inflight' = inflight \o [j \in 1 .. HdrLen + hd.dlen |-> Byte(Len(sent) + 1, j)]
  /\ UNCHANGED <<shut, wire, handler, at, buf, pos, h, served, replies>>

Shut ==
  /\ ~shut
  /\ shut' = TRUE
  /\ UNCHANGED <<sent, inflight, wire, handler, at, buf, pos, h, served, replies>>

\* Where the stream may be cut.
Cuts == {n \in 1 .. Len(inflight) :
           Splits \/ n = Len(inflight) \/ inflight[n][2] < HdrLen}

Deliver ==
  \E n \in Cuts :
    /\ wire' = wire \o SubSeq(inflight, 1, n)
    /\ inflight' = SubSeq(inflight, n + 1, Len(inflight))
    /\ UNCHANGED <<sent, shut, handler, at, buf, pos, h, served, replies>>

-----------------------------------------------------------------------------
(***************************************************************************)
(* recv() into what is left of a buffer that holds b.                      *)
(***************************************************************************)
Min(m, n) == IF m < n THEN m ELSE n

\* Slips: the size passed to recv() is one short, or that of the whole buffer.
RoomOneShort(b)    == BufSize - Len(b) - 1
RoomWholeBuffer(b) == BufSize

Room(b)  == BufSize - Len(b)
Chunk(b) == SubSeq(wire, 1, Min(Room(b), Len(wire)))
AtEnd    == wire = <<>> /\ inflight = <<>> /\ shut

RecvBytes(b) == Chunk(b) # <<>> /\ wire' = SubSeq(wire, Len(Chunk(b)) + 1, Len(wire))

\* A slip: the end of the stream is not looked for.
RecvZeroUnseen(b) == Room(b) = 0

\* 0: the stream has ended, or there is no room left to receive anything.
RecvZero(b)  == Room(b) = 0 \/ AtEnd
RecvAgain(b) == Room(b) > 0 /\ wire = <<>> /\ ~AtEnd

\* A slip: the buffer still holds the packet before.
KeptBuf  == buf
ResetBuf == <<>>

\* xdbd_adb_close_connection
CloseConnection ==
  /\ handler' = "closed" /\ at' = "idle"
  /\ UNCHANGED <<client, wire, buf, pos, h, served, replies>>

\* select() reports the connection and its handler runs.
Report ==
  /\ at = "idle" /\ handler \in Reading
  /\ wire # <<>> \/ AtEnd
  /\ at' = handler
  /\ UNCHANGED <<client, wire, handler, buf, pos, h, served, replies>>

\* What an earlier packet left in the buffer is dropped.  The buffer itself is
\* allocated by the first run, the request by every run that received something.
WaitApacket ==
  /\ at = "wait"
  /\ \/ RecvZero(ResetBuf) /\ CloseConnection
     \/ "malloc" \in Failing /\ buf = <<>> /\ CloseConnection
     \/ /\ "malloc" \in Failing
        /\ RecvBytes(ResetBuf)
        /\ buf' = ResetBuf \o Chunk(ResetBuf) /\ pos' = 0
        /\ handler' = "closed" /\ at' = "idle"
        /\ UNCHANGED <<client, h, served, replies>>
     \/ /\ RecvBytes(ResetBuf)
        /\ buf' = ResetBuf \o Chunk(ResetBuf) /\ pos' = 0
        /\ handler' = "header" /\ at' = "header"
        /\ UNCHANGED <<client, h, served, replies>>

\* xdbd_adb_parse_adb_header copies the first bytes of the buffer b, whatever
\* they are; bytes that are not a header read as any header.
HeaderIn(b) ==
  LET hs == {sent[k] : k \in {m \in 1 .. Len(sent) :
                               SubSeq(b, 1, HdrLen) = [j \in 1 .. HdrLen |-> Byte(m, j)]}}
  IN IF hs # {} THEN hs ELSE Headers

\* A slip: pos stays at the start of the header.
ParsedKeepsPos(b) ==
  /\ h' \in HeaderIn(b)
  /\ handler' = "payload" /\ at' = "payload"
  /\ UNCHANGED pos

Parsed(b) ==
  /\ h' \in HeaderIn(b)
  /\ pos' = pos + HdrLen
  /\ handler' = "payload" /\ at' = "payload"

Unparsed == at' = "idle" /\ UNCHANGED <<handler, pos, h>>

ParseHeader(b) == IF Len(b) < HdrLen THEN Unparsed ELSE Parsed(b)

ProcessHeader ==
  /\ at = "header"
  /\ \/ /\ Len(buf) >= HdrLen
        /\ ParseHeader(buf)
        /\ UNCHANGED <<client, wire, buf, served, replies>>
     \/ /\ Len(buf) < HdrLen
        /\ RecvBytes(buf)
        /\ buf' = buf \o Chunk(buf)
        /\ ParseHeader(buf')
        /\ UNCHANGED <<client, served, replies>>
     \/ /\ Len(buf) < HdrLen
        /\ RecvAgain(buf)
        /\ at' = "idle"
        /\ UNCHANGED <<client, wire, handler, buf, pos, h, served, replies>>
     \/ Len(buf) < HdrLen /\ RecvZero(buf) /\ CloseConnection

\* What xdbd_process_packet returns: without memory for the answer, an error.
Verdicts == {Verdict(h)} \cup (IF "malloc" \in Failing THEN {"err"} ELSE {})

\* A slip: the handler is not set back when the answer is sent.
AfterStaysBlocked(v) == IF v = "close" THEN "closed" ELSE "block"

\* Who handles the next event of the connection.
After(v) == CASE v = "ok" -> "wait" [] v = "close" -> "closed" [] v = "err" -> "block"

\* xdbd_adb_parse_adb_payload takes all that is in the buffer b behind pos as
\* the payload and xdbd_process_packet answers.  When last is below pos the
\* length wraps around: the process ends in the copy, or there is no memory
\* for that much and the payload stays empty.  When the dump of the packet
\* cannot be allocated it is read all the same, and the process ends.
ServePacket(b) ==
  /\ at' = "idle"
  /\ \/ /\ Len(b) < pos \/ "malloc" \in Failing
        /\ handler' = "crashed"
        /\ UNCHANGED <<pos, served, replies>>
     \/ /\ served' = Append(served, [header |-> h, payload |-> SubSeq(b, pos + 1, Len(b))])
        /\ pos' = pos + h.dlen
        /\ \E v \in Verdicts :
             /\ replies' = IF v = "ok" THEN Append(replies, Reply(h)) ELSE replies
             /\ handler' = After(v)

\* The payload is looked at after at most one recv().
ProcessPayload ==
  /\ at = "payload"
  /\ \/ /\ Len(buf) - pos >= h.dlen
        /\ ServePacket(buf)
        /\ UNCHANGED <<client, wire, buf, h>>
     \/ /\ Len(buf) - pos < h.dlen
        /\ RecvBytes(buf)
        /\ buf' = buf \o Chunk(buf)
        /\ ServePacket(buf')
        /\ UNCHANGED <<client, h>>
     \/ /\ Len(buf) - pos < h.dlen
        /\ RecvAgain(buf)
        \* buffer->last += n, n being XDBD_AGAIN, -2
        /\ buf' = SubSeq(buf, 1, Len(buf) - 2)
        /\ at' = "idle"
        /\ UNCHANGED <<client, wire, handler, pos, h, served, replies>>
     \/ Len(buf) - pos < h.dlen /\ RecvZero(buf) /\ CloseConnection

Daemon == Report \/ WaitApacket \/ ProcessHeader \/ ProcessPayload

Next == (\E hd \in Headers : Send(hd)) \/ Shut \/ Deliver \/ Daemon

Spec == Init /\ [][Next]_vars

\* The network delivers and the loop of the daemon runs on.
FairSpec == Spec /\ WF_vars(Deliver) /\ WF_vars(Daemon)

-----------------------------------------------------------------------------
\* A client that waits for the answer before it sends the next packet, and
\* whose packets are not cut behind their headers, gets what PacketService
\* promises: every packet is served once, in order, with exactly its own
\* payload.
Service == INSTANCE PacketService
             WITH Headers <- Headers, HdrLen <- HdrLen,
                  sent <- sent, served <- served, replies <- replies
ImplementsService == Service!ServiceSpec

\* Such a client's packet is served: the daemon never waits for bytes it has
\* already, nor closes the connection under a packet.
EverySentServed ==
  \A k \in 1 .. MaxPackets : Len(sent) >= k ~> Len(served) >= k

\* A client that goes away is noticed in whatever state its last packet left
\* the connection, half a header, half a payload or a buffer cut by the code.
ShutNoticed == shut ~> handler \in {"closed", "block", "crashed"}

Earlier(x, y) == x[1] < y[1] \/ (x[1] = y[1] /\ x[2] < y[2])

\* However the stream is cut, whatever the client sends without waiting and
\* whatever bytes are taken for a header: no byte reaches two payloads, or
\* twice the same, and the bytes keep their order.
BytesInOrder ==
  \A i, j \in 1 .. Len(served) :
    \A a \in 1 .. Len(served[i].payload), b \in 1 .. Len(served[j].payload) :
      i < j \/ (i = j /\ a < b) => Earlier(served[i].payload[a], served[j].payload[b])

\* "data length", packet.h:40: the payload of a packet that is processed has
\* the length its header gives.
PayloadHasDataLength ==
  \A i \in 1 .. Len(served) : Len(served[i].payload) = served[i].header.dlen
=============================================================================
