------------------------- MODULE PacketReaderProofs -------------------------
(***************************************************************************)
(* The reader of packets, for any headers, any size of the buffer and any  *)
(* way of cutting the stream.  The first part is about sequences of bytes  *)
(* and what recv() does to them, the second shows that the bytes keep      *)
(* their order.  The third shows that the reader is the service of         *)
(* PacketService to a client that waits for the answer before it sends the *)
(* next packet, when the network cuts packets inside their headers only    *)
(* and memory does not run out.                                            *)
(***************************************************************************)
EXTENDS PacketReader, SequenceTheorems, TLAPS

Ascends(s)   == \A i, j \in 1 .. Len(s) : i < j => Earlier(s[i], s[j])
Before(s, t) == \A i \in 1 .. Len(s), j \in 1 .. Len(t) : Earlier(s[i], t[j])
UpTo(s, k)   == \A i \in 1 .. Len(s) : s[i][1] <= k

\* A piece of a sequence of bytes.
LEMMA Piece ==
  ASSUME NEW s \in Seq(Bytes), NEW a \in Int, NEW b \in Int, 1 <= a, b <= Len(s)
  PROVE  /\ SubSeq(s, a, b) \in Seq(Bytes)
         /\ Len(SubSeq(s, a, b)) = IF a <= b THEN b - a + 1 ELSE 0
         /\ \A i \in 1 .. Len(SubSeq(s, a, b)) :
              SubSeq(s, a, b)[i] = s[a + i - 1] /\ a + i - 1 \in a .. b
<1>1. \A i \in a .. b : s[i] \in Bytes
  BY SMT
<1>2. /\ SubSeq(s, a, b) \in Seq(Bytes)
      /\ Len(SubSeq(s, a, b)) = IF a <= b THEN b - a + 1 ELSE 0
      /\ \A i \in 1 .. b - a + 1 : SubSeq(s, a, b)[i] = s[a + i - 1]
  BY <1>1, SubSeqProperties
<1> QED
  BY <1>2, SMT

\* A piece keeps the order of the whole, within itself and to other bytes.
LEMMA PieceOrder ==
  ASSUME NEW s \in Seq(Bytes), NEW a \in Int, NEW b \in Int, 1 <= a, b <= Len(s)
  PROVE  /\ Ascends(s) => Ascends(SubSeq(s, a, b))
         /\ \A k : UpTo(s, k) => UpTo(SubSeq(s, a, b), k)
         /\ \A u \in Seq(Bytes) : Before(s, u) => Before(SubSeq(s, a, b), u)
         /\ \A u \in Seq(Bytes) : Before(u, s) => Before(u, SubSeq(s, a, b))
<1> DEFINE t == SubSeq(s, a, b)
<1>1. /\ Len(t) \in Nat
      /\ \A i \in 1 .. Len(t) : t[i] = s[a + i - 1] /\ a + i - 1 \in 1 .. Len(s)
  BY Piece, SMT
<1> HIDE DEF t
<1>2. ASSUME Ascends(s), NEW i \in 1 .. Len(t), NEW j \in 1 .. Len(t), i < j
      PROVE  Earlier(t[i], t[j])
  <2>1. a + i - 1 < a + j - 1
    BY <1>1, <1>2, SMT
  <2> QED
    BY <1>1, <1>2, <2>1 DEF Ascends
<1>3. \A k : UpTo(s, k) => UpTo(t, k)
  BY <1>1 DEF UpTo
<1>4. \A u \in Seq(Bytes) : Before(s, u) => Before(t, u)
  BY <1>1 DEF Before
<1>5. \A u \in Seq(Bytes) : Before(u, s) => Before(u, t)
  BY <1>1 DEF Before
<1> QED
  BY <1>2, <1>3, <1>4, <1>5 DEF t, Ascends

\* What is cut off the front comes before the rest.
LEMMA CutOrder ==
  ASSUME NEW s \in Seq(Bytes), NEW n \in Nat, n <= Len(s), Ascends(s)
  PROVE  Before(SubSeq(s, 1, n), SubSeq(s, n + 1, Len(s)))
<1> DEFINE t == SubSeq(s, 1, n)
           u == SubSeq(s, n + 1, Len(s))
<1>1. \A i \in 1 .. Len(t) : t[i] = s[i] /\ i \in 1 .. n
  BY Piece, SMT
<1>2. \A i \in 1 .. Len(u) : u[i] = s[n + i] /\ n + i \in n + 1 .. Len(s)
  <2>1. \A i \in 1 .. Len(u) : u[i] = s[(n + 1) + i - 1] /\ (n + 1) + i - 1 \in n + 1 .. Len(s)
    BY Piece, SMT
  <2>2. Len(u) \in Nat
    BY Piece, SMT
  <2> HIDE DEF u
  <2> QED
    BY <2>1, <2>2, SMT
<1>3. Len(t) \in Nat /\ Len(u) \in Nat
  BY Piece, SMT
<1> HIDE DEF t, u
<1>4. ASSUME NEW i \in 1 .. Len(t), NEW j \in 1 .. Len(u)
      PROVE  Earlier(t[i], u[j])
  <2>1. i < n + j /\ i \in 1 .. Len(s) /\ n + j \in 1 .. Len(s)
    BY <1>1, <1>2, <1>3, SMT
  <2> QED
    BY <1>1, <1>2, <2>1 DEF Ascends
<1> QED
  BY <1>4 DEF Before, t, u

\* Two pieces put one behind the other.
LEMMA JoinOrder ==
  ASSUME NEW s \in Seq(Bytes), NEW t \in Seq(Bytes)
  PROVE  /\ s \o t \in Seq(Bytes)
         /\ Len(s \o t) = Len(s) + Len(t)
         /\ Ascends(s) /\ Ascends(t) /\ Before(s, t) => Ascends(s \o t)
         /\ \A k : UpTo(s, k) /\ UpTo(t, k) => UpTo(s \o t, k)
         /\ \A u \in Seq(Bytes) : Before(s, u) /\ Before(t, u) => Before(s \o t, u)
         /\ \A u \in Seq(Bytes) : Before(u, s) /\ Before(u, t) => Before(u, s \o t)
<1> DEFINE st == s \o t
<1>1. /\ st \in Seq(Bytes)
      /\ Len(st) = Len(s) + Len(t)
      /\ \A i \in 1 .. Len(st) : st[i] = IF i <= Len(s) THEN s[i] ELSE t[i - Len(s)]
  BY ConcatProperties
<1>2. \A i \in 1 .. Len(st) :
        \/ i \in 1 .. Len(s) /\ st[i] = s[i]
        \/ i - Len(s) \in 1 .. Len(t) /\ st[i] = t[i - Len(s)] /\ i > Len(s)
  BY <1>1, SMT
<1> HIDE DEF st
<1>3. Ascends(s) /\ Ascends(t) /\ Before(s, t) => Ascends(st)
  <2> SUFFICES ASSUME Ascends(s), Ascends(t), Before(s, t),
                      NEW i \in 1 .. Len(st), NEW j \in 1 .. Len(st), i < j
               PROVE  Earlier(st[i], st[j])
    BY DEF Ascends
  <2>1. i \in Int /\ j \in Int /\ Len(s) \in Nat
    BY SMT
  <2>2. CASE j \in 1 .. Len(s)
    <3>1. i \in 1 .. Len(s) /\ st[i] = s[i] /\ st[j] = s[j]
      BY <1>2, <2>1, <2>2, SMT
    <3> QED
      BY <3>1, <2>2 DEF Ascends
  <2>3. CASE j \notin 1 .. Len(s)
    <3>1. st[j] = t[j - Len(s)] /\ j - Len(s) \in 1 .. Len(t)
      BY <1>2, <2>3
    <3>2. CASE i \in 1 .. Len(s)
      <4>1. st[i] = s[i]
        BY <1>2, <2>1, <3>2, SMT
      <4> QED
        BY <4>1, <3>1, <3>2 DEF Before
    <3>3. CASE i \notin 1 .. Len(s)
      <4>1. st[i] = t[i - Len(s)] /\ i - Len(s) \in 1 .. Len(t)
        BY <1>2, <3>3
      <4>2. i - Len(s) < j - Len(s)
        BY <2>1, SMT
      <4> QED
        BY <4>1, <4>2, <3>1 DEF Ascends
    <3> QED
      BY <3>2, <3>3
  <2> QED
    BY <2>2, <2>3
<1>4. \A k : UpTo(s, k) /\ UpTo(t, k) => UpTo(st, k)
  BY <1>2 DEF UpTo
<1>5. \A u \in Seq(Bytes) : Before(s, u) /\ Before(t, u) => Before(st, u)
  BY <1>2 DEF Before
<1>6. \A u \in Seq(Bytes) : Before(u, s) /\ Before(u, t) => Before(u, st)
  BY <1>2 DEF Before
<1> QED
  BY <1>1, <1>3, <1>4, <1>5, <1>6 DEF st

-----------------------------------------------------------------------------
Packet == [header : Headers, payload : Seq(Bytes)]
Later(u) == \A i \in 1 .. Len(served) : Before(served[i].payload, u)

\* The types, with what the running handler knows.
Types ==
  /\ sent \in Seq(Headers) /\ Len(sent) <= MaxPackets
  /\ shut \in BOOLEAN
  /\ inflight \in Seq(Bytes) /\ wire \in Seq(Bytes)
  /\ handler \in Reading \cup {"block", "closed", "crashed"}
  /\ at \in Reading \cup {"idle"}
  /\ at # "idle" => handler = at
  /\ buf \in Seq(Bytes) /\ Len(buf) <= BufSize
  /\ pos \in Nat
  /\ h \in Headers \cup {NoHeader}
  /\ handler = "payload" => h \in Headers
  /\ served \in Seq(Packet)
  /\ replies \in Seq({Reply(x) : x \in Headers})
  /\ Len(replies) <= Len(served)

\* The bytes that are still to be served, in the buffer, the socket and the
\* network, follow each other, and follow all that was served.  What a waiting
\* connection has in its buffer was served already.
Order ==
  /\ Ascends(buf) /\ Ascends(wire) /\ Ascends(inflight)
  /\ Before(buf, wire) /\ Before(buf, inflight) /\ Before(wire, inflight)
  /\ Later(wire) /\ Later(inflight)
  /\ handler \in {"header", "payload"} => Later(buf)
  /\ \A i \in 1 .. Len(served) : Ascends(served[i].payload)
  /\ \A i, j \in 1 .. Len(served) : i < j => Before(served[i].payload, served[j].payload)
  /\ UpTo(buf, Len(sent)) /\ UpTo(wire, Len(sent)) /\ UpTo(inflight, Len(sent))
  /\ \A i \in 1 .. Len(served) : UpTo(served[i].payload, Len(sent))

IInv == Types /\ Order

\* The same for a buffer b and a receive queue w none of which was served.
Fresh(b, w) ==
  /\ b \in Seq(Bytes) /\ Len(b) <= BufSize /\ w \in Seq(Bytes)
  /\ Ascends(b) /\ Ascends(w) /\ Before(b, w) /\ Before(b, inflight) /\ Before(w, inflight)
  /\ Later(b) /\ Later(w) /\ UpTo(b, Len(sent)) /\ UpTo(w, Len(sent))

\* The invariant holds at the start.
LEMMA InitInv == Init => IInv
<1> SUFFICES ASSUME Init PROVE IInv
  OBVIOUS
<1>1. Types
  <2>1. \A S : <<>> \in Seq(S)
    OBVIOUS
  <2>2. Len(<<>>) = 0
    OBVIOUS
  <2>3. 0 <= MaxPackets /\ 0 <= BufSize
    BY ReaderAssumption, SMT
  <2>4. sent \in Seq(Headers) /\ inflight \in Seq(Bytes) /\ wire \in Seq(Bytes)
        /\ buf \in Seq(Bytes) /\ served \in Seq(Packet)
        /\ replies \in Seq({Reply(x) : x \in Headers})
    BY <2>1 DEF Init
  <2>5. Len(sent) <= MaxPackets /\ Len(buf) <= BufSize /\ Len(replies) <= Len(served)
    BY <2>2, <2>3, SMT DEF Init
  <2>6. shut \in BOOLEAN
    BY Zenon DEF Init
  <2>7. /\ handler \in Reading \cup {"block", "closed", "crashed"}
        /\ at \in Reading \cup {"idle"}
        /\ at = "idle" /\ handler # "payload"
    BY DEF Init, Reading
  <2>8. pos \in Nat /\ h \in Headers \cup {NoHeader}
    BY DEF Init
  <2> QED
    BY <2>4, <2>5, <2>6, <2>7, <2>8, Zenon DEF Types
<1>2. Order
  BY SMT DEF Init, Order, Later, Ascends, Before, UpTo
<1> QED
  BY <1>1, <1>2 DEF IInv

\* recv() takes the front of the receive queue.
LEMMA ChunkLemma ==
  ASSUME wire \in Seq(Bytes), NEW b \in Seq(Bytes), Len(b) <= BufSize
  PROVE  /\ Chunk(b) \in Seq(Bytes)
         /\ Len(Chunk(b)) \in 0 .. Len(wire)
         /\ Len(b) + Len(Chunk(b)) <= BufSize
         /\ Chunk(b) = SubSeq(wire, 1, Len(Chunk(b)))
<1> DEFINE n == Min(Room(b), Len(wire))
<1>1. n \in 0 .. Len(wire) /\ n <= BufSize - Len(b)
  BY ReaderAssumption, SMT DEF Min, Room
<1> HIDE DEF n
<1>2. SubSeq(wire, 1, n) \in Seq(Bytes) /\ Len(SubSeq(wire, 1, n)) = IF 1 <= n THEN n - 1 + 1 ELSE 0
  BY <1>1, Piece, SMT
<1>3. Len(SubSeq(wire, 1, n)) = n
  BY <1>1, <1>2, SMT
<1>4. Chunk(b) = SubSeq(wire, 1, n)
  BY DEF Chunk, n
<1>5. Len(b) \in Nat /\ BufSize \in Nat
  BY ReaderAssumption
<1> QED
  BY <1>1, <1>2, <1>3, <1>4, <1>5, SMT

\* When b precedes the receive queue, so does what b has become, and the rest
\* of the queue keeps its place.
LEMMA Received ==
  ASSUME Types, Order, NEW b, Fresh(b, wire), RecvBytes(b)
  PROVE  Fresh(b \o Chunk(b), wire')
<1>0. /\ b \in Seq(Bytes) /\ Len(b) <= BufSize
      /\ Ascends(b) /\ Before(b, wire) /\ Before(b, inflight) /\ UpTo(b, Len(sent)) /\ Later(b)
  BY DEF Fresh
<1> DEFINE c == Chunk(b)
           n == Len(c)
<1>1. /\ wire \in Seq(Bytes) /\ inflight \in Seq(Bytes)
      /\ \A i \in 1 .. Len(served) : served[i].payload \in Seq(Bytes)
  <2>1. \A i \in 1 .. Len(served) : served[i] \in Packet
    BY DEF Types
  <2> QED
    BY <2>1 DEF Types, Packet
<1>2. /\ c \in Seq(Bytes) /\ n \in 0 .. Len(wire) /\ Len(b) + n <= BufSize
      /\ c = SubSeq(wire, 1, n)
  BY <1>0, <1>1, ChunkLemma
<1>3. wire' = SubSeq(wire, n + 1, Len(wire))
  BY DEF RecvBytes
<1> HIDE DEF c
<1>4. n \in Nat /\ n + 1 \in Int /\ 1 \in Int /\ Len(wire) \in Int /\ 1 <= n + 1
      /\ 1 <= 1 /\ n <= Len(wire) /\ Len(wire) <= Len(wire)
  BY <1>1, <1>2, SMT
<1>5. /\ Ascends(wire) /\ Before(wire, inflight) /\ UpTo(wire, Len(sent))
      /\ \A i \in 1 .. Len(served) : Before(served[i].payload, wire)
  BY DEF Order, Later
<1> HIDE DEF n
<1>6. wire' \in Seq(Bytes)
  BY <1>1, <1>3, <1>4, Piece
<1>7. Ascends(wire') /\ UpTo(wire', Len(sent)) /\ Before(wire', inflight)
  BY <1>1, <1>3, <1>4, <1>5, PieceOrder
<1>8. \A u \in Seq(Bytes) : Before(u, wire) => Before(u, wire') /\ Before(u, c)
  BY <1>1, <1>2, <1>3, <1>4, PieceOrder
<1>9. Ascends(c) /\ UpTo(c, Len(sent)) /\ Before(c, inflight)
  BY <1>1, <1>2, <1>4, <1>5, PieceOrder
<1>10. Before(c, wire')
  BY <1>1, <1>2, <1>3, <1>4, <1>5, CutOrder
<1>11. Before(b, c) /\ Before(b, wire')
  BY <1>0, <1>8
<1>12. /\ b \o c \in Seq(Bytes) /\ Len(b \o c) = Len(b) + Len(c)
       /\ Ascends(b \o c) /\ UpTo(b \o c, Len(sent))
       /\ Before(b \o c, wire') /\ Before(b \o c, inflight)
  BY <1>0, <1>1, <1>2, <1>6, <1>9, <1>10, <1>11, JoinOrder
<1>13. Later(wire')
  BY <1>1, <1>5, <1>8 DEF Later
<1>14. Later(b \o c)
  <2>1. \A i \in 1 .. Len(served) : Before(served[i].payload, b) /\ Before(served[i].payload, c)
    BY <1>0, <1>1, <1>5, <1>8 DEF Later
  <2> QED
    BY <1>0, <1>1, <1>2, <2>1, JoinOrder DEF Later
<1>15. Len(b \o c) <= BufSize
  BY <1>2, <1>12, SMT DEF n
<1> QED
  BY <1>6, <1>7, <1>12, <1>13, <1>14, <1>15 DEF c, Fresh

-----------------------------------------------------------------------------
\* The handlers leave what the client sent as it is; these are the actions of
\* the client and the network.
LEMMA SendInv == \A hd \in Headers : IInv /\ Send(hd) => IInv'
<1> SUFFICES ASSUME NEW hd \in Headers, IInv, Send(hd) PROVE IInv'
  OBVIOUS
<1> DEFINE k == Len(sent) + 1
           p == [j \in 1 .. HdrLen + hd.dlen |-> Byte(k, j)]
<1>1. /\ sent \in Seq(Headers) /\ k \in 1 .. MaxPackets
      /\ sent' = Append(sent, hd) /\ inflight' = inflight \o p
      /\ UNCHANGED <<shut, wire, handler, at, buf, pos, h, served, replies>>
  BY ReaderAssumption, SMT DEF IInv, Types, Send
<1>2. sent' \in Seq(Headers) /\ Len(sent') = k
  BY <1>1, SMT
<1>3. HdrLen + hd.dlen \in Nat
  BY ReaderAssumption, SMT
<1>4. p \in Seq(Bytes) /\ Len(p) = HdrLen + hd.dlen
  <2>1. \A j \in 1 .. HdrLen + hd.dlen : Byte(k, j) \in Bytes
    BY <1>1, <1>3, SMT DEF Byte, Bytes
  <2> HIDE DEF k
  <2> QED
    BY <1>3, <2>1, SMT
<1>5. \A j \in 1 .. Len(p) : p[j] = <<k, j>>
  BY <1>4 DEF Byte
<1>6. inflight \in Seq(Bytes) /\ wire \in Seq(Bytes) /\ buf \in Seq(Bytes)
  BY DEF IInv, Types
<1>7. Len(sent) \in Nat /\ k = Len(sent) + 1
  BY <1>1
<1> HIDE DEF p
<1>8. \A s \in Seq(Bytes) : UpTo(s, Len(sent)) => UpTo(s, k) /\ Before(s, p)
  <2> SUFFICES ASSUME NEW s \in Seq(Bytes), UpTo(s, Len(sent)) PROVE UpTo(s, k) /\ Before(s, p)
    OBVIOUS
  <2>1. \A i \in 1 .. Len(s) : s[i][1] \in Nat /\ s[i][1] <= Len(sent)
    <3>1. \A i \in 1 .. Len(s) : s[i] \in Bytes
      OBVIOUS
    <3>2. \A y \in Bytes : y[1] \in Nat
      BY SMT DEF Bytes
    <3> QED
      BY <3>1, <3>2 DEF UpTo
  <2>2. UpTo(s, k)
    BY <2>1, <1>7, SMT DEF UpTo
  <2>3. ASSUME NEW i \in 1 .. Len(s), NEW j \in 1 .. Len(p) PROVE Earlier(s[i], p[j])
    <3>1. p[j][1] = k
      BY <1>5
    <3>2. s[i][1] < k
      BY <2>1, <1>7, SMT
    <3> QED
      BY <3>1, <3>2 DEF Earlier
  <2> QED
    BY <2>2, <2>3 DEF Before
<1>9. Ascends(p) /\ UpTo(p, k)
  <2>1. ASSUME NEW i \in 1 .. Len(p), NEW j \in 1 .. Len(p), i < j PROVE Earlier(p[i], p[j])
    BY <1>5, <2>1 DEF Earlier
  <2>2. UpTo(p, k)
    <3>1. k <= k
      BY <1>7, SMT
    <3> QED
      BY <1>5, <3>1 DEF UpTo
  <2> QED
    BY <2>1, <2>2 DEF Ascends
<1>10. Types'
  <2>1. inflight' \in Seq(Bytes)
    BY <1>1, <1>4, <1>6, JoinOrder
  <2>2. Len(sent') <= MaxPackets
    BY <1>1, <1>2, SMT
  <2> QED
    BY <1>1, <1>2, <2>1, <2>2 DEF IInv, Types
<1>11. Order'
  <2> HIDE DEF k
  <2> USE DEF IInv
  <2>1. \A i \in 1 .. Len(served) : served[i].payload \in Seq(Bytes)
    <3>1. \A i \in 1 .. Len(served) : served[i] \in Packet
      BY DEF Types
    <3> QED
      BY <3>1 DEF Packet
  <2>2. UpTo(inflight, k) /\ UpTo(wire, k) /\ UpTo(buf, k)
    BY <1>6, <1>8 DEF Order
  <2>3. Before(inflight, p) /\ Before(wire, p) /\ Before(buf, p)
    BY <1>6, <1>8 DEF Order
  <2>4. \A i \in 1 .. Len(served) : UpTo(served[i].payload, k) /\ Before(served[i].payload, p)
    BY <1>8, <2>1 DEF Order
  <2>5. Ascends(inflight') /\ UpTo(inflight', k)
    BY <1>1, <1>4, <1>6, <1>9, <2>2, <2>3, JoinOrder DEF Order
  <2>6. Before(buf, inflight') /\ Before(wire, inflight')
    BY <1>1, <1>4, <1>6, <2>3, JoinOrder DEF Order
  <2>7. Later(inflight)'
    <3>1. \A i \in 1 .. Len(served) : Before(served[i].payload, inflight')
      BY <1>1, <1>4, <1>6, <2>1, <2>4, JoinOrder DEF Order, Later
    <3> QED
      BY <1>1, <3>1 DEF Later
  <2>8. Later(wire)' /\ (handler' \in {"header", "payload"} => Later(buf)')
    BY <1>1 DEF Order, Later
  <2> QED
    BY <1>1, <1>2, <2>2, <2>4, <2>5, <2>6, <2>7, <2>8 DEF Order
<1> QED
  BY <1>10, <1>11 DEF IInv

\* The network moves the front of what is on its way to the end of the queue.
LEMMA DeliverInv == IInv /\ Deliver => IInv'
<1> SUFFICES ASSUME IInv, Deliver PROVE IInv'
  OBVIOUS
<1> PICK n \in Cuts : /\ wire' = wire \o SubSeq(inflight, 1, n)
                      /\ inflight' = SubSeq(inflight, n + 1, Len(inflight))
                      /\ UNCHANGED <<sent, shut, handler, at, buf, pos, h, served, replies>>
  BY DEF Deliver
<1> DEFINE c == SubSeq(inflight, 1, n)
<1>1. /\ inflight \in Seq(Bytes) /\ wire \in Seq(Bytes) /\ buf \in Seq(Bytes)
      /\ \A i \in 1 .. Len(served) : served[i].payload \in Seq(Bytes)
  <2>1. \A i \in 1 .. Len(served) : served[i] \in Packet
    BY DEF IInv, Types
  <2> QED
    BY <2>1 DEF IInv, Types, Packet
<1>2. n \in Nat /\ n <= Len(inflight) /\ n + 1 \in Int /\ 1 \in Int /\ Len(inflight) \in Int
      /\ 1 <= 1 /\ 1 <= n + 1 /\ Len(inflight) <= Len(inflight) /\ n \in Int
  BY <1>1, SMT DEF Cuts
<1>3. Ascends(inflight) /\ UpTo(inflight, Len(sent))
  BY DEF IInv, Order
<1>4. c \in Seq(Bytes) /\ inflight' \in Seq(Bytes)
  BY <1>1, <1>2, Piece
<1>5. Ascends(c) /\ UpTo(c, Len(sent)) /\ Ascends(inflight') /\ UpTo(inflight', Len(sent))
  BY <1>1, <1>2, <1>3, PieceOrder
<1>6. Before(c, inflight')
  BY <1>1, <1>2, <1>3, CutOrder
<1>7. \A u \in Seq(Bytes) : Before(u, inflight) => Before(u, c) /\ Before(u, inflight')
  BY <1>1, <1>2, PieceOrder
<1>8. wire' = wire \o c
  OBVIOUS
<1> HIDE DEF c
<1>9. Before(wire, c) /\ Before(wire, inflight') /\ Before(buf, c) /\ Before(buf, inflight')
  BY <1>1, <1>7 DEF IInv, Order
<1>10. wire' \in Seq(Bytes) /\ Ascends(wire') /\ UpTo(wire', Len(sent))
       /\ Before(wire', inflight') /\ Before(buf, wire')
  <2>1. /\ Ascends(wire) /\ UpTo(wire, Len(sent)) /\ Before(buf, wire)
    BY DEF IInv, Order
  <2>2. wire \o c \in Seq(Bytes) /\ Ascends(wire \o c) /\ UpTo(wire \o c, Len(sent))
    BY <1>1, <1>4, <1>5, <1>9, <2>1, JoinOrder
  <2>3. Before(wire \o c, inflight')
    BY <1>1, <1>4, <1>6, <1>9, JoinOrder
  <2>4. Before(buf, wire \o c)
    BY <1>1, <1>4, <1>9, <2>1, JoinOrder
  <2> QED
    BY <1>8, <2>2, <2>3, <2>4
<1>11. \A i \in 1 .. Len(served) :
         Before(served[i].payload, wire') /\ Before(served[i].payload, inflight')
  <2> SUFFICES ASSUME NEW i \in 1 .. Len(served)
               PROVE  Before(served[i].payload, wire \o c) /\ Before(served[i].payload, inflight')
    BY <1>8
  <2> DEFINE u == served[i].payload
  <2>1. u \in Seq(Bytes) /\ Before(u, wire) /\ Before(u, inflight)
    BY <1>1 DEF IInv, Order, Later
  <2> HIDE DEF u
  <2>2. Before(u, c) /\ Before(u, inflight')
    BY <1>7, <2>1
  <2>3. Before(u, wire \o c)
    BY <1>1, <1>4, <2>1, <2>2, JoinOrder
  <2> QED
    BY <2>2, <2>3 DEF u
<1>12. Types'
  BY <1>4, <1>10 DEF IInv, Types
<1>13. Order'
  <2>1. Later(wire)' /\ Later(inflight)' /\ (handler' \in {"header", "payload"} => Later(buf)')
    BY <1>11 DEF IInv, Order, Later
  <2> QED
    BY <1>5, <1>9, <1>10, <2>1 DEF IInv, Order
<1> QED
  BY <1>12, <1>13 DEF IInv

-----------------------------------------------------------------------------
\* A handler that closes the connection leaves all bytes where they are.
LEMMA CloseInv == IInv /\ CloseConnection => IInv'
<1> SUFFICES ASSUME IInv, CloseConnection PROVE IInv'
  OBVIOUS
<1>1. /\ handler' = "closed" /\ at' = "idle"
      /\ UNCHANGED <<sent, shut, inflight, wire, buf, pos, h, served, replies>>
  BY DEF CloseConnection, client
<1>2. Types'
  BY <1>1 DEF IInv, Types
<1>3. Order'
  BY <1>1 DEF IInv, Order, Later
<1> QED
  BY <1>2, <1>3 DEF IInv

\* A handler that only waits again does so, too.
LEMMA WaitsInv ==
  ASSUME IInv, UNCHANGED <<sent, shut, inflight, wire, handler, buf, pos, h, served, replies>>,
         at' = "idle" \/ at' = handler, at' \in Reading \cup {"idle"}
  PROVE  IInv'
<1>1. Types'
  BY DEF IInv, Types
<1>2. Order'
  BY DEF IInv, Order, Later
<1> QED
  BY <1>1, <1>2 DEF IInv

\* select() lets the handler of the connection run and moves nothing.
LEMMA ReportInv == IInv /\ Report => IInv'
<1> SUFFICES ASSUME IInv, Report PROVE IInv'
  OBVIOUS
<1>1. /\ at' = handler /\ handler \in Reading
      /\ UNCHANGED <<sent, shut, inflight, wire, handler, buf, pos, h, served, replies>>
  BY DEF Report, client
<1> QED
  BY <1>1, WaitsInv

\* The bytes a handler has received are to be served, and so are the rest.
LEMMA GrownInv ==
  ASSUME IInv, NEW b, Fresh(b, wire), RecvBytes(b),
         buf' = b \o Chunk(b), UNCHANGED <<sent, inflight, served>>
  PROVE  Order' /\ buf' \in Seq(Bytes) /\ Len(buf') <= BufSize /\ wire' \in Seq(Bytes)
<1>1. Types /\ Order
  BY DEF IInv
<1>2. Fresh(buf', wire')
  BY <1>1, Received
<1>3. Later(wire)' /\ Later(inflight)' /\ Later(buf)'
  BY <1>1, <1>2 DEF Fresh, Order, Later
<1> QED
  BY <1>1, <1>2, <1>3 DEF Fresh, Order

\* A new packet starts with an empty buffer.
LEMMA WaitInv == IInv /\ WaitApacket => IInv'
<1> SUFFICES ASSUME IInv, WaitApacket PROVE IInv'
  OBVIOUS
<1>1. CASE CloseConnection
  BY <1>1, CloseInv
<1>2. CASE /\ RecvBytes(ResetBuf)
           /\ buf' = ResetBuf \o Chunk(ResetBuf) /\ pos' = 0
           /\ \/ handler' = "closed" /\ at' = "idle"
              \/ handler' = "header" /\ at' = "header"
           /\ UNCHANGED <<client, h, served, replies>>
  <2>1. ResetBuf = <<>> /\ <<>> \in Seq(Bytes) /\ Len(<<>>) = 0 /\ 0 <= BufSize
    BY ReaderAssumption, SMT DEF ResetBuf
  <2>2. Fresh(ResetBuf, wire)
    <3>1. /\ Ascends(ResetBuf) /\ Before(ResetBuf, wire) /\ Before(ResetBuf, inflight)
          /\ UpTo(ResetBuf, Len(sent)) /\ Later(ResetBuf)
      BY <2>1, SMT DEF Ascends, Before, UpTo, Later
    <3> QED
      BY <2>1, <3>1 DEF IInv, Types, Order, Fresh
  <2>3. UNCHANGED <<sent, shut, inflight, h, served, replies>>
    BY <1>2 DEF client
  <2>4. Order' /\ buf' \in Seq(Bytes) /\ Len(buf') <= BufSize /\ wire' \in Seq(Bytes)
    BY <1>2, <2>1, <2>2, <2>3, GrownInv
  <2>5. handler' \in Reading \cup {"closed"} /\ at' \in Reading \cup {"idle"} /\ pos' \in Nat
        /\ handler' # "payload" /\ (at' # "idle" => handler' = at')
    BY <1>2 DEF Reading
  <2>6. Types'
    BY <2>3, <2>4, <2>5 DEF IInv, Types
  <2> QED
    BY <2>4, <2>6 DEF IInv
<1> QED
  BY <1>1, <1>2 DEF WaitApacket

-----------------------------------------------------------------------------
\* Whatever is in the buffer, it is taken for the header of some packet.
LEMMA HeaderLemma ==
  ASSUME sent \in Seq(Headers), NEW b
  PROVE  HeaderIn(b) \subseteq Headers
<1> DEFINE ms == {m \in 1 .. Len(sent) :
                    SubSeq(b, 1, HdrLen) = [j \in 1 .. HdrLen |-> Byte(m, j)]}
<1>1. {sent[k] : k \in ms} \subseteq Headers
  OBVIOUS
<1> HIDE DEF ms
<1>2. HeaderIn(b) = IF {sent[k] : k \in ms} # {} THEN {sent[k] : k \in ms} ELSE Headers
  BY DEF HeaderIn, ms
<1> QED
  BY <1>1, <1>2

\* Parsing a header touches neither the buffer nor the stream.
LEMMA ParseInv ==
  ASSUME IInv, at = "header", NEW b, ParseHeader(b),
         UNCHANGED <<sent, shut, inflight, served, replies>>,
         Order, Types,
         buf' \in Seq(Bytes), Len(buf') <= BufSize, wire' \in Seq(Bytes)
  PROVE  /\ Types'
         /\ handler' \in {"header", "payload"}
<1>1. handler = "header" /\ HdrLen \in Nat
  BY ReaderAssumption DEF Types
<1>2. CASE Parsed(b)
  <2>1. h' \in Headers
    BY <1>2, HeaderLemma DEF Parsed, Types
  <2>2. handler' = "payload" /\ at' = "payload" /\ pos' = pos + HdrLen
    BY <1>2 DEF Parsed
  <2>3. pos' \in Nat
    BY <1>1, <2>2, SMT DEF Types
  <2> QED
    BY <2>1, <2>2, <2>3 DEF Types, Reading
<1>3. CASE Unparsed
  BY <1>1, <1>3 DEF Unparsed, Types
<1> QED
  BY <1>2, <1>3 DEF ParseHeader

\* Reading a header adds bytes to the buffer and serves none.
LEMMA HeaderInv == IInv /\ ProcessHeader => IInv'
<1> SUFFICES ASSUME IInv, ProcessHeader PROVE IInv'
  OBVIOUS
<1>0. /\ Types /\ Order /\ at = "header" /\ handler = "header"
      /\ buf \in Seq(Bytes) /\ Len(buf) <= BufSize /\ wire \in Seq(Bytes)
  BY DEF IInv, Types, ProcessHeader
<1>1. CASE ParseHeader(buf) /\ UNCHANGED <<client, wire, buf, served, replies>>
  <2>1. UNCHANGED <<sent, shut, inflight, wire, buf, served, replies>>
    BY <1>1 DEF client
  <2>2. Types' /\ handler' \in {"header", "payload"}
    BY <1>0, <1>1, <2>1, ParseInv
  <2>3. Order'
    BY <1>0, <2>1, <2>2 DEF Order, Later
  <2> QED
    BY <2>2, <2>3 DEF IInv
<1>2. CASE /\ RecvBytes(buf) /\ buf' = buf \o Chunk(buf) /\ ParseHeader(buf')
           /\ UNCHANGED <<client, served, replies>>
  <2>1. UNCHANGED <<sent, shut, inflight, served, replies>>
    BY <1>2 DEF client
  <2>2. Fresh(buf, wire)
    BY <1>0 DEF Order, Fresh
  <2>3. Order' /\ buf' \in Seq(Bytes) /\ Len(buf') <= BufSize /\ wire' \in Seq(Bytes)
    BY <1>0, <1>2, <2>1, <2>2, GrownInv
  <2>4. Types'
    BY <1>0, <1>2, <2>1, <2>3, ParseInv
  <2> QED
    BY <2>3, <2>4 DEF IInv
<1>3. CASE /\ at' = "idle"
           /\ UNCHANGED <<client, wire, handler, buf, pos, h, served, replies>>
  <2>1. UNCHANGED <<sent, shut, inflight, wire, handler, buf, pos, h, served, replies>>
    BY <1>3 DEF client
  <2> QED
    BY <1>3, <2>1, WaitsInv
<1>4. CASE CloseConnection
  BY <1>4, CloseInv
<1> QED
  BY <1>1, <1>2, <1>3, <1>4 DEF ProcessHeader

-----------------------------------------------------------------------------
\* The payload is what the buffer holds behind pos: it follows all that was
\* served before, and all that is still to come follows it.
LEMMA ServeInv ==
  ASSUME IInv, at = "payload", NEW b, Fresh(b, wire'), ServePacket(b), buf' = b,
         UNCHANGED <<sent, shut, inflight, h>>
  PROVE  IInv'
<1>0. /\ handler = "payload" /\ h \in Headers /\ pos \in Nat /\ h.dlen \in Nat
      /\ inflight \in Seq(Bytes) /\ wire' \in Seq(Bytes) /\ b \in Seq(Bytes) /\ at' = "idle"
      /\ \A i \in 1 .. Len(served) : served[i] \in Packet /\ served[i].payload \in Seq(Bytes)
  <2>1. \A i \in 1 .. Len(served) : served[i] \in Packet
    BY DEF IInv, Types
  <2> QED
    BY <2>1, ReaderAssumption DEF IInv, Types, Fresh, ServePacket, Packet
<1>1. CASE handler' = "crashed" /\ UNCHANGED <<pos, served, replies>>
  <2>1. Types'
    BY <1>0, <1>1 DEF IInv, Types, Fresh
  <2>2. Later(wire)' /\ Later(inflight)'
    BY <1>1 DEF IInv, Order, Fresh, Later
  <2>3. Order'
    BY <1>1, <2>2 DEF IInv, Order, Fresh
  <2> QED
    BY <2>1, <2>3 DEF IInv
<1>2. ASSUME served' = Append(served, [header |-> h, payload |-> SubSeq(b, pos + 1, Len(b))]),
             pos' = pos + h.dlen,
             NEW v \in Verdicts,
             replies' = IF v = "ok" THEN Append(replies, Reply(h)) ELSE replies,
             handler' = After(v)
      PROVE  IInv'
  <2> DEFINE p == SubSeq(b, pos + 1, Len(b))
             n == Len(served)
  <2>1. handler' \in {"wait", "closed", "block"}
    BY <1>2 DEF Verdicts, Verdict, After
  <2>2. pos + 1 \in Int /\ 1 <= pos + 1 /\ Len(b) \in Int /\ Len(b) <= Len(b)
    BY <1>0, SMT
  <2>3. p \in Seq(Bytes)
    BY <1>0, <2>2, Piece
  <2>4. Ascends(p) /\ UpTo(p, Len(sent)) /\ Before(p, wire') /\ Before(p, inflight)
    BY <1>0, <2>2, PieceOrder DEF Fresh
  <2>5. \A i \in 1 .. n : Before(served[i].payload, p)
    BY <1>0, <2>2, PieceOrder DEF Fresh, Later
  <2> DEFINE pk == [header |-> h, payload |-> p]
  <2>6. served' = Append(served, pk)
    BY <1>2
  <2> HIDE DEF p
  <2>7. pk \in Packet /\ pk.payload = p
    BY <1>0, <2>3 DEF Packet
  <2> HIDE DEF pk
  <2>8. served \in Seq(Packet) /\ n \in Nat
    BY DEF IInv, Types
  <2>9. /\ served' \in Seq(Packet) /\ Len(served') = n + 1
        /\ \A i \in 1 .. n : served'[i] = served[i]
        /\ served'[n + 1] = pk
    BY <2>6, <2>7, <2>8, SMT
  <2> HIDE DEF n
  <2>10. \A i \in 1 .. Len(served') : i = n + 1 \/ i \in 1 .. n
    BY <2>8, <2>9, SMT
  <2>11. replies' \in Seq({Reply(x) : x \in Headers}) /\ Len(replies') <= Len(served')
    <3>1. replies \in Seq({Reply(x) : x \in Headers}) /\ Len(replies) <= n
      BY DEF IInv, Types, n
    <3>2. Reply(h) \in {Reply(x) : x \in Headers}
      BY <1>0
    <3> QED
      BY <1>2, <2>8, <2>9, <3>1, <3>2, SMT
  <2>12. Types'
    <3>1. pos' \in Nat
      BY <1>0, <1>2, SMT
    <3> QED
      BY <1>0, <2>1, <2>9, <2>11, <3>1 DEF IInv, Types, Fresh, Reading
  <2>13. \A i \in 1 .. n : /\ Ascends(served[i].payload) /\ UpTo(served[i].payload, Len(sent))
                           /\ Before(served[i].payload, wire') /\ Before(served[i].payload, inflight)
                           /\ \A j \in 1 .. n : i < j => Before(served[i].payload, served[j].payload)
    BY DEF IInv, Order, Fresh, Later, n
  <2>14. Later(wire)' /\ Later(inflight)'
    BY <2>4, <2>7, <2>9, <2>10, <2>13 DEF Later
  <2>15. \A i \in 1 .. Len(served') : Ascends(served'[i].payload) /\ UpTo(served'[i].payload, Len(sent'))
    BY <2>4, <2>7, <2>9, <2>10, <2>13
  <2>16. ASSUME NEW i \in 1 .. Len(served'), NEW j \in 1 .. Len(served'), i < j
         PROVE  Before(served'[i].payload, served'[j].payload)
    <3>1. i \in 1 .. n
      BY <2>8, <2>9, <2>16, SMT
    <3>2. CASE j \in 1 .. n
      BY <2>9, <2>13, <2>16, <3>1, <3>2
    <3>3. CASE j = n + 1
      BY <2>5, <2>7, <2>9, <3>1, <3>3 DEF n
    <3> QED
      BY <2>10, <3>2, <3>3
  <2>17. Order'
    BY <1>0, <2>1, <2>14, <2>15, <2>16 DEF IInv, Order, Fresh
  <2> QED
    BY <2>12, <2>17 DEF IInv
<1> QED
  BY <1>1, <1>2 DEF ServePacket

\* Reading a payload adds bytes, serves them, or cuts two off the end.
LEMMA PayloadInv == IInv /\ ProcessPayload => IInv'
<1> SUFFICES ASSUME IInv, ProcessPayload PROVE IInv'
  OBVIOUS
<1>0. Types /\ Order /\ at = "payload" /\ handler = "payload" /\ Fresh(buf, wire)
  BY DEF IInv, Types, Order, Fresh, ProcessPayload
<1>1. CASE ServePacket(buf) /\ UNCHANGED <<client, wire, buf, h>>
  <2>1. UNCHANGED <<sent, shut, inflight, wire, buf, h>>
    BY <1>1 DEF client
  <2>2. Fresh(buf, wire')
    BY <1>0, <2>1
  <2> QED
    BY <1>0, <1>1, <2>1, <2>2, ServeInv
<1>2. CASE /\ RecvBytes(buf) /\ buf' = buf \o Chunk(buf) /\ ServePacket(buf')
           /\ UNCHANGED <<client, h>>
  <2>1. UNCHANGED <<sent, shut, inflight, h>>
    BY <1>2 DEF client
  <2>2. Fresh(buf', wire')
    BY <1>0, <1>2, Received
  <2> QED
    BY <1>0, <1>2, <2>1, <2>2, ServeInv
<1>3. CASE /\ buf' = SubSeq(buf, 1, Len(buf) - 2) /\ at' = "idle"
           /\ UNCHANGED <<client, wire, handler, pos, h, served, replies>>
  <2>1. UNCHANGED <<sent, shut, inflight, wire, handler, pos, h, served, replies>>
    BY <1>3 DEF client
  <2>2. /\ buf \in Seq(Bytes) /\ 1 \in Int /\ Len(buf) - 2 \in Int /\ 1 <= 1
        /\ Len(buf) - 2 <= Len(buf) /\ wire \in Seq(Bytes) /\ inflight \in Seq(Bytes)
        /\ \A i \in 1 .. Len(served) : served[i].payload \in Seq(Bytes)
    <3>1. \A i \in 1 .. Len(served) : served[i] \in Packet
      BY <1>0 DEF Types
    <3> QED
      BY <1>0, <3>1, SMT DEF Types, Packet
  <2>3. buf' \in Seq(Bytes) /\ Len(buf') <= BufSize
    <3>1. Len(buf) \in Nat /\ Len(buf) <= BufSize /\ BufSize \in Nat
      BY <1>0, ReaderAssumption DEF Types
    <3>2. buf' \in Seq(Bytes) /\ Len(buf') = IF 1 <= Len(buf) - 2 THEN (Len(buf) - 2) - 1 + 1 ELSE 0
      BY <1>3, <2>2, Piece
    <3> QED
      BY <3>1, <3>2, SMT
  <2>4. Ascends(buf') /\ UpTo(buf', Len(sent)) /\ Before(buf', wire) /\ Before(buf', inflight)
    BY <1>0, <1>3, <2>2, PieceOrder DEF Fresh
  <2>5. \A i \in 1 .. Len(served) : Before(served[i].payload, buf')
    BY <1>0, <1>3, <2>2, PieceOrder DEF Fresh, Later
  <2>6. Later(buf)' /\ Later(wire)' /\ Later(inflight)'
    BY <1>0, <2>1, <2>5 DEF Order, Later
  <2>7. Types'
    BY <1>0, <1>3, <2>1, <2>3 DEF Types
  <2>8. Order'
    BY <1>0, <2>1, <2>4, <2>6 DEF Order
  <2> QED
    BY <2>7, <2>8 DEF IInv
<1>4. CASE CloseConnection
  BY <1>4, CloseInv
<1> QED
  BY <1>1, <1>2, <1>3, <1>4 DEF ProcessPayload

\* Every step keeps the invariant.
LEMMA StepInv == IInv /\ [Next]_vars => IInv'
<1> SUFFICES ASSUME IInv, [Next]_vars PROVE IInv'
  OBVIOUS
<1>1. CASE \E hd \in Headers : Send(hd)
  BY <1>1, SendInv
<1>2. CASE Shut
  <2>1. Types'
    BY <1>2 DEF Shut, IInv, Types
  <2>2. Order'
    BY <1>2 DEF Shut, IInv, Order, Later
  <2> QED
    BY <2>1, <2>2 DEF IInv
<1>3. CASE Deliver
  BY <1>3, DeliverInv
<1>4. CASE Daemon
  BY <1>4, ReportInv, WaitInv, HeaderInv, PayloadInv DEF Daemon
<1>5. CASE UNCHANGED vars
  <2>1. Types'
    BY <1>5 DEF vars, client, IInv, Types
  <2>2. Order'
    BY <1>5 DEF vars, client, IInv, Order, Later
  <2> QED
    BY <2>1, <2>2 DEF IInv
<1> QED
  BY <1>1, <1>2, <1>3, <1>4, <1>5 DEF Next

\* The bytes that wait to be served always follow those that were served.
THEOREM ReaderInvariant == Spec => []IInv
<1> QED
  BY InitInv, StepInv, PTL DEF Spec

\* The invariant covers the types.
LEMMA InvTypeOK == IInv => TypeOK
<1> SUFFICES ASSUME IInv PROVE TypeOK
  OBVIOUS
<1>1. \A i \in 1 .. Len(served) : served[i] \in Packet
  BY DEF IInv, Types
<1> QED
  BY <1>1 DEF IInv, Types, TypeOK, Packet

\* The buffer is never written behind its end, however much arrives.
THEOREM TypesAlwaysOK == Spec => []TypeOK
<1> QED
  BY InvTypeOK, ReaderInvariant, PTL

\* No byte of the stream reaches two payloads, and their order is kept.
THEOREM BytesAlwaysInOrder == Spec => []BytesInOrder
<1>1. IInv => BytesInOrder
  <2> SUFFICES ASSUME IInv,
                      NEW i \in 1 .. Len(served), NEW j \in 1 .. Len(served),
                      NEW a \in 1 .. Len(served[i].payload), NEW b \in 1 .. Len(served[j].payload),
                      i < j \/ (i = j /\ a < b)
               PROVE  Earlier(served[i].payload[a], served[j].payload[b])
    BY DEF BytesInOrder
  <2>1. CASE i < j
    BY <2>1 DEF IInv, Order, Before
  <2>2. CASE i = j /\ a < b
    BY <2>2 DEF IInv, Order, Ascends
  <2> QED
    BY <2>1, <2>2
<1> QED
  BY <1>1, ReaderInvariant, PTL

-----------------------------------------------------------------------------
Polite == Window = 1 /\ Splits = FALSE /\ Failing = {}

\* s holds the bytes of the k-th packet that follow the first o.
Slice(s, k, o) == \A i \in 1 .. Len(s) : s[i] = Byte(k, o + i)

\* What was received of the packet that is being read.
Held == IF handler \in {"header", "payload"} THEN buf ELSE <<>>

\* All packets are answered.
Rest ==
  /\ Len(sent) = Len(served)
  /\ handler = "wait" /\ wire = <<>> /\ inflight = <<>>

\* One packet is on its way: its bytes are split between the buffer, the
\* socket and the network, where they only are while its header is not whole.
\* Of a whole header the buffer has got all it can.  A client that has gone may
\* have taken with it what was not received yet.
Underway ==
  /\ Len(sent) = Len(served) + 1
  /\ Slice(Held, Len(sent), 0)
  /\ Slice(wire, Len(sent), Len(Held))
  /\ Slice(inflight, Len(sent), Len(Held) + Len(wire))
  /\ Len(Held) + Len(wire) + Len(inflight) <= HdrLen + sent[Len(sent)].dlen
  /\ AtEnd \/ Len(Held) + Len(wire) + Len(inflight) = HdrLen + sent[Len(sent)].dlen
  /\ inflight = <<>> \/ Len(Held) + Len(wire) < HdrLen
  /\ Len(Held) >= HdrLen => wire = <<>> \/ Len(Held) = BufSize
  /\ handler = "header" => pos = 0
  /\ handler = "payload" => pos = HdrLen /\ Len(Held) >= HdrLen /\ h = sent[Len(sent)]

SInv ==
  /\ Len(served) <= Len(sent)
  /\ handler \in Reading =>
       /\ Len(replies) = Len(served)
       /\ \A i \in 1 .. Len(served) : Verdict(served[i].header) = "ok"
       /\ Rest \/ Underway

\* Where recv() cuts the bytes of the packet between the buffer and the queue.
LEMMA ReceivedSlices ==
  ASSUME wire \in Seq(Bytes), NEW b \in Seq(Bytes), Len(b) <= BufSize, RecvBytes(b),
         NEW k, Slice(b, k, 0), Slice(wire, k, Len(b))
  PROVE  LET nb == b \o Chunk(b)
         IN /\ nb \in Seq(Bytes) /\ Slice(nb, k, 0) /\ Slice(wire', k, Len(nb))
            /\ Len(nb) + Len(wire') = Len(b) + Len(wire)
            /\ wire' = <<>> \/ Len(nb) = BufSize
            /\ wire' \in Seq(Bytes)
<1> DEFINE c == Chunk(b)
           n == Len(c)
           nb == b \o c
<1>1. c \in Seq(Bytes) /\ n \in 0 .. Len(wire) /\ c = SubSeq(wire, 1, n)
  BY ChunkLemma
<1>2. n = Min(Room(b), Len(wire))
  <2>1. Min(Room(b), Len(wire)) \in 0 .. Len(wire)
    BY ReaderAssumption, SMT DEF Min, Room
  <2> DEFINE l == Min(Room(b), Len(wire))
  <2> HIDE DEF l
  <2>2. Len(SubSeq(wire, 1, l)) = IF 1 <= l THEN l - 1 + 1 ELSE 0
    BY <2>1, Piece, SMT DEF l
  <2>3. Len(SubSeq(wire, 1, l)) = l
    BY <2>1, <2>2, SMT DEF l
  <2> QED
    BY <2>3 DEF Chunk, l
<1>3. wire' = SubSeq(wire, n + 1, Len(wire))
  BY DEF RecvBytes
<1> HIDE DEF c
<1>4. /\ \A i \in 1 .. n : c[i] = wire[i]
  <2>1. \A i \in 1 .. n : c[i] = wire[1 + i - 1]
    BY <1>1, Piece, SMT
  <2> QED
    BY <1>1, <2>1, SMT
<1>5. /\ wire' \in Seq(Bytes) /\ Len(wire') = Len(wire) - n
      /\ \A i \in 1 .. Len(wire') : wire'[i] = wire[n + i] /\ n + i \in 1 .. Len(wire)
  <2>1. n \in Nat /\ n <= Len(wire)
    BY <1>1, SMT
  <2> HIDE DEF n
  <2>2. /\ wire' \in Seq(Bytes) /\ Len(wire') = IF n + 1 <= Len(wire) THEN Len(wire) - (n + 1) + 1 ELSE 0
        /\ \A i \in 1 .. Len(wire') : wire'[i] = wire[(n + 1) + i - 1] /\ (n + 1) + i - 1 \in n + 1 .. Len(wire)
    BY <1>3, <2>1, Piece, SMT
  <2>3. Len(wire') = Len(wire) - n
    BY <2>1, <2>2, SMT
  <2>4. \A i \in 1 .. Len(wire') : (n + 1) + i - 1 = n + i /\ n + i \in 1 .. Len(wire)
    BY <2>1, <2>2, SMT
  <2> QED
    BY <2>2, <2>3, <2>4
<1>6. /\ nb \in Seq(Bytes) /\ Len(nb) = Len(b) + n
      /\ \A i \in 1 .. Len(nb) : nb[i] = IF i <= Len(b) THEN b[i] ELSE c[i - Len(b)]
  BY <1>1, ConcatProperties
<1> HIDE DEF nb, n
<1>7. Slice(nb, k, 0)
  <2> SUFFICES ASSUME NEW i \in 1 .. Len(nb) PROVE nb[i] = Byte(k, 0 + i)
    BY DEF Slice
  <2>1. CASE i <= Len(b)
    BY <1>6, <2>1, SMT DEF Slice
  <2>2. CASE i > Len(b)
    <3>1. i - Len(b) \in 1 .. n /\ i - Len(b) \in 1 .. Len(wire)
      BY <1>1, <1>6, <2>2, SMT DEF n
    <3>2. nb[i] = wire[i - Len(b)]
      BY <1>4, <1>6, <2>2, <3>1, SMT
    <3>3. wire[i - Len(b)] = Byte(k, Len(b) + (i - Len(b)))
      BY <3>1 DEF Slice
    <3>4. Len(b) + (i - Len(b)) = 0 + i
      BY <1>6, SMT
    <3> QED
      BY <3>2, <3>3, <3>4
  <2>3. i <= Len(b) \/ i > Len(b)
    BY <1>6, SMT
  <2> QED
    BY <2>1, <2>2, <2>3
<1>8. Slice(wire', k, Len(nb))
  <2> SUFFICES ASSUME NEW i \in 1 .. Len(wire') PROVE wire'[i] = Byte(k, Len(nb) + i)
    BY DEF Slice
  <2>1. wire'[i] = Byte(k, Len(b) + (n + i))
    BY <1>5 DEF Slice
  <2>2. Len(b) + (n + i) = Len(nb) + i
    BY <1>1, <1>6, SMT DEF n
  <2> QED
    BY <2>1, <2>2
<1>9. Len(nb) + Len(wire') = Len(b) + Len(wire)
  BY <1>1, <1>5, <1>6, SMT DEF n
<1>10. wire' = <<>> \/ Len(nb) = BufSize
  <2>1. CASE Room(b) < Len(wire)
    BY <1>2, <1>6, <2>1, ReaderAssumption, SMT DEF Min, Room
  <2>2. CASE ~(Room(b) < Len(wire))
    <3>1. n = Len(wire)
      BY <1>2, <2>2 DEF Min
    <3>2. Len(wire') = 0
      BY <1>5, <3>1, SMT
    <3> QED
      BY <1>5, <3>2, EmptySeq
  <2> QED
    BY <2>1, <2>2
<1> QED
  BY <1>5, <1>6, <1>7, <1>8, <1>9, <1>10 DEF nb, c

\* A new packet is all in the network.
LEMMA SendSlices ==
  ASSUME Polite, Types, SInv, NEW hd \in Headers, Send(hd)
  PROVE  SInv'
<1>1. /\ sent \in Seq(Headers) /\ sent' = Append(sent, hd)
      /\ UNCHANGED <<wire, handler, buf, pos, h, served, replies>>
      /\ inflight' = inflight \o [j \in 1 .. HdrLen + hd.dlen |-> Byte(Len(sent) + 1, j)]
      /\ Len(sent) < Len(replies) + 1
  BY DEF Send, Polite, Types
<1>2. Len(sent') = Len(sent) + 1 /\ sent'[Len(sent')] = hd
  BY <1>1, SMT
<1>3. Len(sent) \in Nat /\ Len(served) \in Nat /\ Len(replies) \in Nat
  BY <1>1 DEF Types
<1>4. Len(served') <= Len(sent')
  BY <1>1, <1>2, <1>3, SMT DEF SInv
<1>5. ASSUME handler \in Reading PROVE Underway'
  <2>1. Len(replies) = Len(served) /\ (Rest \/ Underway)
    BY <1>5 DEF SInv
  <2>2. ~Underway
    BY <1>1, <1>3, <2>1, SMT DEF Underway
  <2>3. Len(sent) = Len(served) /\ handler = "wait" /\ wire = <<>> /\ inflight = <<>>
    BY <2>1, <2>2 DEF Rest
  <2> DEFINE p == [j \in 1 .. HdrLen + hd.dlen |-> Byte(Len(sent) + 1, j)]
  <2>4. HdrLen + hd.dlen \in Nat
    BY ReaderAssumption, SMT
  <2>5. p \in Seq({Byte(Len(sent) + 1, j) : j \in 1 .. HdrLen + hd.dlen}) /\ Len(p) = HdrLen + hd.dlen
    BY <2>4, SMT
  <2>6. \A j \in 1 .. Len(p) : p[j] = Byte(Len(sent) + 1, j)
    BY <2>5
  <2>7. inflight' = <<>> \o p
    BY <1>1, <2>3
  <2> HIDE DEF p
  <2>8. inflight' = p
    BY <2>5, <2>7, ConcatEmptySeq
  <2>9. Held' = <<>> /\ wire' = <<>> /\ handler' = "wait" /\ Len(<<>>) = 0
    BY <1>1, <2>3 DEF Held
  <2>10. Slice(Held', Len(sent'), 0) /\ Slice(wire', Len(sent'), 0)
    BY <2>9, SMT DEF Slice
  <2>11. Slice(inflight', Len(sent'), 0 + 0)
    <3>1. ASSUME NEW j \in 1 .. Len(p) PROVE p[j] = Byte(Len(sent'), (0 + 0) + j)
      <4>1. (0 + 0) + j = j
        BY <2>4, <2>5, SMT
      <4> QED
        BY <1>2, <2>6, <4>1
    <3> QED
      BY <2>8, <3>1 DEF Slice
  <2>12. /\ Len(Held') + Len(wire') + Len(inflight') = HdrLen + sent'[Len(sent')].dlen
         /\ Len(Held') + Len(wire') + Len(inflight') <= HdrLen + sent'[Len(sent')].dlen
    BY <1>2, <2>4, <2>5, <2>8, <2>9, SMT
  <2>13. Len(Held') + Len(wire') < HdrLen /\ ~(Len(Held') >= HdrLen)
    BY <2>9, ReaderAssumption, SMT
  <2>14. Len(sent') = Len(served') + 1
    BY <1>1, <1>2, <1>3, <2>3, SMT
  <2> QED
    BY <2>9, <2>10, <2>11, <2>12, <2>13, <2>14 DEF Underway
<1> QED
  BY <1>1, <1>4, <1>5 DEF SInv

\* The network hands over a piece of the header, or all that is left.
LEMMA DeliverSlices ==
  ASSUME Polite, Types, SInv, Deliver
  PROVE  SInv'
<1>0. PICK n \in Cuts : /\ wire' = wire \o SubSeq(inflight, 1, n)
                      /\ inflight' = SubSeq(inflight, n + 1, Len(inflight))
                      /\ UNCHANGED <<sent, shut, handler, at, buf, pos, h, served, replies>>
  BY DEF Deliver
<1>1. /\ inflight \in Seq(Bytes) /\ wire \in Seq(Bytes) /\ buf \in Seq(Bytes)
      /\ n \in 1 .. Len(inflight)
      /\ n = Len(inflight) \/ inflight[n][2] < HdrLen
  BY <1>0 DEF Types, Cuts, Polite
<1>2. ASSUME handler \in Reading PROVE Underway'
  <2> DEFINE k == Len(sent)
             c == SubSeq(inflight, 1, n)
             d == Len(Held) + Len(wire)
  <2>1. Underway
    <3>1. ~Rest
      BY <1>1, SMT DEF Rest
    <3> QED
      BY <1>2, <3>1 DEF SInv
  <2>2. Held' = Held /\ Held \in Seq(Bytes) /\ Len(Held) \in Nat /\ Len(wire) \in Nat /\ Len(inflight) \in Nat
    <3>1. <<>> \in Seq(Bytes)
      OBVIOUS
    <3> QED
      BY <1>0, <1>1, <3>1 DEF Held
  <2>3. /\ c \in Seq(Bytes) /\ Len(c) = n
        /\ \A i \in 1 .. n : c[i] = inflight[i]
    <3>0. 1 \in Int /\ n \in Int /\ 1 <= 1 /\ n <= Len(inflight)
      BY <1>1, SMT
    <3>1. /\ c \in Seq(Bytes) /\ Len(c) = IF 1 <= n THEN n - 1 + 1 ELSE 0
          /\ \A i \in 1 .. Len(c) : c[i] = inflight[1 + i - 1]
      BY <1>1, <3>0, Piece
    <3> HIDE DEF c
    <3> QED
      BY <1>1, <3>1, SMT
  <2>4. /\ inflight' \in Seq(Bytes) /\ Len(inflight') = Len(inflight) - n
        /\ \A i \in 1 .. Len(inflight') : inflight'[i] = inflight[n + i] /\ n + i \in 1 .. Len(inflight)
    <3>1. /\ inflight' \in Seq(Bytes)
          /\ Len(inflight') = IF n + 1 <= Len(inflight) THEN Len(inflight) - (n + 1) + 1 ELSE 0
          /\ \A i \in 1 .. Len(inflight') :
               inflight'[i] = inflight[(n + 1) + i - 1] /\ (n + 1) + i - 1 \in n + 1 .. Len(inflight)
      <4>1. n + 1 \in Int /\ Len(inflight) \in Int /\ 1 <= n + 1 /\ Len(inflight) <= Len(inflight)
        BY <1>1, <2>2, SMT
      <4> DEFINE q == SubSeq(inflight, n + 1, Len(inflight))
      <4>2. /\ q \in Seq(Bytes)
            /\ Len(q) = IF n + 1 <= Len(inflight) THEN Len(inflight) - (n + 1) + 1 ELSE 0
            /\ \A i \in 1 .. Len(q) :
                 q[i] = inflight[(n + 1) + i - 1] /\ (n + 1) + i - 1 \in n + 1 .. Len(inflight)
        BY <1>1, <4>1, Piece
      <4>3. inflight' = q
        BY <1>0
      <4> HIDE DEF q
      <4> QED
        BY <4>2, <4>3
    <3>2. Len(inflight') = Len(inflight) - n
      BY <1>1, <2>2, <3>1, SMT
    <3>3. ASSUME NEW i \in 1 .. Len(inflight')
          PROVE  (n + 1) + i - 1 = n + i /\ n + i \in 1 .. Len(inflight)
      BY <1>1, <2>2, <3>2, SMT
    <3> QED
      BY <3>1, <3>2, <3>3
  <2> HIDE DEF c
  <2>5. wire' = wire \o c
    BY <1>0 DEF c
  <2>6. /\ wire' \in Seq(Bytes) /\ Len(wire') = Len(wire) + n
        /\ \A i \in 1 .. Len(wire') : wire'[i] = IF i <= Len(wire) THEN wire[i] ELSE c[i - Len(wire)]
    <3>1. /\ wire \o c \in Seq(Bytes) /\ Len(wire \o c) = Len(wire) + Len(c)
          /\ \A i \in 1 .. Len(wire) + Len(c) :
               (wire \o c)[i] = IF i <= Len(wire) THEN wire[i] ELSE c[i - Len(wire)]
      BY <1>1, <2>3, ConcatProperties
    <3> QED
      BY <2>3, <2>5, <3>1
  <2>7. d < HdrLen /\ Len(Held) < HdrLen
    BY <1>1, <2>1, <2>2, ReaderAssumption, SMT DEF Underway
  <2>0. n \in Nat /\ Len(wire') \in Nat /\ Len(inflight') \in Nat /\ Len(wire') = Len(wire) + n
        /\ Len(inflight') = Len(inflight) - n
    BY <1>1, <2>4, <2>6, SMT
  <2>8. Slice(wire', k, Len(Held))
    <3> SUFFICES ASSUME NEW i \in 1 .. Len(wire') PROVE wire'[i] = Byte(k, Len(Held) + i)
      BY DEF Slice
    <3>1. CASE i <= Len(wire)
      <4>1. i \in 1 .. Len(wire)
        BY <2>2, <2>6, <3>1, SMT
      <4> QED
        BY <2>1, <2>6, <3>1, <4>1 DEF Underway, Slice
    <3>2. CASE ~(i <= Len(wire))
      <4>1. i - Len(wire) \in 1 .. n /\ i - Len(wire) \in 1 .. Len(inflight)
            /\ d + (i - Len(wire)) = Len(Held) + i
        BY <1>1, <2>2, <2>6, <3>2, SMT
      <4>2. wire'[i] = inflight[i - Len(wire)]
        BY <2>3, <2>6, <3>2, <4>1
      <4>3. inflight[i - Len(wire)] = Byte(k, d + (i - Len(wire)))
        BY <2>1, <4>1 DEF Underway, Slice
      <4> QED
        BY <4>1, <4>2, <4>3
    <3> QED
      BY <3>1, <3>2
  <2>9. Slice(inflight', k, Len(Held) + Len(wire'))
    <3> SUFFICES ASSUME NEW i \in 1 .. Len(inflight')
                 PROVE  inflight'[i] = Byte(k, (Len(Held) + Len(wire')) + i)
      BY DEF Slice
    <3>1. inflight'[i] = Byte(k, d + (n + i))
      BY <2>1, <2>4 DEF Underway, Slice
    <3>2. d + (n + i) = (Len(Held) + Len(wire')) + i
      BY <2>0, <2>2, SMT
    <3> QED
      BY <3>1, <3>2
  <2>10. /\ Len(Held) + Len(wire') + Len(inflight') = HdrLen + sent[Len(sent)].dlen
         /\ Len(Held) + Len(wire') + Len(inflight') <= HdrLen + sent[Len(sent)].dlen
    <3>1. /\ Len(Held) + Len(wire) + Len(inflight) = HdrLen + sent[Len(sent)].dlen
          /\ Len(Held) + Len(wire) + Len(inflight) <= HdrLen + sent[Len(sent)].dlen
      <4>1. ~AtEnd
        BY <1>1, SMT DEF AtEnd
      <4> QED
        BY <2>1, <4>1 DEF Underway
    <3>2. Len(Held) + Len(wire') + Len(inflight') = Len(Held) + Len(wire) + Len(inflight)
      BY <2>0, <2>2, SMT
    <3> QED
      BY <3>1, <3>2
  <2>11. inflight' = <<>> \/ Len(Held) + Len(wire') < HdrLen
    <3>1. CASE n = Len(inflight)
      <4>1. Len(inflight') = 0
        BY <2>2, <2>4, <3>1, SMT
      <4> QED
        BY <2>4, <4>1, EmptySeq
    <3>2. CASE inflight[n][2] < HdrLen
      <4>1. inflight[n] = Byte(k, d + n)
        BY <1>1, <2>1 DEF Underway, Slice
      <4>2. d + n < HdrLen
        BY <3>2, <4>1 DEF Byte
      <4> QED
        BY <1>1, <2>2, <2>6, <4>2, SMT
    <3> QED
      BY <1>1, <3>1, <3>2
  <2>12. ~(Len(Held) >= HdrLen) /\ handler # "payload"
    <3>1. ~(Len(Held) >= HdrLen)
      BY <2>2, <2>7, ReaderAssumption, SMT
    <3> QED
      BY <2>1, <3>1 DEF Underway
  <2> QED
    BY <1>0, <2>1, <2>2, <2>8, <2>9, <2>10, <2>11, <2>12 DEF Underway
<1> QED
  BY <1>0, <1>2 DEF SInv

-----------------------------------------------------------------------------
Quiet == UNCHANGED <<sent, served, replies>>

\* A connection that was closed promises nothing more.
LEMMA CloseSlices ==
  ASSUME SInv, CloseConnection
  PROVE  SInv' /\ Quiet
<1>1. handler' = "closed" /\ Quiet
  BY DEF CloseConnection, client, Quiet
<1> QED
  BY <1>1 DEF SInv, Quiet, Reading

\* select() lets a handler run and leaves the packet where it is.
LEMMA ReportSlices ==
  ASSUME SInv, Report
  PROVE  SInv' /\ Quiet
<1>1. UNCHANGED <<sent, shut, inflight, wire, handler, buf, pos, h, served, replies>>
  BY DEF Report, client
<1> QED
  BY <1>1 DEF SInv, Quiet, Rest, Underway, AtEnd, Held, Slice

\* A handler that is to receive bytes does so for a packet that is under way.
LEMMA BusyLemma ==
  ASSUME Types, SInv, handler \in Reading,
         wire # <<>> \/ handler \in {"header", "payload"}
  PROVE  Underway
BY DEF SInv, Rest

\* After a recv() the packet still is under way.
LEMMA MoreSlices ==
  ASSUME Types, Underway, RecvBytes(Held),
         buf' = Held \o Chunk(Held), handler' \in {"header", "payload"},
         UNCHANGED <<sent, inflight, served>>,
         handler' = "header" => pos' = 0,
         handler' = "payload" => pos' = HdrLen /\ Len(buf') >= HdrLen /\ h' = sent[Len(sent)]
  PROVE  Underway'
<1>1. /\ wire \in Seq(Bytes) /\ Held \in Seq(Bytes) /\ Len(Held) <= BufSize
      /\ inflight \in Seq(Bytes)
  <2>1. <<>> \in Seq(Bytes) /\ Len(<<>>) = 0 /\ 0 <= BufSize
    BY ReaderAssumption, SMT
  <2> QED
    BY <2>1 DEF Types, Held
<1>2. Slice(Held, Len(sent), 0) /\ Slice(wire, Len(sent), Len(Held))
  BY DEF Underway
<1>3. /\ buf' \in Seq(Bytes) /\ Slice(buf', Len(sent), 0) /\ Slice(wire', Len(sent), Len(buf'))
      /\ Len(buf') + Len(wire') = Len(Held) + Len(wire)
      /\ wire' = <<>> \/ Len(buf') = BufSize
  BY <1>1, <1>2, ReceivedSlices
<1>4. Held' = buf'
  BY DEF Held
<1>5. Slice(inflight', Len(sent'), Len(Held') + Len(wire'))
  BY <1>3, <1>4 DEF Underway, Slice
<1>6. /\ Len(Held') + Len(wire') + Len(inflight') = HdrLen + sent'[Len(sent')].dlen
      /\ Len(Held') + Len(wire') + Len(inflight') <= HdrLen + sent'[Len(sent')].dlen
  <2>1. ~AtEnd
    <3>1. CASE wire = <<>>
      <4>1. Len(wire) = 0 /\ Chunk(Held) \in Seq(Bytes) /\ Len(Chunk(Held)) \in 0 .. Len(wire)
        BY <1>1, <3>1, ChunkLemma
      <4> QED
        BY <4>1, EmptySeq, SMT DEF RecvBytes
    <3> QED
      BY <3>1 DEF AtEnd
  <2> QED
    BY <1>3, <1>4, <2>1 DEF Underway
<1> QED
  BY <1>3, <1>4, <1>5, <1>6 DEF Underway

\* A whole header in the buffer is the one the client sent.
LEMMA HeaderFound ==
  ASSUME Types, NEW b \in Seq(Bytes), Len(sent) \in 1 .. Len(sent),
         Slice(b, Len(sent), 0), Len(b) >= HdrLen
  PROVE  HeaderIn(b) = {sent[Len(sent)]}
<1> DEFINE k == Len(sent)
           Of(m) == [j \in 1 .. HdrLen |-> Byte(m, j)]
           ms == {m \in 1 .. Len(sent) : SubSeq(b, 1, HdrLen) = Of(m)}
<1>1. HdrLen \in Nat /\ 1 \in 1 .. HdrLen /\ Len(b) \in Nat
  BY ReaderAssumption, SMT
<1>2. /\ SubSeq(b, 1, HdrLen) \in Seq(Bytes) /\ Len(SubSeq(b, 1, HdrLen)) = HdrLen
      /\ \A i \in 1 .. HdrLen : SubSeq(b, 1, HdrLen)[i] = Byte(k, i)
  <2>1. 1 \in Int /\ HdrLen \in Int /\ 1 <= 1 /\ HdrLen <= Len(b)
    BY <1>1, SMT
  <2>2. /\ SubSeq(b, 1, HdrLen) \in Seq(Bytes)
        /\ Len(SubSeq(b, 1, HdrLen)) = IF 1 <= HdrLen THEN HdrLen - 1 + 1 ELSE 0
        /\ \A i \in 1 .. Len(SubSeq(b, 1, HdrLen)) : SubSeq(b, 1, HdrLen)[i] = b[1 + i - 1]
    BY <2>1, Piece
  <2> DEFINE q == SubSeq(b, 1, HdrLen)
  <2> HIDE DEF q
  <2>3. Len(q) = HdrLen
    BY <1>1, <2>2, SMT DEF q
  <2>4. ASSUME NEW i \in 1 .. HdrLen PROVE q[i] = Byte(k, i)
    <3>1. 1 + i - 1 = i /\ 0 + i = i /\ i \in 1 .. Len(b)
      BY <1>1, SMT
    <3>2. q[i] = b[i]
      BY <2>2, <2>3, <3>1 DEF q
    <3>3. b[i] = Byte(k, 0 + i)
      BY <3>1 DEF Slice
    <3> QED
      BY <3>1, <3>2, <3>3
  <2> QED
    BY <2>2, <2>3, <2>4 DEF q
<1>3. SubSeq(b, 1, HdrLen) = Of(k)
  <2> DEFINE q == SubSeq(b, 1, HdrLen)
  <2> HIDE DEF q
  <2>1. q \in [1 .. HdrLen -> Bytes]
    <3>1. q \in Seq(Bytes) /\ Len(q) = HdrLen
      BY <1>2 DEF q
    <3> QED
      BY <3>1, LenProperties
  <2>2. q = [j \in 1 .. HdrLen |-> q[j]]
    BY <2>1
  <2>3. \A j \in 1 .. HdrLen : q[j] = Byte(k, j)
    BY <1>2 DEF q
  <2> QED
    BY <2>2, <2>3 DEF q
<1>4. \A m : Of(m) = Of(k) => m = k
  <2> SUFFICES ASSUME NEW m, Of(m) = Of(k) PROVE m = k
    OBVIOUS
  <2>1. Of(m)[1] = <<m, 1>> /\ Of(k)[1] = <<k, 1>>
    BY <1>1 DEF Byte
  <2>2. <<m, 1>> = <<k, 1>>
    BY <2>1
  <2> QED
    BY <2>2
<1>5. k \in 1 .. Len(sent)
  OBVIOUS
<1> HIDE DEF k, Of
<1>6. ms = {k}
  BY <1>3, <1>4, <1>5
<1>7. HeaderIn(b) = LET hs == {sent[m] : m \in ms} IN IF hs # {} THEN hs ELSE Headers
  BY DEF HeaderIn, Of
<1> HIDE DEF ms
<1> QED
  BY <1>6, <1>7 DEF k

\* The first bytes of a packet arrive.
LEMMA WaitSlices ==
  ASSUME Polite, Types, SInv, WaitApacket
  PROVE  SInv' /\ Quiet
<1>1. CASE CloseConnection
  BY <1>1, CloseSlices
<1>2. CASE /\ RecvBytes(ResetBuf)
           /\ buf' = ResetBuf \o Chunk(ResetBuf) /\ pos' = 0
           /\ handler' = "header" /\ at' = "header"
           /\ UNCHANGED <<client, h, served, replies>>
  <2>1. handler = "wait" /\ Held = ResetBuf /\ handler \in Reading
    BY DEF WaitApacket, Types, Held, ResetBuf, Reading
  <2>2. wire # <<>>
    <3>1. CASE wire = <<>>
      <4>1. Len(Chunk(ResetBuf)) \in 0 .. 0 /\ Chunk(ResetBuf) \in Seq(Bytes)
        <5>1. ResetBuf \in Seq(Bytes) /\ Len(ResetBuf) <= BufSize
          BY ReaderAssumption, SMT DEF ResetBuf
        <5>2. Len(wire) = 0
          BY <3>1
        <5> QED
          BY <5>1, <5>2, ChunkLemma DEF Types
      <4> QED
        BY <1>2, <4>1, EmptySeq, SMT DEF RecvBytes
    <3> QED
      BY <3>1
  <2>3. Underway
    BY <2>1, <2>2, BusyLemma
  <2>4. UNCHANGED <<sent, inflight, served, replies>>
    BY <1>2 DEF client
  <2>5. Underway'
    BY <1>2, <2>1, <2>3, <2>4, MoreSlices
  <2> QED
    BY <1>2, <2>1, <2>4, <2>5 DEF SInv, Quiet
<1> QED
  BY <1>1, <1>2 DEF WaitApacket, Polite

\* The header is read, when it is whole, as the one that was sent.
LEMMA HeaderSlices ==
  ASSUME Polite, Types, SInv, ProcessHeader
  PROVE  SInv' /\ Quiet
<1>0. /\ at = "header" /\ handler = "header" /\ Held = buf /\ handler \in Reading
      /\ buf \in Seq(Bytes) /\ Len(buf) <= BufSize /\ wire \in Seq(Bytes)
      /\ Len(buf) \in Nat /\ HdrLen \in Nat
  BY ReaderAssumption DEF ProcessHeader, Types, Held, Reading
<1>1. Underway
  BY <1>0, BusyLemma
<1>2. pos = 0 /\ Len(sent) \in Nat /\ Len(sent) \in 1 .. Len(sent)
  <2>1. Len(sent) \in Nat /\ Len(served) \in Nat /\ Len(sent) = Len(served) + 1
    BY <1>1 DEF Underway, Types
  <2>2. Len(sent) \in 1 .. Len(sent)
    BY <2>1, SMT
  <2> QED
    BY <1>0, <1>1, <2>1, <2>2 DEF Underway
<1>3. ASSUME NEW b \in Seq(Bytes), Slice(b, Len(sent), 0), ParseHeader(b)
      PROVE  /\ handler' \in {"header", "payload"}
             /\ handler' = "header" => pos' = 0
             /\ handler' = "payload" => pos' = HdrLen /\ Len(b) >= HdrLen /\ h' = sent[Len(sent)]
  <2>1. CASE Len(b) < HdrLen
    BY <1>0, <1>2, <1>3, <2>1 DEF ParseHeader, Unparsed
  <2>2. CASE ~(Len(b) < HdrLen)
    <3>1. Len(b) >= HdrLen
      BY <1>0, <2>2, SMT
    <3>2. Parsed(b)
      BY <1>3, <2>2 DEF ParseHeader
    <3>3. h' = sent[Len(sent)]
      BY <1>2, <1>3, <3>1, <3>2, HeaderFound DEF Parsed
    <3>4. pos' = HdrLen
      BY <1>0, <1>2, <3>2, SMT DEF Parsed
    <3> QED
      BY <3>1, <3>2, <3>3, <3>4 DEF Parsed
  <2> QED
    BY <2>1, <2>2
<1>4. CASE /\ ParseHeader(buf) /\ UNCHANGED <<client, wire, buf, served, replies>>
  <2>1. /\ handler' \in {"header", "payload"}
        /\ handler' = "header" => pos' = 0
        /\ handler' = "payload" => pos' = HdrLen /\ Len(buf) >= HdrLen /\ h' = sent[Len(sent)]
    BY <1>0, <1>1, <1>3, <1>4 DEF Underway
  <2>2. UNCHANGED <<sent, shut, inflight, wire, buf, served, replies>> /\ Held' = Held
    BY <1>0, <1>4, <2>1 DEF client, Held
  <2>3. Underway'
    BY <1>0, <1>1, <2>1, <2>2 DEF Underway, AtEnd, Slice
  <2> QED
    BY <1>0, <2>2, <2>3 DEF SInv, Quiet
<1>5. CASE /\ RecvBytes(buf) /\ buf' = buf \o Chunk(buf) /\ ParseHeader(buf')
           /\ UNCHANGED <<client, served, replies>>
  <2>1. UNCHANGED <<sent, inflight, served, replies>>
    BY <1>5 DEF client
  <2>2. buf' \in Seq(Bytes) /\ Slice(buf', Len(sent), 0)
    BY <1>0, <1>1, <1>5, ReceivedSlices DEF Underway
  <2>3. /\ handler' \in {"header", "payload"}
        /\ handler' = "header" => pos' = 0
        /\ handler' = "payload" => pos' = HdrLen /\ Len(buf') >= HdrLen /\ h' = sent[Len(sent)]
    BY <1>3, <1>5, <2>2
  <2>4. Underway'
    BY <1>0, <1>1, <1>5, <2>1, <2>3, MoreSlices
  <2> QED
    BY <1>0, <2>1, <2>4 DEF SInv, Quiet
<1>6. CASE /\ at' = "idle"
           /\ UNCHANGED <<client, wire, handler, buf, pos, h, served, replies>>
  <2>1. UNCHANGED <<sent, shut, inflight, wire, handler, buf, pos, h, served, replies>>
    BY <1>6 DEF client
  <2> QED
    BY <2>1 DEF SInv, Quiet, Rest, Underway, AtEnd, Held, Slice
<1>7. CASE CloseConnection
  BY <1>7, CloseSlices
<1> QED
  BY <1>4, <1>5, <1>6, <1>7 DEF ProcessHeader

\* With a whole header in the buffer recv() has nothing more to bring.
LEMMA NothingToReceive ==
  ASSUME Types, Underway, handler = "payload"
  PROVE  ~RecvBytes(buf)
<1>1. /\ Held = buf /\ Len(buf) <= BufSize /\ buf \in Seq(Bytes) /\ wire \in Seq(Bytes)
      /\ wire = <<>> \/ Len(buf) = BufSize
  BY DEF Types, Underway, Held
<1>2. /\ Chunk(buf) \in Seq(Bytes) /\ Len(Chunk(buf)) \in 0 .. Len(wire)
      /\ Len(buf) + Len(Chunk(buf)) <= BufSize
  BY <1>1, ChunkLemma
<1>3. Len(buf) \in Nat /\ BufSize \in Nat /\ Len(<<>>) = 0
  BY <1>1, ReaderAssumption
<1>4. Len(Chunk(buf)) = 0
  BY <1>1, <1>2, <1>3, SMT
<1> QED
  BY <1>2, <1>4, EmptySeq DEF RecvBytes

\* The service decides and answers as the table of handlers does.
LEMMA SameTable ==
  \A x : Service!Verdict(x) = Verdict(x) /\ Service!Reply(x) = Reply(x)
BY DEF Service!Verdict, Verdict, Service!Reply, Reply, Service!pcmds, pcmds,
       Service!ShellReply, ShellReply,
       Service!ADB_AUTH_TOKEN, ADB_AUTH_TOKEN, Service!ADB_VERSION, ADB_VERSION,
       Service!ADB_MAX_PACKET_SIZE, ADB_MAX_PACKET_SIZE, Service!DeviceId, DeviceId

\* When the whole payload is there it is processed, and nothing else with it.
LEMMA ServeSlices ==
  ASSUME Polite, Types, SInv, at = "payload", Len(buf) - pos >= h.dlen, ServePacket(buf),
         UNCHANGED <<sent, inflight, wire, buf, h>>
  PROVE  SInv' /\ Service!Serve
<1> DEFINE k == Len(sent)
<1>0. /\ handler = "payload" /\ Held = buf /\ handler \in Reading
      /\ buf \in Seq(Bytes) /\ wire \in Seq(Bytes) /\ inflight \in Seq(Bytes)
      /\ Len(buf) \in Nat /\ Len(wire) \in Nat /\ Len(inflight) \in Nat /\ HdrLen \in Nat
      /\ h \in Headers /\ h.dlen \in Nat
  BY ReaderAssumption DEF Types, Held, Reading
<1>1. Underway
  BY <1>0, BusyLemma
<1>2. /\ pos = HdrLen /\ h = sent[k] /\ k = Len(served) + 1 /\ Len(served) \in Nat /\ k \in Nat
      /\ Len(buf) + Len(wire) + Len(inflight) <= HdrLen + h.dlen
  BY <1>0, <1>1 DEF Underway, Types
<1>3. Len(buf) = HdrLen + h.dlen /\ Len(wire) = 0 /\ Len(inflight) = 0
  BY <1>0, <1>2, SMT
<1>4. wire = <<>> /\ inflight = <<>>
  BY <1>0, <1>3, EmptySeq
<1> DEFINE p == SubSeq(buf, pos + 1, Len(buf))
<1>5. p = [j \in 1 .. h.dlen |-> Byte(k, HdrLen + j)]
  <2>1. pos + 1 \in Int /\ Len(buf) \in Int /\ 1 <= pos + 1 /\ Len(buf) <= Len(buf)
    BY <1>0, <1>2, SMT
  <2>2. /\ p \in Seq(Bytes) /\ Len(p) = IF pos + 1 <= Len(buf) THEN Len(buf) - (pos + 1) + 1 ELSE 0
        /\ \A i \in 1 .. Len(p) : p[i] = buf[(pos + 1) + i - 1] /\ (pos + 1) + i - 1 \in (pos + 1) .. Len(buf)
    BY <1>0, <2>1, Piece
  <2> HIDE DEF p
  <2>3. Len(p) = h.dlen
    BY <1>0, <1>2, <1>3, <2>2, SMT
  <2>4. ASSUME NEW j \in 1 .. h.dlen PROVE p[j] = Byte(k, HdrLen + j)
    <3>1. (pos + 1) + j - 1 = HdrLen + j /\ HdrLen + j \in 1 .. Len(buf) /\ 0 + (HdrLen + j) = HdrLen + j
      BY <1>0, <1>2, <1>3, SMT
    <3>2. p[j] = buf[HdrLen + j]
      BY <2>2, <2>3, <3>1
    <3>3. buf[HdrLen + j] = Byte(k, 0 + (HdrLen + j))
      BY <1>0, <1>1, <3>1 DEF Underway, Slice
    <3> QED
      BY <3>1, <3>2, <3>3
  <2>5. p \in [1 .. h.dlen -> Bytes]
    BY <2>2, <2>3, LenProperties
  <2>6. p = [j \in 1 .. h.dlen |-> p[j]]
    BY <2>5
  <2> QED
    BY <2>4, <2>6
<1> HIDE DEF p
<1>6. /\ served' = Append(served, [header |-> h, payload |-> p])
      /\ replies' = IF Verdict(h) = "ok" THEN Append(replies, Reply(h)) ELSE replies
      /\ handler' = After(Verdict(h))
  <2>1. ~(Len(buf) < pos) /\ Verdicts = {Verdict(h)}
    BY <1>0, <1>2, <1>3, SMT DEF Verdicts, Polite
  <2> QED
    BY <2>1 DEF ServePacket, Polite, p
<1>7. Service!Serve
  <2>1. Service!Packet(k) = [header |-> h, payload |-> p]
    BY <1>2, <1>5 DEF Service!Packet, Service!Byte, Byte
  <2>2. k <= Len(sent)
    BY <1>2
  <2>3. \A i \in 1 .. Len(served) : Service!Verdict(served[i].header) = "ok"
    BY <1>0, SameTable DEF SInv
  <2>4. served' = Append(served, Service!Packet(k))
    BY <1>6, <2>1
  <2>5. replies' = IF Service!Verdict(sent[k]) = "ok" THEN Append(replies, Service!Reply(sent[k])) ELSE replies
    BY <1>2, <1>6, SameTable
  <2> HIDE DEF k
  <2> QED
    BY <1>2, <2>2, <2>3, <2>4, <2>5 DEF Service!Serve
<1>8. served \in Seq(Packet) /\ replies \in Seq({Reply(x) : x \in Headers})
  BY DEF Types
<1>9. Reply(h) \in {Reply(x) : x \in Headers}
  BY <1>0
<1> DEFINE pk == [header |-> h, payload |-> p]
<1>10. pk \in Packet /\ pk.header = h
  <2>1. p \in Seq(Bytes)
    <3>1. pos + 1 \in Int /\ Len(buf) \in Int /\ 1 <= pos + 1 /\ Len(buf) <= Len(buf)
      BY <1>0, <1>2, SMT
    <3> QED
      BY <1>0, <3>1, Piece DEF p
  <2> QED
    BY <1>0, <2>1 DEF Packet
<1>11. served' = Append(served, pk)
  BY <1>6
<1> HIDE DEF pk
<1>12. /\ Len(served') = Len(served) + 1
       /\ \A i \in 1 .. Len(served) : served'[i] = served[i]
       /\ served'[Len(served) + 1] = pk
  BY <1>8, <1>10, <1>11, SMT
<1>13. Len(served') = Len(sent')
  BY <1>2, <1>12
<1>14. Len(served') <= Len(sent')
  BY <1>2, <1>13, SMT
<1>15. CASE Verdict(h) = "ok"
  <2>1. handler' = "wait" /\ replies' = Append(replies, Reply(h))
    BY <1>6, <1>15 DEF After
  <2>2. Len(replies') = Len(served')
    <3>1. Len(replies') = Len(replies) + 1
      BY <1>8, <1>9, <2>1, SMT
    <3> QED
      BY <1>0, <1>12, <3>1 DEF SInv
  <2>3. \A i \in 1 .. Len(served') : i = Len(served) + 1 \/ i \in 1 .. Len(served)
    BY <1>2, <1>12, SMT
  <2>4. \A i \in 1 .. Len(served') : Verdict(served'[i].header) = "ok"
    BY <1>0, <1>10, <1>12, <1>15, <2>3 DEF SInv
  <2>5. Rest'
    BY <1>4, <1>13, <2>1 DEF Rest
  <2> QED
    BY <1>7, <1>14, <2>2, <2>4, <2>5 DEF SInv
<1>16. CASE Verdict(h) # "ok"
  <2>1. handler' \notin Reading
    BY <1>6, <1>16 DEF After, Verdict, Reading
  <2> QED
    BY <1>7, <1>14, <2>1 DEF SInv
<1> QED
  BY <1>15, <1>16

\* A payload that has come as a whole is served; one that has not stays.
LEMMA PayloadSlices ==
  ASSUME Polite, Types, SInv, ProcessPayload
  PROVE  SInv' /\ (Quiet \/ Service!Serve)
<1>0. at = "payload" /\ handler = "payload" /\ Held = buf /\ handler \in Reading
  BY DEF ProcessPayload, Types, Held, Reading
<1>1. Underway
  BY <1>0, BusyLemma
<1>2. CASE /\ Len(buf) - pos >= h.dlen /\ ServePacket(buf)
           /\ UNCHANGED <<client, wire, buf, h>>
  <2>1. UNCHANGED <<sent, inflight, wire, buf, h>>
    BY <1>2 DEF client
  <2> QED
    BY <1>0, <1>2, <2>1, ServeSlices
<1>3. CASE RecvBytes(buf)
  BY <1>0, <1>1, <1>3, NothingToReceive
<1>4. CASE Len(buf) - pos < h.dlen /\ RecvAgain(buf)
  <2>1. /\ wire = <<>> /\ Len(<<>>) = 0 /\ pos = HdrLen /\ h = sent[Len(sent)]
        /\ inflight = <<>> \/ Len(buf) + Len(wire) < HdrLen
        /\ Len(buf) >= HdrLen
        /\ Len(buf) + Len(wire) + Len(inflight) = HdrLen + h.dlen
    BY <1>0, <1>1, <1>4 DEF RecvAgain, Underway
  <2>2. Len(buf) \in Nat /\ HdrLen \in Nat /\ h.dlen \in Nat
    BY <1>0, ReaderAssumption DEF Types
  <2>3. inflight = <<>>
    BY <2>1, <2>2, SMT
  <2> QED
    BY <1>4, <2>1, <2>2, <2>3, SMT
<1>5. CASE CloseConnection
  BY <1>5, CloseSlices
<1> QED
  BY <1>2, <1>3, <1>4, <1>5 DEF ProcessPayload

-----------------------------------------------------------------------------
\* A new connection has nothing to serve.
LEMMA InitSlices == Init => SInv /\ Service!ServiceInit
<1> SUFFICES ASSUME Init PROVE SInv /\ Service!ServiceInit
  OBVIOUS
<1>1. Len(<<>>) = 0 /\ 0 <= 0 /\ 1 .. 0 = {}
  BY SMT
<1>2. SInv
  BY <1>1 DEF Init, SInv, Rest
<1>3. Service!ServiceInit
  BY DEF Init, Service!ServiceInit
<1> QED
  BY <1>2, <1>3

\* Every step of the reader is a step of the service, or none.
LEMMA StepSlices ==
  ASSUME Polite, Types, SInv, [Next]_vars
  PROVE  SInv' /\ [Service!ServiceNext]_<<sent, served, replies>>
<1>1. ASSUME NEW hd \in Headers, Send(hd)
      PROVE  SInv' /\ Service!ServiceNext
  <2>1. Service!Send(hd)
    BY <1>1 DEF Send, Service!Send
  <2> QED
    BY <1>1, <2>1, SendSlices DEF Service!ServiceNext
<1>2. CASE Shut
  <2>1. UNCHANGED <<sent, inflight, wire, handler, buf, pos, h, served, replies>> /\ shut'
    BY <1>2 DEF Shut
  <2> QED
    BY <2>1 DEF SInv, Rest, Underway, AtEnd, Held, Slice
<1>3. CASE Deliver
  <2>1. UNCHANGED <<sent, served, replies>>
    BY <1>3 DEF Deliver
  <2> QED
    BY <1>3, <2>1, DeliverSlices
<1>4. CASE Daemon
  BY <1>4, ReportSlices, WaitSlices, HeaderSlices, PayloadSlices
     DEF Daemon, Quiet, Service!ServiceNext
<1>5. CASE UNCHANGED vars
  <2>1. UNCHANGED <<sent, shut, inflight, wire, handler, buf, pos, h, served, replies>>
    BY <1>5 DEF vars, client
  <2> QED
    BY <2>1 DEF SInv, Rest, Underway, AtEnd, Held, Slice
<1> QED
  BY <1>1, <1>2, <1>3, <1>4, <1>5 DEF Next

\* A client that waits for its answers is served packet for packet: each is
\* processed once, in order, with exactly its own payload, and answered.
THEOREM ReaderImplementsService == Polite => (Spec => ImplementsService)
<1> SUFFICES ASSUME Polite PROVE Spec => ImplementsService
  OBVIOUS
<1>1. Init => SInv /\ Service!ServiceInit
  BY InitSlices
<1>2. IInv /\ SInv /\ [Next]_vars => SInv' /\ [Service!ServiceNext]_<<sent, served, replies>>
  BY StepSlices DEF IInv
<1> QED
  BY <1>1, <1>2, ReaderInvariant, PTL DEF Spec, ImplementsService, Service!ServiceSpec

\* The field dlen is the data length of what is processed, as packet.h says, for
\* such a client; for any other it need not be.
THEOREM PolitePayloads == Polite => (Spec => []PayloadHasDataLength)
<1> SUFFICES ASSUME Polite PROVE Spec => []PayloadHasDataLength
  OBVIOUS
<1>1. Init => PayloadHasDataLength
  <2>1. Len(<<>>) = 0 /\ 1 .. 0 = {}
    BY SMT
  <2> QED
    BY <2>1 DEF Init, PayloadHasDataLength
<1>2. ASSUME IInv, PayloadHasDataLength, [Service!ServiceNext]_<<sent, served, replies>>
      PROVE  PayloadHasDataLength'
  <2>1. CASE UNCHANGED served
    BY <1>2, <2>1 DEF PayloadHasDataLength
  <2>2. CASE Service!Serve
    <3> DEFINE k == Len(served) + 1
               p == Service!Packet(k)
    <3>1. served \in Seq(Packet) /\ sent[k] \in Headers /\ Len(served) \in Nat
      BY <1>2, <2>2 DEF IInv, Types, Service!Serve
    <3>2. served' = Append(served, p)
      BY <2>2 DEF Service!Serve
    <3>3. sent[k].dlen \in Nat
      BY <3>1, ReaderAssumption
    <3>4. Len(p.payload) = p.header.dlen
      BY <3>3, SMT DEF Service!Packet
    <3> HIDE DEF p
    <3>5. /\ Len(served') = Len(served) + 1
          /\ \A i \in 1 .. Len(served) : served'[i] = served[i]
          /\ served'[Len(served) + 1] = p
      BY <3>1, <3>2, AppendProperties
    <3>6. \A i \in 1 .. Len(served') : i \in 1 .. Len(served) \/ i = Len(served) + 1
      BY <3>1, <3>5
    <3> QED
      BY <1>2, <3>4, <3>5, <3>6 DEF PayloadHasDataLength
  <2> QED
    BY <1>2, <2>1, <2>2 DEF Service!ServiceNext, Service!Send
<1>3. Init => SInv
  BY InitSlices
<1>4. IInv /\ SInv /\ PayloadHasDataLength /\ [Next]_vars => SInv' /\ PayloadHasDataLength'
  BY <1>2, StepSlices DEF IInv
<1> QED
  BY <1>1, <1>3, <1>4, ReaderInvariant, PTL DEF Spec
=============================================================================
