------------------------------- MODULE Session -------------------------------
(***************************************************************************)
(* A connection with its way back: what PacketReader hands to c->send goes *)
(* through xdbd_unix_send into the send buffer of the socket, and the host *)
(* takes it from there, or resets the connection.                          *)
(*                                                                         *)
(* The result of c->send is not looked at: what the buffer does not take   *)
(* of an answer is not sent again, and the connection goes on with the     *)
(* next packet.  A host that waits for its answers never gets to see that. *)
(***************************************************************************)
EXTENDS PacketReader, FiniteSets

CONSTANTS
  AnswerLen,  \* bytes of an answer
  SndBuf      \* bytes the send buffer of the socket takes

ASSUME SessionAssumption ==
  AnswerLen \in Nat \ {0} /\ SndBuf \in Nat \ {0}

VARIABLES
  out,    \* the bytes send() has taken, all of them
  got,    \* how many of these the host has received
  reset,  \* the host has reset the connection
  killed  \* a signal has ended the process

svars == <<out, got, reset, killed>>

\* Byte j of the k-th answer.
AnswerByte(k, j) == <<k, j>>
Answer(k)        == [j \in 1 .. AnswerLen |-> AnswerByte(k, j)]

\* The answers that are in q as a whole.
WholeIn(q) ==
  {k \in 1 .. Len(replies) :
     \E i \in 0 .. Len(q) - AnswerLen : SubSeq(q, i + 1, i + AnswerLen) = Answer(k)}

SessionTypeOK ==
  /\ TypeOK
  /\ out \in Seq((1 .. Len(replies)) \X (1 .. AnswerLen))
  /\ got \in 0 .. Len(out) /\ Len(out) - got <= SndBuf
  /\ reset \in BOOLEAN /\ killed \in BOOLEAN

SessionInit == Init /\ out = <<>> /\ got = 0 /\ reset = FALSE /\ killed = FALSE

-----------------------------------------------------------------------------
(***************************************************************************)
(* The host                                                                *)
(***************************************************************************)
\* It sends Window packets ahead of the answers it has received.
HostSend(hd) ==
  /\ Cardinality(WholeIn(SubSeq(out, 1, got))) + Window > Len(sent)
  /\ Send(hd)
  /\ UNCHANGED svars

HostShut == Shut /\ UNCHANGED svars

HostReceive ==
  /\ ~reset
  /\ \E n \in 1 .. Len(out) - got : got' = got + n
  /\ UNCHANGED <<vars, out, reset, killed>>

\* What either end had not received yet is gone.
HostReset ==
  /\ ~reset
  /\ reset' = TRUE
  /\ shut' = TRUE /\ inflight' = <<>> /\ wire' = <<>>
  /\ UNCHANGED <<sent, handler, at, buf, pos, h, served, replies, out, got, killed>>

-----------------------------------------------------------------------------
(***************************************************************************)
(* xdbd_unix_send                                                          *)
(***************************************************************************)
\* Slips: what the buffer did not take is tried again from the start, the room
\* is not looked at, the size of the answer is one short.
SendAgain(a) ==
  LET n == Min(Len(a), SndBuf - (Len(out) - got))
  IN out' = out \o SubSeq(a, 1, n) \o (IF n < Len(a) THEN SubSeq(a, 1, 1) ELSE <<>>)
SendAll(a)   == out' = out \o a
SendShort(a) == out' = out \o SubSeq(a, 1, Min(Len(a) - 1, SndBuf - (Len(out) - got)))

\* The buffer takes what it has room for; without any room, EAGAIN.
SendSome(a) == out' = out \o SubSeq(a, 1, Min(Len(a), SndBuf - (Len(out) - got)))

\* To a host that has gone nothing is sent.
SendAnswer(a) ==
  /\ IF reset THEN UNCHANGED out ELSE SendSome(a)
  /\ UNCHANGED <<got, reset, killed>>

\* The handler that ran has an answer.
Answered == Len(replies') > Len(replies)

\* A run of a handler that answers sends, and goes on whatever comes of it.
DaemonStep ==
  /\ ~killed
  /\ Daemon
  /\ IF Answered THEN SendAnswer(Answer(Len(replies'))) ELSE UNCHANGED svars

\* Or send() raises SIGPIPE, which nothing handles.
SendKills ==
  /\ ~killed /\ reset
  /\ ProcessPayload /\ Answered
  /\ killed' = TRUE
  /\ UNCHANGED <<out, got, reset>>

SessionNext ==
  \/ \E hd \in Headers : HostSend(hd)
  \/ HostShut \/ HostReceive \/ HostReset
  \/ Deliver /\ UNCHANGED svars
  \/ DaemonStep \/ SendKills

SessionSpec == SessionInit /\ [][SessionNext]_<<vars, svars>>

\* The network delivers in both directions and the loop of the daemon runs on.
FairSession ==
  /\ SessionSpec
  /\ WF_<<vars, svars>>(Deliver /\ UNCHANGED svars)
  /\ WF_<<vars, svars>>(HostReceive)
  /\ WF_<<vars, svars>>(DaemonStep)

-----------------------------------------------------------------------------
\* What the host can count on of the answers: those the buffer took as a whole.
\* A host that has gone is not promised anything more.
Delivered == IF reset THEN replies ELSE SubSeq(replies, 1, Cardinality(WholeIn(out)))

\* When the send buffer has room for the answers to Window packets, ignoring
\* the result of send() is without harm: every answer handed to it goes out
\* whole, and the connection still is the abstract service.
Promise == INSTANCE PacketService
             WITH Headers <- Headers, HdrLen <- HdrLen,
                  sent <- sent, served <- served, replies <- Delivered
SessionImplementsService == Promise!ServiceSpec

\* Such a host gets an answer to every packet that is not refused, and the
\* first that is refused is the last it sends.
AnswersArrive ==
  \A k \in 1 .. MaxPackets :
    Len(sent) >= k
      ~> \/ k \in WholeIn(SubSeq(out, 1, got))
         \/ Len(served) >= k /\ Verdict(served[k].header) # "ok"
         \/ reset

\* Whatever the host does: the stream it receives consists of beginnings of
\* answers, in the order of the answers and without a byte sent twice.
AnswersInOrder ==
  \A i \in 1 .. Len(out) :
    \/ out[i][2] = 1 /\ (i > 1 => out[i - 1][1] < out[i][1])
    \/ i > 1 /\ out[i][1] = out[i - 1][1] /\ out[i][2] = out[i - 1][2] + 1
=============================================================================
