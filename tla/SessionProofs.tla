---------------------------- MODULE SessionProofs ----------------------------
(***************************************************************************)
(* A connection with its way back, for any headers, any length of an       *)
(* answer and any size of the send buffer: what the host receives is made  *)
(* of beginnings of answers, in their order.  When the buffer has room for *)
(* a whole answer, a host that waits for its answers sees nothing else     *)
(* than the service of PacketService.                                      *)
(***************************************************************************)
EXTENDS Session, PacketReaderProofs, FiniteSetTheorems

\* The bytes of the answers to the first k packets that are answered.
AnswerBytes(k) == (1 .. k) \X (1 .. AnswerLen)

\* The send buffer is never fuller than it can be, and what went through it
\* are beginnings of answers.
BackOK ==
  /\ out \in Seq(AnswerBytes(Len(replies)))
  /\ got \in 0 .. Len(out) /\ Len(out) - got <= SndBuf
  /\ AnswersInOrder

Flags == reset \in BOOLEAN /\ killed \in BOOLEAN

\* A run of a handler hands over at most one answer, and moves nothing on the
\* side of the host.
LEMMA DaemonReplies ==
  ASSUME Types, Daemon
  PROVE  /\ UNCHANGED <<sent, shut, inflight>>
         /\ replies' = replies \/ Len(replies') = Len(replies) + 1
<1>0. UNCHANGED client => UNCHANGED <<sent, shut, inflight>>
  BY DEF client
<1>1. CASE Report
  BY <1>0, <1>1 DEF Report
<1>2. CASE CloseConnection
  BY <1>0, <1>2 DEF CloseConnection
<1>3. CASE WaitApacket
  BY <1>0, <1>2, <1>3 DEF WaitApacket
<1>4. CASE ProcessHeader
  BY <1>0, <1>2, <1>4 DEF ProcessHeader
<1>5. CASE ProcessPayload
  <2>1. ASSUME NEW b, ServePacket(b)
        PROVE  replies' = replies \/ Len(replies') = Len(replies) + 1
    <3>1. replies' = replies \/ replies' = Append(replies, Reply(h))
      BY <2>1 DEF ServePacket
    <3> QED
      BY <3>1, AppendProperties DEF Types
  <2> QED
    BY <1>0, <1>2, <1>5, <2>1 DEF ProcessPayload
<1> QED
  BY <1>1, <1>3, <1>4, <1>5 DEF Daemon

\* What the buffer takes of an answer is a beginning of it.
LEMMA Taken ==
  ASSUME NEW k \in Nat, NEW n \in 0 .. AnswerLen
  PROVE  /\ Len(Answer(k)) = AnswerLen
         /\ SubSeq(Answer(k), 1, n) \in Seq({k} \X (1 .. AnswerLen))
         /\ Len(SubSeq(Answer(k), 1, n)) = n
         /\ \A j \in 1 .. n : SubSeq(Answer(k), 1, n)[j] = AnswerByte(k, j)
<1> DEFINE S == {k} \X (1 .. AnswerLen)
<1>1. AnswerLen \in Nat
  BY SessionAssumption
<1>2. \A j \in 1 .. AnswerLen : AnswerByte(k, j) \in S
  BY DEF AnswerByte
<1> HIDE DEF S
<1>3. Answer(k) \in Seq(S) /\ Len(Answer(k)) = AnswerLen
      /\ \A j \in 1 .. AnswerLen : Answer(k)[j] = AnswerByte(k, j)
  BY <1>1, <1>2, SMT DEF Answer
<1>4. \A i \in 1 .. n : Answer(k)[i] \in S
  BY <1>1, <1>2, <1>3
<1>5. /\ SubSeq(Answer(k), 1, n) \in Seq(S)
      /\ Len(SubSeq(Answer(k), 1, n)) = IF 1 <= n THEN n - 1 + 1 ELSE 0
      /\ \A i \in 1 .. n - 1 + 1 : SubSeq(Answer(k), 1, n)[i] = Answer(k)[1 + i - 1]
  BY <1>1, <1>4, SubSeqProperties
<1> DEFINE q == SubSeq(Answer(k), 1, n)
<1> HIDE DEF q
<1>6. Len(q) = n
  BY <1>1, <1>5, SMT DEF q
<1>7. ASSUME NEW j \in 1 .. n PROVE q[j] = AnswerByte(k, j)
  <2>1. j \in 1 .. n - 1 + 1 /\ 1 + j - 1 = j /\ j \in 1 .. AnswerLen
    BY <1>1, SMT
  <2> QED
    BY <1>3, <1>5, <2>1 DEF q
<1> QED
  BY <1>3, <1>5, <1>6, <1>7 DEF q, S

\* Sending the next answer puts n bytes of it behind what was sent before, as
\* many as there is room for.
LEMMA SendFacts ==
  ASSUME BackOK, Len(replies) \in Nat, NEW k, k = Len(replies) + 1, SendSome(Answer(k))
  PROVE  LET n == Min(AnswerLen, SndBuf - (Len(out) - got))
         IN /\ n \in 0 .. AnswerLen
            /\ out' \in Seq(AnswerBytes(k))
            /\ Len(out') = Len(out) + n
            /\ \A i \in 1 .. Len(out) : out'[i] = out[i] /\ out[i] \in AnswerBytes(Len(replies))
            /\ \A j \in 1 .. n : out'[Len(out) + j] = AnswerByte(k, j)
<1> DEFINE n == Min(AnswerLen, SndBuf - (Len(out) - got))
           c == SubSeq(Answer(k), 1, n)
<1>1. /\ AnswerLen \in Nat /\ SndBuf \in Nat /\ Len(out) \in Nat /\ got \in 0 .. Len(out)
      /\ Len(out) - got <= SndBuf /\ k \in Nat
  BY SessionAssumption DEF BackOK
<1>2. n \in 0 .. AnswerLen
  BY <1>1, SMT DEF Min
<1>3. /\ out' = out \o c
      /\ c \in Seq({k} \X (1 .. AnswerLen)) /\ Len(c) = n
      /\ \A j \in 1 .. n : c[j] = AnswerByte(k, j)
  BY <1>1, <1>2, Taken DEF SendSome
<1> HIDE DEF c, n
<1>4. AnswerBytes(Len(replies)) \subseteq AnswerBytes(k) /\ {k} \X (1 .. AnswerLen) \subseteq AnswerBytes(k)
  BY <1>1, SMT DEF AnswerBytes
<1>5. out \in Seq(AnswerBytes(k)) /\ c \in Seq(AnswerBytes(k))
  BY <1>3, <1>4, SeqMonotonic DEF BackOK
<1>6. /\ out' \in Seq(AnswerBytes(k)) /\ Len(out') = Len(out) + n
      /\ \A i \in 1 .. Len(out) + n :
           out'[i] = IF i <= Len(out) THEN out[i] ELSE c[i - Len(out)]
  BY <1>3, <1>5, ConcatProperties
<1>7. ASSUME NEW i \in 1 .. Len(out) PROVE out'[i] = out[i] /\ out[i] \in AnswerBytes(Len(replies))
  BY <1>1, <1>2, <1>6, ElementOfSeq, SMT DEF BackOK
<1>8. ASSUME NEW j \in 1 .. n PROVE out'[Len(out) + j] = AnswerByte(k, j)
  <2>1. /\ Len(out) + j \in 1 .. Len(out) + n /\ ~(Len(out) + j <= Len(out))
        /\ (Len(out) + j) - Len(out) = j
    BY <1>1, <1>2, SMT
  <2> QED
    BY <1>3, <1>6, <2>1
<1> QED
  BY <1>2, <1>6, <1>7, <1>8 DEF n

-----------------------------------------------------------------------------
\* A new connection has sent nothing.
LEMMA BackInit == SessionInit => IInv /\ BackOK /\ Flags
<1> SUFFICES ASSUME SessionInit PROVE IInv /\ BackOK /\ Flags
  OBVIOUS
<1>1. IInv
  BY InitInv DEF SessionInit
<1>2. /\ out = <<>> /\ got = 0 /\ reset = FALSE /\ killed = FALSE
      /\ \A S : <<>> \in Seq(S)
      /\ Len(<<>>) = 0 /\ SndBuf \in Nat
  BY SessionAssumption DEF SessionInit
<1>3. AnswersInOrder
  BY <1>2, SMT DEF AnswersInOrder
<1>4. out \in Seq(AnswerBytes(Len(replies)))
  BY <1>2
<1>5. got \in 0 .. Len(out) /\ Len(out) - got <= SndBuf
  BY <1>2, SMT
<1>6. Flags
  BY <1>2 DEF Flags
<1> QED
  BY <1>1, <1>3, <1>4, <1>5, <1>6 DEF BackOK

\* What the host has got is its own business, and what the daemon answers adds
\* to what was sent before.
LEMMA BackKept ==
  ASSUME BackOK, Len(replies) \in Nat, Len(replies') \in Nat, Len(replies') >= Len(replies),
         UNCHANGED <<out, got>>
  PROVE  BackOK'
<1>1. AnswerBytes(Len(replies)) \subseteq AnswerBytes(Len(replies'))
  BY SMT DEF AnswerBytes
<1>2. out' \in Seq(AnswerBytes(Len(replies')))
  BY <1>1, SeqMonotonic DEF BackOK
<1>3. AnswersInOrder'
  BY DEF BackOK, AnswersInOrder
<1> QED
  BY <1>2, <1>3 DEF BackOK, AnswerBytes

\* An answer follows those before it, and begins with its first byte.
LEMMA BackSent ==
  ASSUME BackOK, Len(replies) \in Nat, Len(replies') = Len(replies) + 1,
         SendSome(Answer(Len(replies'))), UNCHANGED got
  PROVE  BackOK'
<1> DEFINE k == Len(replies')
           n == Min(AnswerLen, SndBuf - (Len(out) - got))
<1>1. /\ n \in 0 .. AnswerLen
      /\ out' \in Seq(AnswerBytes(k))
      /\ Len(out') = Len(out) + n
      /\ \A i \in 1 .. Len(out) : out'[i] = out[i] /\ out[i] \in AnswerBytes(Len(replies))
      /\ \A j \in 1 .. n : out'[Len(out) + j] = AnswerByte(k, j)
  BY SendFacts
<1>2. /\ AnswerLen \in Nat /\ SndBuf \in Nat /\ Len(out) \in Nat /\ got \in 0 .. Len(out)
      /\ Len(out) - got <= SndBuf /\ k \in Nat /\ Len(replies) < k
  BY SessionAssumption, SMT DEF BackOK
<1>3. n <= SndBuf - (Len(out) - got)
  BY <1>2, SMT DEF Min
<1> HIDE DEF n, k
<1>4. ASSUME NEW i \in 1 .. Len(out')
      PROVE  \/ out'[i][2] = 1 /\ (i > 1 => out'[i - 1][1] < out'[i][1])
             \/ i > 1 /\ out'[i][1] = out'[i - 1][1] /\ out'[i][2] = out'[i - 1][2] + 1
  <2>1. CASE i <= Len(out)
    <3>1. i \in 1 .. Len(out) /\ (i > 1 => i - 1 \in 1 .. Len(out))
      BY <1>1, <1>2, <2>1, SMT
    <3>2. out'[i] = out[i] /\ (i > 1 => out'[i - 1] = out[i - 1])
      BY <1>1, <3>1
    <3>3. \/ out[i][2] = 1 /\ (i > 1 => out[i - 1][1] < out[i][1])
          \/ i > 1 /\ out[i][1] = out[i - 1][1] /\ out[i][2] = out[i - 1][2] + 1
      BY <3>1 DEF BackOK, AnswersInOrder
    <3> QED
      BY <3>2, <3>3
  <2>2. CASE i = Len(out) + 1
    <3>1. 1 \in 1 .. n
      BY <1>1, <1>2, <2>2, SMT
    <3>2. out'[i] = <<k, 1>>
      BY <1>1, <2>2, <3>1 DEF AnswerByte
    <3>3. ASSUME i > 1 PROVE out'[i - 1][1] < k
      <4>1. i - 1 \in 1 .. Len(out)
        BY <1>2, <2>2, <3>3, SMT
      <4>2. out'[i - 1] \in AnswerBytes(Len(replies))
        BY <1>1, <4>1
      <4>3. out'[i - 1][1] \in 1 .. Len(replies)
        BY <4>2 DEF AnswerBytes
      <4> QED
        BY <1>2, <4>3, SMT
    <3> QED
      BY <3>2, <3>3
  <2>3. CASE i > Len(out) + 1
    <3> DEFINE j == i - Len(out)
    <3>1. /\ j \in 1 .. n /\ j - 1 \in 1 .. n /\ Len(out) + j = i
          /\ Len(out) + (j - 1) = i - 1 /\ i > 1 /\ (j - 1) + 1 = j
      BY <1>1, <1>2, <2>3, SMT
    <3> HIDE DEF j
    <3>2. out'[i] = <<k, j>> /\ out'[i - 1] = <<k, j - 1>>
      BY <1>1, <3>1 DEF AnswerByte
    <3> QED
      BY <3>1, <3>2
  <2>4. i <= Len(out) \/ i = Len(out) + 1 \/ i > Len(out) + 1
    BY <1>1, <1>2, SMT
  <2> QED
    BY <2>1, <2>2, <2>3, <2>4
<1>5. AnswersInOrder'
  BY <1>4 DEF AnswersInOrder
<1>6. out' \in Seq(AnswerBytes(Len(replies'))) /\ AnswerBytes(Len(replies')) = AnswerBytes(Len(replies))'
  BY <1>1 DEF k, AnswerBytes
<1>7. got' \in 0 .. Len(out') /\ Len(out') - got' <= SndBuf
  BY <1>1, <1>2, <1>3, SMT
<1> QED
  BY <1>5, <1>6, <1>7 DEF BackOK, AnswerBytes

\* A host that resets the connection takes along all that is on the way.
LEMMA ResetInv == IInv /\ HostReset => IInv'
<1> SUFFICES ASSUME IInv, HostReset PROVE IInv'
  OBVIOUS
<1>1. /\ shut' = TRUE /\ inflight' = <<>> /\ wire' = <<>>
      /\ UNCHANGED <<sent, handler, at, buf, pos, h, served, replies>>
  BY DEF HostReset
<1>2. Len(<<>>) = 0 /\ \A S : <<>> \in Seq(S)
  OBVIOUS
<1>3. \A s, k : Before(s, <<>>) /\ Ascends(<<>>) /\ UpTo(<<>>, k)
  BY <1>2, SMT DEF Before, Ascends, UpTo
<1>4. Types'
  BY <1>1, <1>2 DEF IInv, Types
<1>5. Order'
  BY <1>1, <1>3 DEF IInv, Order, Later
<1> QED
  BY <1>4, <1>5 DEF IInv

\* What happens to the reader in a step of the session.
LEMMA ReaderStep == [SessionNext]_<<vars, svars>> => [Next]_vars \/ HostReset
<1>1. \A hd : HostSend(hd) => Send(hd)
  BY DEF HostSend
<1>2. ProcessPayload => Daemon
  BY DEF Daemon
<1> QED
  BY <1>1, <1>2 DEF SessionNext, HostShut, HostReceive, DaemonStep, SendKills, Next

\* A step that sends nothing, or sends an answer, keeps the order of what was
\* sent.
LEMMA BackStep == IInv /\ BackOK /\ [SessionNext]_<<vars, svars>> => IInv' /\ BackOK'
<1> SUFFICES ASSUME IInv, BackOK, [SessionNext]_<<vars, svars>> PROVE IInv' /\ BackOK'
  OBVIOUS
<1>1. IInv'
  BY ReaderStep, StepInv, ResetInv
<1> SUFFICES BackOK'
  BY <1>1
<1>2. Len(replies) \in Nat /\ Len(replies') \in Nat
  BY <1>1 DEF IInv, Types
<1>3. UNCHANGED svars => UNCHANGED <<out, got>>
  BY DEF svars
<1>4. UNCHANGED vars => UNCHANGED replies
  BY DEF vars
<1>5. ASSUME UNCHANGED <<replies, out, got>> PROVE BackOK'
  <2>1. Len(replies') >= Len(replies)
    BY <1>2, <1>5, SMT
  <2> QED
    BY <1>2, <1>5, <2>1, BackKept
<1>6. ASSUME NEW hd, HostSend(hd) PROVE BackOK'
  BY <1>3, <1>5, <1>6 DEF HostSend, Send
<1>7. CASE HostShut
  BY <1>3, <1>5, <1>7 DEF HostShut, Shut
<1>8. CASE HostReceive
  <2>1. UNCHANGED <<replies, out>>
    BY <1>4, <1>8 DEF HostReceive
  <2>2. PICK n \in 1 .. Len(out) - got : got' = got + n
    BY <1>8 DEF HostReceive
  <2>3. Len(out) \in Nat /\ SndBuf \in Nat /\ got \in 0 .. Len(out) /\ Len(out) - got <= SndBuf
    BY SessionAssumption DEF BackOK
  <2>4. got' \in 0 .. Len(out) /\ Len(out) - got' <= SndBuf
    BY <2>2, <2>3, SMT
  <2>5. AnswersInOrder'
    BY <2>1 DEF BackOK, AnswersInOrder
  <2> QED
    BY <2>1, <2>4, <2>5 DEF BackOK, AnswerBytes
<1>9. CASE HostReset
  BY <1>5, <1>9 DEF HostReset
<1>10. CASE Deliver /\ UNCHANGED svars
  BY <1>3, <1>5, <1>10 DEF Deliver
<1>11. CASE DaemonStep
  <2>1. replies' = replies \/ Len(replies') = Len(replies) + 1
    BY <1>11, DaemonReplies DEF DaemonStep, IInv
  <2>2. CASE Answered
    <3>1. Len(replies') = Len(replies) + 1 /\ Len(replies') >= Len(replies)
      BY <1>2, <2>1, <2>2, SMT DEF Answered
    <3>2. SendAnswer(Answer(Len(replies')))
      BY <1>11, <2>2 DEF DaemonStep
    <3>3. CASE reset
      BY <1>2, <3>1, <3>2, <3>3, BackKept DEF SendAnswer
    <3>4. CASE ~reset
      BY <1>2, <3>1, <3>2, <3>4, BackSent DEF SendAnswer
    <3> QED
      BY <3>3, <3>4
  <2>3. CASE ~Answered
    <3>1. replies' = replies
      BY <1>2, <2>1, <2>3, SMT DEF Answered
    <3> QED
      BY <1>3, <1>5, <1>11, <2>3, <3>1 DEF DaemonStep
  <2> QED
    BY <2>2, <2>3
<1>12. CASE SendKills
  <2>1. Len(replies') >= Len(replies) /\ UNCHANGED <<out, got>>
    BY <1>2, <1>12, SMT DEF SendKills, Answered
  <2> QED
    BY <1>2, <2>1, BackKept
<1>13. CASE UNCHANGED <<vars, svars>>
  BY <1>3, <1>4, <1>5, <1>13
<1> QED
  BY <1>6, <1>7, <1>8, <1>9, <1>10, <1>11, <1>12, <1>13 DEF SessionNext

\* The host is there or it is not, and so is the daemon.
LEMMA FlagsStep == Flags /\ [SessionNext]_<<vars, svars>> => Flags'
BY Zenon DEF Flags, SessionNext, HostSend, HostShut, HostReceive, HostReset, DaemonStep,
             SendAnswer, SendKills, svars

\* Both invariants hold whatever the host and the daemon do.
THEOREM SessionInvariant == SessionSpec => [](IInv /\ BackOK /\ Flags)
<1> QED
  BY BackInit, BackStep, FlagsStep, PTL DEF SessionSpec

\* The send buffer never holds more than its size, nor bytes of an answer that
\* was not given.
THEOREM SessionTypesAlwaysOK == SessionSpec => []SessionTypeOK
<1>1. IInv /\ BackOK /\ Flags => SessionTypeOK
  BY InvTypeOK DEF BackOK, AnswerBytes, Flags, SessionTypeOK
<1> QED
  BY <1>1, SessionInvariant, PTL

\* However full the send buffer is, and whenever the host reads: beginnings of
\* answers, in the order of the answers, without a byte sent twice.
THEOREM AnswersAlwaysInOrder == SessionSpec => []AnswersInOrder
<1>1. BackOK => AnswersInOrder
  BY DEF BackOK
<1> QED
  BY <1>1, SessionInvariant, PTL

-----------------------------------------------------------------------------
(***************************************************************************)
(* A host that waits for its answers, with room for a whole one.           *)
(***************************************************************************)
\* All answers went out whole, the last of them last, and a host that has sent
\* a packet has taken them all from the buffer.
Whole ==
  ~reset =>
    /\ Ascends(out)
    /\ WholeIn(out) = 1 .. Len(replies)
    /\ Len(replies) > 0 =>
         Len(out) > 0 /\ out[Len(out)] = AnswerByte(Len(replies), AnswerLen)
    /\ handler \in Reading /\ Len(sent) > Len(served) => got = Len(out)

\* Where the k-th answer is in a sequence.
LEMMA WholeAt ==
  ASSUME NEW S, NEW q \in Seq(S), NEW i \in 0 .. Len(q) - AnswerLen, NEW k \in Nat
  PROVE  SubSeq(q, i + 1, i + AnswerLen) = Answer(k)
           <=> \A j \in 1 .. AnswerLen : q[i + j] = AnswerByte(k, j)
<1> DEFINE c == SubSeq(q, i + 1, i + AnswerLen)
           T == S \cup ({k} \X (1 .. AnswerLen))
<1>1. AnswerLen \in Nat /\ AnswerLen >= 1 /\ i \in Nat /\ Len(q) \in Nat /\ i + AnswerLen <= Len(q)
  BY SessionAssumption, SMT
<1>2. \A m \in i + 1 .. i + AnswerLen : q[m] \in S
  BY <1>1, ElementOfSeq, SMT
<1>3. /\ c \in Seq(S)
      /\ Len(c) = IF i + 1 <= i + AnswerLen THEN (i + AnswerLen) - (i + 1) + 1 ELSE 0
      /\ \A m \in 1 .. (i + AnswerLen) - (i + 1) + 1 : c[m] = q[(i + 1) + m - 1]
  BY <1>1, <1>2, SubSeqProperties
<1> HIDE DEF c
<1>4. Len(c) = AnswerLen
  BY <1>1, <1>3, SMT
<1>5. ASSUME NEW j \in 1 .. AnswerLen PROVE c[j] = q[i + j]
  <2>1. j \in 1 .. (i + AnswerLen) - (i + 1) + 1 /\ (i + 1) + j - 1 = i + j
    BY <1>1, SMT
  <2> QED
    BY <1>3, <2>1
<1>6. AnswerLen \in 0 .. AnswerLen
  BY <1>1, SMT
<1>7. /\ Len(Answer(k)) = AnswerLen
      /\ \A j \in 1 .. AnswerLen : Answer(k)[j] = AnswerByte(k, j)
  BY <1>1 DEF Answer
<1>8. Answer(k) \in Seq({k} \X (1 .. AnswerLen))
  BY <1>1, SMT DEF Answer, AnswerByte
<1>9. c \in Seq(T) /\ Answer(k) \in Seq(T)
  BY <1>3, <1>8, SeqMonotonic
<1> HIDE DEF T
<1>10. ASSUME \A j \in 1 .. AnswerLen : q[i + j] = AnswerByte(k, j)
       PROVE  c = Answer(k)
  BY <1>4, <1>5, <1>7, <1>9, <1>10, SeqEqual
<1>11. ASSUME c = Answer(k), NEW j \in 1 .. AnswerLen
       PROVE  q[i + j] = AnswerByte(k, j)
  BY <1>5, <1>7, <1>11
<1> QED
  BY <1>10, <1>11 DEF c

\* An answer that finds room for all of its bytes goes out whole, behind the
\* others.
LEMMA WholeSent ==
  ASSUME BackOK, Whole, ~reset, AnswerLen <= SndBuf, got = Len(out),
         Len(replies) \in Nat, Len(replies') = Len(replies) + 1,
         Len(replies') <= MaxPackets, SendSome(Answer(Len(replies')))
  PROVE  /\ Ascends(out)'
         /\ WholeIn(out)' = 1 .. Len(replies')
         /\ Len(out') > 0 /\ out'[Len(out')] = AnswerByte(Len(replies'), AnswerLen)
<1> DEFINE m == Len(replies)
           k == Len(replies')
<1>0. /\ AnswerLen \in Nat /\ AnswerLen >= 1 /\ SndBuf \in Nat /\ Len(out) \in Nat
      /\ k \in Nat /\ m \in Nat /\ k = m + 1 /\ MaxPackets \in Nat
  BY SessionAssumption, ReaderAssumption, SMT DEF BackOK
<1>1. Min(AnswerLen, SndBuf - (Len(out) - got)) = AnswerLen
  BY <1>0, SMT DEF Min
<1>2. /\ out' \in Seq(AnswerBytes(k))
      /\ Len(out') = Len(out) + AnswerLen
      /\ \A i \in 1 .. Len(out) : out'[i] = out[i] /\ out[i] \in AnswerBytes(m)
      /\ \A j \in 1 .. AnswerLen : out'[Len(out) + j] = AnswerByte(k, j)
  BY <1>1, SendFacts
<1>3. Ascends(out) /\ WholeIn(out) = 1 .. m
  BY DEF Whole
<1> HIDE DEF m, k
<1>4. ASSUME NEW i \in 1 .. Len(out'), NEW j \in 1 .. Len(out'), i < j
      PROVE  Earlier(out'[i], out'[j])
  <2>1. CASE j <= Len(out)
    <3>1. i \in 1 .. Len(out) /\ j \in 1 .. Len(out)
      BY <1>0, <1>2, <1>4, <2>1, SMT
    <3> QED
      BY <1>2, <1>3, <1>4, <3>1 DEF Ascends
  <2>2. CASE j > Len(out)
    <3> DEFINE b == j - Len(out)
    <3>1. b \in 1 .. AnswerLen /\ Len(out) + b = j
      BY <1>0, <1>2, <2>2, SMT
    <3> HIDE DEF b
    <3>2. out'[j] = <<k, b>>
      BY <1>2, <3>1 DEF AnswerByte
    <3>3. CASE i <= Len(out)
      <4>1. i \in 1 .. Len(out)
        BY <1>0, <1>2, <3>3, SMT
      <4>2. out'[i][1] \in 1 .. m
        BY <1>2, <4>1 DEF AnswerBytes
      <4>3. out'[i][1] < k
        BY <1>0, <4>2, SMT
      <4> QED
        BY <3>2, <4>3 DEF Earlier
    <3>4. CASE i > Len(out)
      <4> DEFINE a == i - Len(out)
      <4>1. a \in 1 .. AnswerLen /\ Len(out) + a = i /\ a < b
        BY <1>0, <1>2, <1>4, <3>1, <3>4, SMT
      <4> HIDE DEF a
      <4>2. out'[i] = <<k, a>>
        BY <1>2, <4>1 DEF AnswerByte
      <4> QED
        BY <3>2, <4>1, <4>2 DEF Earlier
    <3>5. i <= Len(out) \/ i > Len(out)
      BY <1>0, <1>2, SMT
    <3> QED
      BY <3>3, <3>4, <3>5
  <2>3. j <= Len(out) \/ j > Len(out)
    BY <1>0, <1>2, SMT
  <2> QED
    BY <2>1, <2>2, <2>3
<1>5. /\ \A x \in 1 .. k : x = k \/ x \in 1 .. m
      /\ \A x \in 1 .. k : x \in Nat
  BY <1>0, SMT
<1>6. ASSUME NEW x \in 1 .. k
      PROVE  \E i \in 0 .. Len(out') - AnswerLen : SubSeq(out', i + 1, i + AnswerLen) = Answer(x)
  <2>1. CASE x = k
    <3>1. Len(out) \in 0 .. Len(out') - AnswerLen
      BY <1>0, <1>2, SMT
    <3> QED
      BY <1>0, <1>2, <2>1, <3>1, WholeAt
  <2>2. CASE x \in 1 .. m
    <3>1. x \in WholeIn(out)
      BY <1>3, <2>2
    <3>2. PICK i \in 0 .. Len(out) - AnswerLen : SubSeq(out, i + 1, i + AnswerLen) = Answer(x)
      BY <3>1 DEF WholeIn
    <3>3. \A j \in 1 .. AnswerLen : out[i + j] = AnswerByte(x, j)
      BY <1>5, <3>2, WholeAt DEF BackOK
    <3>4. \A j \in 1 .. AnswerLen : i + j \in 1 .. Len(out)
      BY <1>0, SMT
    <3>5. \A j \in 1 .. AnswerLen : out'[i + j] = AnswerByte(x, j)
      BY <1>2, <3>3, <3>4
    <3>6. i \in 0 .. Len(out') - AnswerLen
      BY <1>0, <1>2, SMT
    <3> QED
      BY <1>2, <1>5, <3>5, <3>6, WholeAt
  <2> QED
    BY <1>5, <2>1, <2>2
<1>7. WholeIn(out)' = 1 .. k
  BY <1>6 DEF WholeIn, k
<1>8. Len(out') > 0 /\ out'[Len(out')] = AnswerByte(k, AnswerLen)
  <2>1. Len(out') > 0 /\ AnswerLen \in 1 .. AnswerLen
    BY <1>0, <1>2, SMT
  <2> QED
    BY <1>2, <2>1
<1> QED
  BY <1>4, <1>7, <1>8 DEF Ascends, k

\* The host sends a packet only when it has taken the whole last answer, which
\* is the end of what was sent.
LEMMA AllTaken ==
  ASSUME Polite, Types, BackOK, SInv, Whole, ~reset, handler \in Reading,
         NEW hd \in Headers, HostSend(hd)
  PROVE  got = Len(out)
<1> DEFINE m == Len(replies)
           q == SubSeq(out, 1, got)
<1>1. /\ Len(sent) \in Nat /\ m \in Nat /\ Len(served) \in Nat
      /\ m = Len(served) /\ Len(served) <= Len(sent) /\ Len(sent) < m + 1
      /\ Cardinality(WholeIn(q)) + 1 > Len(sent)
  BY DEF HostSend, Send, Polite, Types, SInv
<1>2. /\ Len(out) \in Nat /\ got \in 0 .. Len(out) /\ AnswerLen \in Nat /\ AnswerLen >= 1
  BY SessionAssumption, SMT DEF BackOK
<1>3. WholeIn(q) \subseteq 1 .. m
  BY DEF WholeIn
<1> HIDE DEF m, q
<1>4. IsFiniteSet(1 .. m) /\ Cardinality(1 .. m) = m
  <2>1. 1 \in Int /\ m \in Int
    BY <1>1
  <2>2. IsFiniteSet(1 .. m) /\ Cardinality(1 .. m) = IF 1 > m THEN 0 ELSE m - 1 + 1
    BY <2>1, FS_Interval
  <2> QED
    BY <1>1, <2>2, SMT
<1>5. WholeIn(q) = 1 .. m
  <2>1. IsFiniteSet(WholeIn(q)) /\ Cardinality(WholeIn(q)) \in Nat
    BY <1>3, <1>4, FS_Subset, FS_CardinalityType
  <2>2. ASSUME WholeIn(q) # 1 .. m PROVE FALSE
    <3>1. Cardinality(WholeIn(q)) <= m /\ Cardinality(WholeIn(q)) # m
      BY <1>3, <1>4, <2>2, FS_Subset
    <3> QED
      BY <1>1, <2>1, <3>1, SMT
  <2> QED
    BY <2>2
<1>6. CASE m = 0
  <2>1. Len(out) = 0
    <3>1. ASSUME Len(out) > 0 PROVE FALSE
      <4>1. 1 \in 1 .. Len(out)
        BY <1>2, <3>1, SMT
      <4>2. out[1] \in AnswerBytes(m)
        BY <4>1, ElementOfSeq DEF BackOK, m
      <4>3. 1 .. m = {}
        BY <1>6, SMT
      <4> QED
        BY <4>2, <4>3 DEF AnswerBytes
    <3> QED
      BY <1>2, <3>1, SMT
  <2> QED
    BY <1>2, <2>1, SMT
<1>7. CASE m > 0
  <2>1. m \in WholeIn(q)
    BY <1>1, <1>5, <1>7, SMT
  <2>2. PICK i \in 0 .. Len(q) - AnswerLen : SubSeq(q, i + 1, i + AnswerLen) = Answer(m)
    BY <2>1 DEF WholeIn
  <2> DEFINE S == AnswerBytes(m)
  <2>3. \A j \in 1 .. got : out[j] \in S
    BY <1>2, ElementOfSeq, SMT DEF BackOK, m
  <2> HIDE DEF S
  <2>4. /\ q \in Seq(S) /\ Len(q) = IF 1 <= got THEN got - 1 + 1 ELSE 0
        /\ \A j \in 1 .. got - 1 + 1 : q[j] = out[1 + j - 1]
    BY <1>2, <2>3, SubSeqProperties DEF q
  <2>5. Len(q) = got
    BY <1>2, <2>4, SMT
  <2> DEFINE e == i + AnswerLen
  <2>6. /\ AnswerLen \in 1 .. AnswerLen /\ e \in 1 .. got - 1 + 1 /\ 1 + e - 1 = e
        /\ e \in 1 .. Len(out) /\ e <= got /\ Len(out) \in 1 .. Len(out)
    BY <1>2, <2>5, SMT
  <2>7. q[e] = AnswerByte(m, AnswerLen)
    BY <1>1, <2>2, <2>4, <2>6, WholeAt
  <2> HIDE DEF e
  <2>8. out[e] = <<m, AnswerLen>>
    BY <2>4, <2>6, <2>7 DEF AnswerByte
  <2>9. out[Len(out)] = <<m, AnswerLen>> /\ Ascends(out)
    BY <1>7 DEF Whole, AnswerByte, m
  <2>10. ~(e < Len(out))
    <3>1. ~Earlier(<<m, AnswerLen>>, <<m, AnswerLen>>)
      BY <1>1, <1>2, SMT DEF Earlier
    <3> QED
      BY <2>6, <2>8, <2>9, <3>1 DEF Ascends
  <2> QED
    BY <1>2, <2>6, <2>10, SMT
<1> QED
  BY <1>1, <1>6, <1>7, SMT

\* What is in the network and in the socket is lost with the host.
LEMMA ResetSlices ==
  ASSUME Types, SInv, HostReset
  PROVE  SInv' /\ Quiet
<1>1. /\ shut' = TRUE /\ inflight' = <<>> /\ wire' = <<>>
      /\ UNCHANGED <<sent, handler, at, buf, pos, h, served, replies>>
  BY DEF HostReset
<1>2. Quiet
  BY <1>1 DEF Quiet
<1>3. Rest => Rest'
  BY <1>1 DEF Rest
<1>4. ASSUME Underway PROVE Underway'
  <2>1. /\ Held' = Held /\ Len(Held) \in Nat /\ Len(wire) \in Nat /\ Len(inflight) \in Nat
        /\ Len(<<>>) = 0 /\ HdrLen + sent[Len(sent)].dlen \in Nat
    <3>1. Len(sent) \in 1 .. Len(sent) /\ sent \in Seq(Headers)
      BY <1>4, SMT DEF Underway, Types
    <3>2. sent[Len(sent)] \in Headers
      BY <3>1, ElementOfSeq
    <3>3. HdrLen + sent[Len(sent)].dlen \in Nat
      BY <3>2, ReaderAssumption, SMT
    <3>4. <<>> \in Seq(Bytes) /\ Len(<<>>) = 0
      BY SMT
    <3> QED
      BY <1>1, <3>3, <3>4 DEF Types, Held
  <2>2. AtEnd'
    BY <1>1 DEF AtEnd
  <2>3. Slice(wire, Len(sent), Len(Held))' /\ Slice(inflight, Len(sent), Len(Held) + Len(wire))'
    <3>1. 1 .. Len(<<>>) = {}
      BY SMT
    <3> QED
      BY <1>1, <3>1 DEF Slice
  <2>4. Len(Held') + Len(wire') + Len(inflight') <= HdrLen + sent'[Len(sent')].dlen
    <3>1. Len(Held) + Len(wire) + Len(inflight) <= HdrLen + sent[Len(sent)].dlen
      BY <1>4 DEF Underway
    <3>2. Len(wire') = 0 /\ Len(inflight') = 0
      BY <1>1, <2>1
    <3> QED
      BY <1>1, <2>1, <3>1, <3>2, SMT
  <2>5. Slice(Held, Len(sent), 0)'
    BY <1>1, <1>4, <2>1 DEF Underway, Slice
  <2> QED
    BY <1>1, <1>4, <2>1, <2>2, <2>3, <2>4, <2>5 DEF Underway
<1> QED
  BY <1>1, <1>2, <1>3, <1>4 DEF SInv

\* A run of a handler serves the packet that is under way, or none.
LEMMA DaemonServes ==
  ASSUME Polite, Types, SInv, Daemon
  PROVE  /\ SInv' /\ (Quiet \/ Service!Serve)
         /\ handler \in Reading /\ Len(sent) <= Len(served) + 1
<1>1. SInv' /\ (Quiet \/ Service!Serve)
  BY ReportSlices, WaitSlices, HeaderSlices, PayloadSlices DEF Daemon
<1>2. handler \in Reading
  BY DEF Daemon, Report, WaitApacket, ProcessHeader, ProcessPayload, Types, Reading
<1>3. Len(sent) = Len(served) \/ Len(sent) = Len(served) + 1
  BY <1>2 DEF SInv, Rest, Underway
<1> QED
  BY <1>1, <1>2, <1>3, SMT DEF Types

\* Nothing changes for the answers that were sent.
LEMMA WholeKept ==
  ASSUME Whole, UNCHANGED <<out, replies, reset>>,
         ~reset /\ handler' \in Reading /\ Len(sent') > Len(served') => got' = Len(out)
  PROVE  Whole'
<1>1. WholeIn(out)' = WholeIn(out)
  BY DEF WholeIn
<1>2. Ascends(out)' = Ascends(out)
  BY DEF Ascends
<1> QED
  BY <1>1, <1>2, Zenon DEF Whole

\* The daemon sends what it answers as a whole: the host that waits for it has
\* left the buffer empty.
LEMMA WholeDaemon ==
  ASSUME Polite, AnswerLen <= SndBuf, Types, BackOK, SInv, Whole, DaemonStep
  PROVE  Whole'
<1>1. /\ SInv' /\ (Quiet \/ Service!Serve)
      /\ handler \in Reading /\ Len(sent) <= Len(served) + 1
  BY DaemonServes DEF DaemonStep
<1>2. /\ Len(replies) \in Nat /\ Len(served) \in Nat /\ Len(sent) \in Nat
      /\ Len(replies) = Len(served) /\ Len(sent) <= MaxPackets /\ MaxPackets \in Nat
  BY <1>1, ReaderAssumption DEF Types, SInv
<1>3. UNCHANGED sent /\ (replies' = replies \/ Len(replies') = Len(replies) + 1)
  BY DaemonReplies DEF DaemonStep
<1>4. Service!Serve => Len(served') = Len(served) + 1 /\ Len(served) + 1 <= Len(sent)
  BY AppendProperties DEF Service!Serve, Types
<1>5. Quiet => UNCHANGED <<sent, served, replies>>
  BY DEF Quiet
<1>6. CASE Answered
  <2>1. Len(replies') = Len(replies) + 1
    BY <1>2, <1>3, <1>6, SMT DEF Answered
  <2>2. SendAnswer(Answer(Len(replies'))) /\ UNCHANGED reset
    BY <1>6 DEF DaemonStep, SendAnswer
  <2>3. Len(served') = Len(served) + 1 /\ Len(served) + 1 <= Len(sent)
    <3>1. ~Quiet
      BY <1>2, <1>5, <2>1, SMT
    <3> QED
      BY <1>1, <1>4, <3>1
  <2>4. CASE reset
    BY <2>2, <2>4 DEF Whole
  <2>5. CASE ~reset
    <3>1. SendSome(Answer(Len(replies'))) /\ UNCHANGED got
      BY <2>2, <2>5 DEF SendAnswer
    <3>2. Len(sent) > Len(served)
      BY <1>2, <2>3, SMT
    <3>3. got = Len(out) /\ Len(replies') <= MaxPackets
      <4>1. Len(replies') <= MaxPackets
        BY <1>2, <2>1, <2>3, SMT
      <4> QED
        BY <1>1, <2>5, <3>2, <4>1 DEF Whole
    <3>4. /\ Ascends(out)'
          /\ WholeIn(out)' = 1 .. Len(replies')
          /\ Len(out') > 0 /\ out'[Len(out')] = AnswerByte(Len(replies'), AnswerLen)
      BY <1>2, <2>1, <2>5, <3>1, <3>3, WholeSent
    <3>5. ~(Len(sent') > Len(served'))
      BY <1>1, <1>2, <1>3, <2>3, SMT
    <3> QED
      BY <3>4, <3>5 DEF Whole, AnswerByte
  <2> QED
    BY <2>4, <2>5
<1>7. CASE ~Answered
  <2>1. replies' = replies
    BY <1>2, <1>3, <1>7, SMT DEF Answered
  <2>2. UNCHANGED <<out, got, reset>>
    BY <1>7 DEF DaemonStep, svars
  <2>3. ASSUME ~reset, handler' \in Reading, Len(sent') > Len(served')
        PROVE  got' = Len(out)
    <3>1. ~Service!Serve
      BY <1>1, <1>2, <1>3, <1>4, <2>3, SMT
    <3>2. Len(sent) > Len(served)
      BY <1>1, <1>5, <2>3, <3>1
    <3> QED
      BY <1>1, <2>2, <2>3, <3>2 DEF Whole
  <2> QED
    BY <2>1, <2>2, <2>3, WholeKept
<1> QED
  BY <1>6, <1>7

\* Every step of the session is a step of the service as far as the reader is
\* concerned, and leaves no answer cut.
LEMMA WholeStep ==
  ASSUME Polite, AnswerLen <= SndBuf, Types, BackOK, SInv, Whole,
         [SessionNext]_<<vars, svars>>
  PROVE  /\ SInv' /\ Whole'
         /\ [Service!ServiceNext]_<<sent, served, replies>>
<1>1. SInv' /\ [Service!ServiceNext]_<<sent, served, replies>>
  BY ReaderStep, StepSlices, ResetSlices DEF Quiet
<1> SUFFICES Whole'
  BY <1>1
<1>2. UNCHANGED svars => UNCHANGED <<out, got, reset>>
  BY DEF svars
<1>3. ASSUME NEW hd \in Headers, HostSend(hd) PROVE Whole'
  <2>1. UNCHANGED <<handler, served, replies, out, got, reset>>
    BY <1>2, <1>3 DEF HostSend, Send
  <2>2. ~reset /\ handler \in Reading => got = Len(out)
    BY <1>3, AllTaken
  <2> QED
    BY <2>1, <2>2, WholeKept
<1>4. CASE HostShut
  <2>1. UNCHANGED <<sent, handler, served, replies, out, got, reset>>
    BY <1>2, <1>4 DEF HostShut, Shut
  <2> QED
    BY <2>1, WholeKept DEF Whole
<1>5. CASE HostReceive
  <2>1. UNCHANGED <<sent, handler, served, replies, out, reset>>
    BY <1>5 DEF HostReceive, vars, client
  <2>2. PICK n \in 1 .. Len(out) - got : got' = got + n
    BY <1>5 DEF HostReceive
  <2>3. got # Len(out)
    BY <2>2, SMT DEF BackOK
  <2> QED
    BY <2>1, <2>3, WholeKept DEF Whole
<1>6. CASE HostReset
  BY <1>6 DEF HostReset, Whole
<1>7. CASE Deliver /\ UNCHANGED svars
  <2>1. UNCHANGED <<sent, handler, served, replies, out, got, reset>>
    BY <1>2, <1>7 DEF Deliver
  <2> QED
    BY <2>1, WholeKept DEF Whole
<1>8. CASE DaemonStep
  BY <1>8, WholeDaemon
<1>9. CASE SendKills
  BY <1>9 DEF SendKills, Whole
<1>10. CASE UNCHANGED <<vars, svars>>
  <2>1. UNCHANGED <<sent, handler, served, replies, out, got, reset>>
    BY <1>2, <1>10 DEF vars, client
  <2> QED
    BY <2>1, WholeKept DEF Whole
<1> QED
  BY <1>3, <1>4, <1>5, <1>6, <1>7, <1>8, <1>9, <1>10 DEF SessionNext

AllDelivered == Delivered = replies

\* A host that is still there has been delivered all answers.
LEMMA DeliveredAll ==
  ASSUME Types, Whole
  PROVE  Delivered = replies
<1>1. CASE reset
  BY <1>1 DEF Delivered
<1>2. CASE ~reset
  <2> DEFINE m == Len(replies)
  <2>1. 1 \in Int /\ m \in Nat /\ m \in Int
    BY DEF Types
  <2>2. WholeIn(out) = 1 .. m
    BY <1>2 DEF Whole
  <2>3. Delivered = SubSeq(replies, 1, Cardinality(1 .. m))
    BY <1>2, <2>2 DEF Delivered
  <2>4. SubSeq(replies, 1, m) = replies
    BY SubSeqFull DEF Types
  <2> HIDE DEF m
  <2>5. Cardinality(1 .. m) = IF 1 > m THEN 0 ELSE m - 1 + 1
    BY <2>1, FS_Interval
  <2>6. Cardinality(1 .. m) = m
    BY <2>1, <2>5, SMT
  <2> QED
    BY <2>3, <2>4, <2>6
<1> QED
  BY <1>1, <1>2

\* The service with the answers that reach the host is the service with the
\* answers that were given.
LEMMA SamePromise ==
  ASSUME Delivered = replies, Delivered' = replies',
         [Service!ServiceNext]_<<sent, served, replies>>
  PROVE  [Promise!ServiceNext]_<<sent, served, Delivered>>
<1>1. \A x : Promise!Verdict(x) = Service!Verdict(x) /\ Promise!Reply(x) = Service!Reply(x)
  BY DEF Service!Verdict, Promise!Verdict, Service!Reply, Promise!Reply, Service!pcmds, Promise!pcmds,
         Service!ShellReply, Promise!ShellReply,
         Service!ADB_AUTH_TOKEN, Promise!ADB_AUTH_TOKEN, Service!ADB_VERSION, Promise!ADB_VERSION,
         Service!ADB_MAX_PACKET_SIZE, Promise!ADB_MAX_PACKET_SIZE, Service!DeviceId, Promise!DeviceId
<1>2. \A k : Promise!Packet(k) = Service!Packet(k)
  BY DEF Service!Packet, Promise!Packet, Service!Byte, Promise!Byte
<1>3. ASSUME NEW hd \in Headers, Service!Send(hd) PROVE Promise!ServiceNext
  BY <1>3 DEF Service!Send, Promise!Send, Promise!ServiceNext
<1>4. CASE Service!Serve
  <2>1. Promise!Serve
    BY <1>1, <1>2, <1>4 DEF Service!Serve, Promise!Serve
  <2> QED
    BY <2>1 DEF Promise!ServiceNext
<1> QED
  BY <1>3, <1>4 DEF Service!ServiceNext

\* With room for a whole answer in the send buffer, a host that waits for its
\* answers gets each of them whole: that the result of send() is not looked at
\* is without harm, also when the host goes away in the middle of a packet.
THEOREM SessionIsService ==
  Polite /\ AnswerLen <= SndBuf => (SessionSpec => SessionImplementsService)
<1> SUFFICES ASSUME Polite, AnswerLen <= SndBuf PROVE SessionSpec => SessionImplementsService
  OBVIOUS
<1>1. SessionInit => SInv /\ Whole /\ Promise!ServiceInit
  <2> SUFFICES ASSUME SessionInit PROVE SInv /\ Whole /\ Promise!ServiceInit
    OBVIOUS
  <2>1. SInv /\ Types
    BY BackInit, InitSlices DEF SessionInit, IInv
  <2>2. /\ out = <<>> /\ got = 0 /\ replies = <<>> /\ sent = <<>> /\ served = <<>>
        /\ Len(<<>>) = 0 /\ 1 .. 0 = {} /\ ~(0 > 0)
    BY SMT DEF SessionInit, Init
  <2>3. WholeIn(out) = 1 .. Len(replies)
    BY <2>2 DEF WholeIn
  <2>4. Whole
    BY <2>2, <2>3 DEF Whole, Ascends
  <2>5. Promise!ServiceInit
    BY <2>1, <2>2, <2>4, DeliveredAll DEF Promise!ServiceInit
  <2> QED
    BY <2>1, <2>4, <2>5
<1>2. IInv /\ Whole => AllDelivered
  BY DeliveredAll DEF IInv, AllDelivered
<1>3. IInv' /\ Whole' => AllDelivered'
  BY <1>2, PTL
<1>4. IInv /\ IInv' /\ BackOK /\ SInv /\ Whole /\ [SessionNext]_<<vars, svars>>
        => SInv' /\ Whole' /\ [Promise!ServiceNext]_<<sent, served, Delivered>>
  <2> SUFFICES ASSUME IInv, IInv', BackOK, SInv, Whole, [SessionNext]_<<vars, svars>>
               PROVE  SInv' /\ Whole' /\ [Promise!ServiceNext]_<<sent, served, Delivered>>
    OBVIOUS
  <2>1. SInv' /\ Whole' /\ [Service!ServiceNext]_<<sent, served, replies>>
    BY WholeStep DEF IInv
  <2> QED
    BY <1>2, <1>3, <2>1, SamePromise DEF AllDelivered
<1> QED
  BY <1>1, <1>4, SessionInvariant, PTL DEF SessionSpec, SessionImplementsService, Promise!ServiceSpec
=============================================================================
