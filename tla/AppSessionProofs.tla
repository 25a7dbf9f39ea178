--------------------------- MODULE AppSessionProofs ---------------------------
(***************************************************************************)
(* Proofs about AppSession, for any number of messages.                    *)
(*                                                                         *)
(* InOrder is inductive but for one thing: that a write may only be in     *)
(* progress after a handshake. HandshakeFirst needs to know what stands at *)
(* the front before anything is written: the reply to the handshake, or,   *)
(* when changes came before it, a queue that is never written at all.      *)
(***************************************************************************)
EXTENDS AppSession, SequenceTheorems, TLAPS

\* Nothing is written before a handshake.
NotYet == version = 0 => writing = 0 /\ done = <<>>

\* Until the first write of an open session completes, the queue starts with
\* the handshake reply or nothing is being written.
FrontIsReply ==
    /\ phase = "handshake" => version = 0
    /\ (phase = "open" /\ done = <<>>) =>
            outQueue # <<>> /\ (writing = 1 => outQueue[1] = "handshake")

IInv == SessionTypeOK /\ InOrder /\ NotYet /\ FrontIsReply /\ HandshakeFirst

-----------------------------------------------------------------------------
\* write_message keeps the order and the single writer.
LEMMA WriteKeepsOrder ==
    ASSUME SessionTypeOK, InOrder, NEW m \in Message, NEW v, WriteMessage(m, v)
    PROVE  /\ outQueue' \in Seq(Message) /\ posted' \in Seq(Message) /\ done' \in Seq(Message)
           /\ writing' \in Nat
           /\ InOrder'
           /\ outQueue' # <<>>
           /\ outQueue # <<>> => writing' = writing /\ outQueue'[1] = outQueue[1]
           /\ v = 0 => writing' = writing
<1>1. /\ outQueue' = Append(outQueue, m) /\ posted' = Append(posted, m) /\ done' = done
      /\ writing' = IF Len(outQueue') = 1 /\ v # 0 THEN writing + 1 ELSE writing
  BY DEF WriteMessage, Writes
<1>2. outQueue' \in Seq(Message) /\ posted' \in Seq(Message) /\ done' \in Seq(Message)
  BY <1>1 DEF SessionTypeOK
<1>3. Len(outQueue') = Len(outQueue) + 1 /\ outQueue' # <<>>
  BY <1>1 DEF SessionTypeOK
<1>4. outQueue = <<>> <=> Len(outQueue) = 0
  BY EmptySeq DEF SessionTypeOK
<1>5. posted' = done' \o outQueue'
  <2>1. posted' = Append(done \o outQueue, m)
    BY <1>1 DEF InOrder
  <2>2. Append(done \o outQueue, m) = done \o Append(outQueue, m)
    <3>1. done \in Seq(Message) /\ outQueue \in Seq(Message) /\ <<m>> \in Seq(Message)
      BY DEF SessionTypeOK
    <3>2. done \o outQueue \in Seq(Message)
      BY <3>1
    <3>3. /\ Append(done \o outQueue, m) = (done \o outQueue) \o <<m>>
          /\ Append(outQueue, m) = outQueue \o <<m>>
      BY <3>1, <3>2, AppendIsConcat
    <3>4. (done \o outQueue) \o <<m>> = done \o (outQueue \o <<m>>)
      BY <3>1, ConcatAssociative
    <3>. QED
      BY <3>3, <3>4
  <2>. QED
    BY <1>1, <2>1, <2>2
<1>6. writing' \in Nat /\ writing' <= 1
  BY <1>1, <1>3, <1>4 DEF SessionTypeOK, InOrder
<1>7. outQueue # <<>> => writing' = writing /\ outQueue'[1] = outQueue[1]
  BY <1>1, <1>3, <1>4 DEF SessionTypeOK
<1>. QED
  BY <1>1, <1>2, <1>3, <1>5, <1>6, <1>7 DEF InOrder

LEMMA InitEstablishes == SessionInit => IInv
<1>1. <<>> \in Seq(Message) /\ <<>> \o <<>> = <<>>
  BY ConcatEmptySeq, EmptySeq
<1>. SUFFICES ASSUME SessionInit PROVE IInv
  OBVIOUS
<1>2. InOrder
  BY <1>1 DEF SessionInit, InOrder
<1>3. SessionTypeOK
  BY <1>1 DEF SessionInit, SessionTypeOK
<1>. QED
  BY <1>2, <1>3 DEF SessionInit, IInv, NotYet, FrontIsReply, HandshakeFirst

LEMMA StepPreserves == IInv /\ [SessionNext]_sessionVars => IInv'
<1>. SUFFICES ASSUME IInv, [SessionNext]_sessionVars PROVE IInv'
  OBVIOUS
<1>. USE DEF IInv
<1>1. CASE HandshakeAccepted
  <2>1. /\ phase = "handshake" /\ version = 0 /\ writing = 0 /\ done = <<>>
        /\ phase' = "open" /\ version' = 1 /\ pings' = TRUE /\ owed' = owed /\ done' = <<>>
        /\ outQueue' = outQueue \o <<"handshake", "list">>
        /\ posted' = posted \o <<"handshake", "list">>
        /\ writing' = IF Len(Append(outQueue, "handshake")) = 1 THEN 1 ELSE 0
    BY <1>1 DEF HandshakeAccepted, WriteTwo, Writes, FrontIsReply, NotYet
  <2>2. outQueue' \in Seq(Message) /\ posted' \in Seq(Message) /\ Len(outQueue') = Len(outQueue) + 2
    BY <2>1 DEF SessionTypeOK, Message
  <2>3. posted' = done' \o outQueue'
    BY <2>1, <2>2 DEF SessionTypeOK, InOrder
  <2>4. writing' = 1 => Len(outQueue) = 0
    BY <2>1 DEF SessionTypeOK
  <2>5. writing' = 1 => outQueue'[1] = "handshake"
    BY <2>1, <2>4 DEF SessionTypeOK
  <2>6. outQueue' # <<>>
    BY <2>2, EmptySeq DEF SessionTypeOK
  <2>. QED
    BY <2>1, <2>2, <2>3, <2>5, <2>6
    DEF SessionTypeOK, InOrder, NotYet, FrontIsReply, HandshakeFirst
<1>2. CASE HandshakeIncompatible
  <2>1. WriteMessage("handshake", 0) /\ "handshake" \in Message
    BY <1>2 DEF HandshakeIncompatible, Message
  <2>. QED
    BY <1>2, <2>1, WriteKeepsOrder
    DEF HandshakeIncompatible, WriteMessage, SessionTypeOK, NotYet, FrontIsReply, HandshakeFirst
<1>3. CASE HandshakeRefused
  BY <1>3 DEF HandshakeRefused, SessionTypeOK, InOrder, NotYet, FrontIsReply, HandshakeFirst
<1>4. ASSUME NEW m \in Message, WriteMessage(m, version),
             phase' = phase, version' = version, pings' = pings, owed' \in Nat
      PROVE  IInv'
  BY <1>4, WriteKeepsOrder
  DEF WriteMessage, SessionTypeOK, NotYet, FrontIsReply, HandshakeFirst
<1>5. CASE DoNodeChanged
  BY <1>4, <1>5 DEF DoNodeChanged, Message, SessionTypeOK
<1>6. CASE HandleRead
  <2>1. CASE WriteMessage("answer", version) /\ UNCHANGED owed
    BY <1>4, <1>6, <2>1 DEF HandleRead, Message, SessionTypeOK
  <2>2. CASE owed' = owed + 1 /\ UNCHANGED <<outQueue, writing, posted, done>>
    BY <1>6, <2>2 DEF HandleRead, SessionTypeOK, InOrder, NotYet, FrontIsReply, HandshakeFirst
  <2>. QED
    BY <1>6, <2>1, <2>2 DEF HandleRead
<1>7. CASE Completed
  BY <1>4, <1>7 DEF Completed, Message, SessionTypeOK
<1>8. CASE ReadFailed
  BY <1>8 DEF ReadFailed, SessionTypeOK, InOrder, NotYet, FrontIsReply, HandshakeFirst
<1>9. CASE Ping
  BY <1>4, <1>9 DEF Ping, Message, SessionTypeOK
<1>10. CASE HandleWrite
  <2>1. writing = 1 /\ outQueue # <<>> /\ version = 1
    BY <1>10 DEF HandleWrite, SessionTypeOK, InOrder, NotYet
  <2>2. /\ done' = Append(done, outQueue[1]) /\ outQueue' = Tail(outQueue) /\ posted' = posted
        /\ writing' = IF outQueue' = <<>> THEN 0 ELSE 1
        /\ phase' = phase /\ version' = version /\ pings' = pings /\ owed' = owed
    BY <1>10, <2>1 DEF HandleWrite, WriteAfter, SessionTypeOK
  <2>3. outQueue[1] \in Message /\ Tail(outQueue) \in Seq(Message)
    BY <2>1, HeadTailProperties DEF SessionTypeOK
  <2>4. done' \in Seq(Message) /\ outQueue' \in Seq(Message)
    BY <2>2, <2>3 DEF SessionTypeOK
  <2>5. done' \o outQueue' = posted'
    <3>1. outQueue = <<outQueue[1]>> \o Tail(outQueue)
      BY <2>1 DEF SessionTypeOK
    <3>. QED
      BY <2>2, <2>3, <3>1 DEF SessionTypeOK, InOrder
  <2>6. done' # <<>> /\ done'[1] = (IF done = <<>> THEN outQueue[1] ELSE done[1])
    BY <2>2, <2>3 DEF SessionTypeOK
  <2>7. HandshakeFirst'
    BY <2>1, <2>2, <2>6 DEF HandshakeFirst, FrontIsReply
  <2>8. InOrder'
    <3>1. writing' <= 1 /\ (writing' = 1 => outQueue' # <<>>)
      BY <2>2
    <3>. QED
      BY <2>5, <3>1 DEF InOrder
  <2>. QED
    BY <2>1, <2>2, <2>4, <2>6, <2>7, <2>8 DEF SessionTypeOK, NotYet, FrontIsReply
<1>11. CASE Destroyed
  BY <1>11 DEF Destroyed, SessionTypeOK, InOrder, NotYet, FrontIsReply, HandshakeFirst
<1>12. CASE UNCHANGED sessionVars
  BY <1>12 DEF sessionVars, SessionTypeOK, InOrder, NotYet, FrontIsReply, HandshakeFirst
<1>. QED
  BY <1>1, <1>2, <1>3, <1>5, <1>6, <1>7, <1>8, <1>9, <1>10, <1>11, <1>12 DEF SessionNext

-----------------------------------------------------------------------------
\* The inductive invariant holds in every state of every behaviour.
THEOREM Invariance == SessionSpec => []IInv
BY InitEstablishes, StepPreserves, PTL DEF SessionSpec

\* Whatever writes to a client, and however writes fail, its messages leave in
\* the order of the write_message calls, one at a time.
THEOREM OutputInOrder == SessionSpec => []InOrder
<1>1. IInv => InOrder
  BY DEF IInv
<1>. QED
  BY <1>1, Invariance, PTL

\* A client with an open session sees the handshake reply before anything else.
THEOREM ReplyFirst == SessionSpec => []HandshakeFirst
<1>1. IInv => HandshakeFirst
  BY DEF IInv
<1>. QED
  BY <1>1, Invariance, PTL
=============================================================================
