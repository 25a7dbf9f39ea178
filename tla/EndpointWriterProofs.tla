------------------------- MODULE EndpointWriterProofs -------------------------
(***************************************************************************)
(* Proofs about EndpointWriter, for batches of any number and size.        *)
(*                                                                         *)
(* Order splits the claim about everything sent and queued into claims     *)
(* about each list and across the two; Callbacks says which callbacks are  *)
(* still to come, so that posting one can be seen to be the first time.    *)
(***************************************************************************)
EXTENDS EndpointWriter, SequenceTheorems, TLAPS

Order ==
    /\ \A i, j \in DOMAIN msgQueue : i < j => msgQueue[i].batch <= msgQueue[j].batch
    /\ \A i, j \in DOMAIN sent : i < j => sent[i].batch <= sent[j].batch
    /\ \A i \in DOMAIN sent, j \in DOMAIN msgQueue : sent[i].batch <= msgQueue[j].batch
    /\ \A i \in DOMAIN msgQueue : msgQueue[i].batch <= Len(size)
    /\ \A i \in DOMAIN sent : sent[i].batch <= Len(size)

Callbacks ==
    /\ \A i \in DOMAIN msgQueue : msgQueue[i].cb =>
        /\ msgQueue[i].batch \in wanted
        /\ \A j \in DOMAIN msgQueue : msgQueue[j].cb /\ msgQueue[j].batch = msgQueue[i].batch => j = i
        /\ \A j \in DOMAIN called : called[j] # msgQueue[i].batch
    /\ \A i \in DOMAIN called : called[i] <= Len(size)
    /\ CallbackOnce

IInv == WriterTypeOK /\ OneWrite /\ Order /\ Callbacks

-----------------------------------------------------------------------------
\* The types of the elements of the lists.
LEMMA ElementTypes ==
    ASSUME WriterTypeOK
    PROVE  /\ \A i \in DOMAIN msgQueue : msgQueue[i].batch \in Nat /\ msgQueue[i].cb \in BOOLEAN
           /\ \A i \in DOMAIN sent : sent[i].batch \in Nat
           /\ \A i \in DOMAIN called : called[i] \in Nat
<1>1. \A i \in DOMAIN msgQueue : msgQueue[i] \in Entry
  BY DEF WriterTypeOK
<1>2. \A i \in DOMAIN sent : sent[i] \in Entry
  BY DEF WriterTypeOK
<1>3. \A i \in DOMAIN called : called[i] \in Nat
  BY DEF WriterTypeOK
<1>. QED
  BY <1>1, <1>2, <1>3 DEF Entry

LEMMA InitEstablishes == WriterInit => IInv
<1>. SUFFICES ASSUME WriterInit PROVE IInv
  OBVIOUS
<1>1. WriterTypeOK
  <2>1. <<>> \in Seq(Entry) /\ <<>> \in Seq(Nat)
    BY EmptySeq
  <2>. QED
    BY <2>1 DEF WriterInit, WriterTypeOK
<1>2. DOMAIN msgQueue = {} /\ DOMAIN sent = {} /\ DOMAIN called = {}
  BY DEF WriterInit
<1>3. Order /\ Callbacks
  BY <1>2 DEF Order, Callbacks, CallbackOnce
<1>4. OneWrite
  BY DEF WriterInit, OneWrite
<1>. QED
  BY <1>1, <1>3, <1>4 DEF IInv

LEMMA WriteMessagesPreserves ==
    ASSUME IInv, NEW k \in 1..MaxSize, NEW cb \in BOOLEAN, WriteMessages(k, cb)
    PROVE  IInv'
<1>. USE DEF IInv
<1>. DEFINE b == Len(size) + 1
            new == Inserted(b, k, cb)
<1>1. k \in Nat /\ k >= 1
  BY SizesOK
<1>2. b \in Nat /\ Len(size) \in Nat
  BY DEF WriterTypeOK
<1>3. /\ new \in Seq(Entry) /\ Len(new) = k
      /\ \A i \in 1..k : new[i].batch = b /\ (new[i].cb => cb /\ i = 1)
  <2>. DEFINE f == [i \in 1..k |-> [batch |-> b, place |-> k + 1 - i, cb |-> cb /\ i = 1]]
  <2>1. \A i \in 1..k : f[i] \in Entry /\ f[i].batch = b /\ (f[i].cb => cb /\ i = 1)
    <3>. SUFFICES ASSUME NEW i \in 1..k
                  PROVE  f[i] \in Entry /\ f[i].batch = b /\ (f[i].cb => cb /\ i = 1)
      OBVIOUS
    <3>1. f[i] \in Entry
      BY <1>1, <1>2 DEF Entry
    <3>2. f[i].batch = b
      OBVIOUS
    <3>3. f[i].cb = (cb /\ i = 1)
      BY Zenon
    <3>. HIDE DEF f
    <3>. QED
      BY <3>1, <3>2, <3>3
  <2>2. f \in [1..k -> Entry]
    BY <2>1
  <2>. HIDE DEF f
  <2>3. f \in Seq(Entry) /\ Len(f) = k
    BY <1>1, <2>2
  <2>4. new = f
    BY DEF Inserted, f
  <2>. QED
    BY <2>1, <2>3, <2>4
<1>4. /\ msgQueue' = msgQueue \o new
      /\ inflight' = inflight + (IF Starts(msgQueue \o new, k) THEN WriteNext(msgQueue \o new) ELSE 0)
      /\ size' = Append(size, k)
      /\ wanted' = IF cb THEN wanted \cup {b} ELSE wanted
      /\ upgrading' = upgrading /\ sent' = sent /\ dropped' = dropped /\ called' = called
  BY DEF WriteMessages, Enqueued
<1>. HIDE DEF new
<1>5. /\ msgQueue' \in Seq(Entry) /\ Len(msgQueue') = Len(msgQueue) + k
      /\ \A i \in DOMAIN msgQueue' :
            msgQueue'[i] = IF i <= Len(msgQueue) THEN msgQueue[i] ELSE new[i - Len(msgQueue)]
  <2>1. msgQueue \in Seq(Entry) /\ Len(msgQueue) \in Nat
    BY DEF WriterTypeOK
  <2>2. /\ msgQueue \o new \in Seq(Entry) /\ Len(msgQueue \o new) = Len(msgQueue) + k
        /\ \A i \in 1..(Len(msgQueue) + k) :
              (msgQueue \o new)[i] = IF i <= Len(msgQueue) THEN msgQueue[i] ELSE new[i - Len(msgQueue)]
    BY <1>3, <2>1, ConcatProperties, Zenon
  <2>3. DOMAIN (msgQueue \o new) = 1..(Len(msgQueue) + k)
    BY <2>2
  <2>. QED
    BY <1>4, <2>2, <2>3
<1>6. Len(size') = b /\ size' \in Seq(Nat)
  BY <1>1, <1>2, <1>4 DEF WriterTypeOK
<1>7. \A i \in DOMAIN msgQueue' :
        \/ i \in DOMAIN msgQueue /\ msgQueue'[i] = msgQueue[i]
        \/ /\ i > Len(msgQueue) /\ msgQueue'[i].batch = b
           /\ msgQueue'[i].cb => cb /\ i = Len(msgQueue) + 1
  <2>. SUFFICES ASSUME NEW i \in DOMAIN msgQueue'
                PROVE  \/ i \in DOMAIN msgQueue /\ msgQueue'[i] = msgQueue[i]
                       \/ /\ i > Len(msgQueue) /\ msgQueue'[i].batch = b
                          /\ msgQueue'[i].cb => cb /\ i = Len(msgQueue) + 1
    OBVIOUS
  <2>1. msgQueue \in Seq(Entry) /\ Len(msgQueue) \in Nat /\ i \in 1..(Len(msgQueue) + k)
    BY <1>1, <1>5 DEF WriterTypeOK
  <2>2. CASE i <= Len(msgQueue)
    BY <1>5, <2>1, <2>2
  <2>3. CASE i > Len(msgQueue)
    <3>1. i - Len(msgQueue) \in 1..k /\ msgQueue'[i] = new[i - Len(msgQueue)]
      BY <1>1, <1>5, <2>1, <2>3
    <3>. QED
      BY <1>3, <2>1, <2>3, <3>1
  <2>. QED
    BY <2>1, <2>2, <2>3
<1>8. DOMAIN msgQueue' = 1..Len(msgQueue') /\ DOMAIN msgQueue = 1..Len(msgQueue) /\ Len(msgQueue) \in Nat
  BY <1>5 DEF WriterTypeOK
<1>9. /\ \A i \in DOMAIN msgQueue : msgQueue[i].batch \in Nat
      /\ \A i \in DOMAIN sent : sent[i].batch \in Nat
      /\ \A i \in DOMAIN called : called[i] \in Nat
  BY ElementTypes
<1>10. WriterTypeOK'
  <2>1. inflight' \in Nat
    BY <1>4 DEF WriterTypeOK, WriteNext
  <2>. QED
    BY <1>2, <1>4, <1>5, <1>6, <2>1 DEF WriterTypeOK
<1>11. OneWrite'
  <2>1. msgQueue' # <<>>
    BY <1>1, <1>5, <1>8
  <2>2. Starts(msgQueue \o new, k) <=> msgQueue = <<>>
    BY <1>1, <1>4, <1>5, <1>8 DEF Starts, WriterTypeOK
  <2>3. CASE msgQueue = <<>>
    BY <1>4, <2>1, <2>2, <2>3 DEF OneWrite, WriteNext, WriterTypeOK
  <2>4. CASE msgQueue # <<>>
    BY <1>4, <2>1, <2>2, <2>4 DEF OneWrite, WriterTypeOK
  <2>. QED
    BY <2>3, <2>4
<1>12. Order'
  <2>1. \A i \in DOMAIN msgQueue' : msgQueue'[i].batch <= b /\ msgQueue'[i].batch \in Nat
    BY <1>2, <1>7, <1>9 DEF Order
  <2>2. \A i, j \in DOMAIN msgQueue' : i < j => msgQueue'[i].batch <= msgQueue'[j].batch
    BY <1>2, <1>7, <1>8, <1>9 DEF Order
  <2>3. \A i \in DOMAIN sent, j \in DOMAIN msgQueue' : sent[i].batch <= msgQueue'[j].batch
    BY <1>2, <1>7, <1>9 DEF Order
  <2>4. \A i \in DOMAIN sent : sent[i].batch <= b
    BY <1>2, <1>9 DEF Order
  <2>. QED
    BY <1>4, <1>6, <2>1, <2>2, <2>3, <2>4 DEF Order
<1>13. Callbacks'
  <2>1. ASSUME NEW i \in DOMAIN msgQueue', msgQueue'[i].cb
        PROVE  /\ msgQueue'[i].batch \in wanted'
               /\ \A j \in DOMAIN msgQueue' : msgQueue'[j].cb /\ msgQueue'[j].batch = msgQueue'[i].batch => j = i
               /\ \A j \in DOMAIN called' : called'[j] # msgQueue'[i].batch
    <3>1. CASE i \in DOMAIN msgQueue /\ msgQueue'[i] = msgQueue[i]
      <4>1. msgQueue[i].batch # b
        BY <1>2, <1>9, <3>1 DEF Order
      <4>2. \A j \in DOMAIN msgQueue' : msgQueue'[j].batch = msgQueue[i].batch => j \in DOMAIN msgQueue /\ msgQueue'[j] = msgQueue[j]
        BY <1>7, <4>1
      <4>. QED
        BY <1>4, <2>1, <3>1, <4>2 DEF Callbacks
    <3>2. CASE i > Len(msgQueue) /\ msgQueue'[i].batch = b /\ cb /\ i = Len(msgQueue) + 1
      <4>1. \A j \in DOMAIN msgQueue : msgQueue[j].batch # b
        BY <1>2, <1>9 DEF Order
      <4>2. \A j \in DOMAIN called : called[j] # b
        BY <1>2, <1>9 DEF Callbacks
      <4>. QED
        BY <1>4, <1>7, <3>2, <4>1, <4>2
    <3>. QED
      BY <1>7, <2>1, <3>1, <3>2
  <2>2. \A i \in DOMAIN called' : called'[i] <= Len(size')
    BY <1>2, <1>4, <1>6, <1>9 DEF Callbacks
  <2>3. CallbackOnce'
    BY <1>4 DEF Callbacks, CallbackOnce
  <2>. QED
    BY <2>1, <2>2, <2>3 DEF Callbacks
<1>. QED
  BY <1>10, <1>11, <1>12, <1>13

LEMMA HandleWritePreserves ==
    ASSUME IInv, EndpointHandleWrite
    PROVE  IInv'
<1>. USE DEF IInv
<1>. DEFINE e == Head(msgQueue)
<1>1. /\ msgQueue \in Seq(Entry) /\ msgQueue # <<>> /\ inflight = 1
      /\ sent \in Seq(Entry) /\ called \in Seq(Nat)
  BY DEF EndpointHandleWrite, OneWrite, WriterTypeOK
<1>2. /\ e = msgQueue[1] /\ e \in Entry /\ 1 \in DOMAIN msgQueue
      /\ Tail(msgQueue) \in Seq(Entry) /\ Len(Tail(msgQueue)) = Len(msgQueue) - 1 /\ Len(msgQueue) \in Nat
      /\ \A i \in DOMAIN Tail(msgQueue) : i + 1 \in DOMAIN msgQueue /\ Tail(msgQueue)[i] = msgQueue[i + 1]
      /\ DOMAIN Tail(msgQueue) \subseteq Nat /\ \A i \in DOMAIN Tail(msgQueue) : i + 1 > 1
  BY <1>1
<1>3. /\ msgQueue' = Tail(msgQueue) /\ sent' = Append(sent, e)
      /\ called' = IF e.cb THEN called \o <<e.batch>> ELSE called \o <<>>
      /\ inflight' = WriteNext(msgQueue')
      /\ upgrading' = upgrading /\ size' = size /\ wanted' = wanted /\ dropped' = dropped
  BY <1>1 DEF EndpointHandleWrite, Posted, WriteNext
<1>4. e.batch \in Nat /\ e.cb \in BOOLEAN
  BY <1>2 DEF Entry
<1>5. /\ called' \in Seq(Nat)
      /\ \A i \in DOMAIN called' :
            \/ i \in DOMAIN called /\ called'[i] = called[i]
            \/ e.cb /\ i = Len(called) + 1 /\ called'[i] = e.batch
  <2>1. CASE e.cb
    BY <1>1, <1>3, <1>4, <2>1
  <2>2. CASE ~e.cb
    <3>1. called' = called
      BY <1>1, <1>3, <2>2, ConcatEmptySeq
    <3>. QED
      BY <1>1, <3>1
  <2>. QED
    BY <1>4, <2>1, <2>2
<1>6. /\ sent' \in Seq(Entry) /\ Len(sent') = Len(sent) + 1 /\ Len(sent) \in Nat
      /\ DOMAIN sent = 1..Len(sent) /\ DOMAIN sent' = 1..(Len(sent) + 1)
      /\ sent'[Len(sent) + 1] = e
      /\ \A i \in DOMAIN sent : sent'[i] = sent[i]
  <2>. HIDE DEF e
  <2>. QED
    BY <1>1, <1>2, <1>3
<1>7. WriterTypeOK'
  BY <1>2, <1>3, <1>5, <1>6 DEF WriterTypeOK, WriteNext
<1>8. OneWrite'
  BY <1>3 DEF OneWrite, WriteNext
<1>9. /\ \A i \in DOMAIN msgQueue : msgQueue[i].batch \in Nat
      /\ \A i \in DOMAIN sent : sent[i].batch \in Nat
  BY ElementTypes
<1>. HIDE DEF e
<1>10. Order'
  <2>1. \A i \in DOMAIN msgQueue' : e.batch <= msgQueue'[i].batch /\ msgQueue'[i].batch <= Len(size)
    BY <1>2, <1>3 DEF Order
  <2>2. \A i, j \in DOMAIN msgQueue' : i < j => msgQueue'[i].batch <= msgQueue'[j].batch
    <3>1. \A i, j \in DOMAIN msgQueue' : i < j => i + 1 < j + 1
      BY <1>2, <1>3
    <3>. QED
      BY <1>2, <1>3, <3>1 DEF Order
  <2>3. \A i \in DOMAIN sent : sent[i].batch <= e.batch
    BY <1>2 DEF Order
  <2>4. \A i \in DOMAIN sent' : i \in DOMAIN sent \/ i = Len(sent) + 1
    BY <1>6
  <2>5. \A i, j \in DOMAIN sent' : i < j => sent'[i].batch <= sent'[j].batch
    <3>1. \A i, j \in DOMAIN sent' : i < j => i \in DOMAIN sent
      BY <1>6
    <3>. QED
      BY <1>6, <2>3, <2>4, <3>1 DEF Order
  <2>6. \A i \in DOMAIN sent', j \in DOMAIN msgQueue' : sent'[i].batch <= msgQueue'[j].batch
    BY <1>2, <1>3, <1>6, <2>1, <2>4 DEF Order
  <2>7. \A i \in DOMAIN sent' : sent'[i].batch <= Len(size)
    BY <1>2, <1>6, <2>4 DEF Order
  <2>. QED
    BY <1>3, <2>1, <2>2, <2>5, <2>6, <2>7 DEF Order
<1>11. Callbacks'
  <2>1. e.cb => /\ e.batch \in wanted
                /\ \A j \in DOMAIN called : called[j] # e.batch
    BY <1>2 DEF Callbacks
  <2>2. ASSUME NEW i \in DOMAIN msgQueue', msgQueue'[i].cb
        PROVE  /\ msgQueue'[i].batch \in wanted'
               /\ \A j \in DOMAIN msgQueue' : msgQueue'[j].cb /\ msgQueue'[j].batch = msgQueue'[i].batch => j = i
               /\ \A j \in DOMAIN called' : called'[j] # msgQueue'[i].batch
    <3>1. msgQueue'[i] = msgQueue[i + 1] /\ i + 1 \in DOMAIN msgQueue /\ i \in Nat
      BY <1>2, <1>3, <2>2
    <3>2. \A j \in DOMAIN msgQueue' : msgQueue'[j].cb /\ msgQueue'[j].batch = msgQueue'[i].batch => j + 1 = i + 1 /\ j \in Nat
      BY <1>2, <1>3, <2>2, <3>1 DEF Callbacks
    <3>3. e.cb => e.batch # msgQueue'[i].batch
      <4>1. i + 1 # 1
        BY <1>2, <1>3
      <4>. QED
        BY <1>2, <2>2, <3>1, <4>1 DEF Callbacks
    <3>4. \A j \in DOMAIN called' : called'[j] # msgQueue'[i].batch
      BY <1>5, <2>2, <3>1, <3>3 DEF Callbacks
    <3>. QED
      BY <1>3, <2>2, <3>1, <3>2, <3>4 DEF Callbacks
  <2>3. \A i \in DOMAIN called' : called'[i] <= Len(size')
    BY <1>2, <1>3, <1>5 DEF Callbacks, Order
  <2>4. \A i, j \in DOMAIN called' : called'[i] = called'[j] => i = j
    BY <1>5, <2>1 DEF Callbacks, CallbackOnce
  <2>5. \A i \in DOMAIN called' :
            called'[i] \in wanted' /\ \E j \in DOMAIN sent' : sent'[j].batch = called'[i]
    <3>. SUFFICES ASSUME NEW i \in DOMAIN called'
                  PROVE  called'[i] \in wanted' /\ \E j \in DOMAIN sent' : sent'[j].batch = called'[i]
      OBVIOUS
    <3>1. Len(sent) + 1 \in DOMAIN sent' /\ \A j \in DOMAIN sent : j \in DOMAIN sent'
      BY <1>6
    <3>2. CASE i \in DOMAIN called /\ called'[i] = called[i]
      <4>1. called[i] \in wanted /\ \E j \in DOMAIN sent : sent[j].batch = called[i]
        BY <3>2 DEF Callbacks, CallbackOnce
      <4>. QED
        BY <1>3, <1>6, <3>1, <3>2, <4>1
    <3>3. CASE e.cb /\ called'[i] = e.batch
      BY <1>3, <1>6, <2>1, <3>1, <3>3
    <3>. QED
      BY <1>5, <3>2, <3>3
  <2>. QED
    BY <2>2, <2>3, <2>4, <2>5 DEF Callbacks, CallbackOnce
<1>. QED
  BY <1>7, <1>8, <1>10, <1>11

LEMMA StepPreserves == IInv /\ [WriterNext]_writerVars => IInv'
<1>. SUFFICES ASSUME IInv, [WriterNext]_writerVars PROVE IInv'
  OBVIOUS
<1>1. CASE \E k \in 1..MaxSize, cb \in BOOLEAN : WriteMessages(k, cb)
  BY <1>1, WriteMessagesPreserves
<1>2. CASE EndpointHandleWrite
  BY <1>2, HandleWritePreserves
<1>3. CASE HandleWriteError
  <2>1. /\ msgQueue' = <<>> /\ inflight' = 0 /\ upgrading' = upgrading /\ size' = size
        /\ wanted' = wanted /\ sent' = sent /\ called' = called
        /\ dropped' = dropped \cup {msgQueue[i].batch : i \in DOMAIN msgQueue}
    BY <1>3 DEF HandleWriteError, IInv, OneWrite, WriterTypeOK
  <2>2. dropped' \subseteq Nat
    BY <2>1, ElementTypes DEF IInv, WriterTypeOK
  <2>3. DOMAIN msgQueue' = {}
    BY <2>1
  <2>4. WriterTypeOK' /\ OneWrite'
    BY <2>1, <2>2 DEF IInv, WriterTypeOK, OneWrite
  <2>5. Order' /\ Callbacks'
    BY <2>1, <2>3 DEF IInv, Order, Callbacks, CallbackOnce
  <2>. QED
    BY <2>4, <2>5 DEF IInv
<1>4. CASE UpgradeFirmware
  BY <1>4 DEF UpgradeFirmware, IInv, WriterTypeOK, OneWrite, Order, Callbacks, CallbackOnce
<1>5. CASE UNCHANGED writerVars
  BY <1>5 DEF writerVars, IInv, WriterTypeOK, OneWrite, Order, Callbacks, CallbackOnce
<1>. QED
  BY <1>1, <1>2, <1>3, <1>4, <1>5 DEF WriterNext

-----------------------------------------------------------------------------
\* The inductive invariant holds in every state of every behaviour.
THEOREM Invariance == WriterSpec => []IInv
BY InitEstablishes, StepPreserves, PTL DEF WriterSpec

\* Writes to a robot never overlap, whatever fails, and the queue is attended to
\* unless a firmware upgrade runs.
THEOREM NeverTwoWrites == WriterSpec => []OneWrite
<1>1. IInv => OneWrite
  BY DEF IInv
<1>. QED
  BY <1>1, Invariance, PTL

\* Batches reach the robot one after the other.
THEOREM BatchesStayApart == WriterSpec => []BatchesInOrder
<1>1. IInv => BatchesInOrder
  <2>. SUFFICES ASSUME IInv,
                       NEW i \in DOMAIN (sent \o msgQueue), NEW j \in DOMAIN (sent \o msgQueue), i < j
                PROVE  (sent \o msgQueue)[i].batch <= (sent \o msgQueue)[j].batch
    BY DEF BatchesInOrder
  <2>1. sent \in Seq(Entry) /\ msgQueue \in Seq(Entry) /\ Len(sent) \in Nat /\ Len(msgQueue) \in Nat
    BY DEF IInv, WriterTypeOK
  <2>2. i \in 1..(Len(sent) + Len(msgQueue)) /\ j \in 1..(Len(sent) + Len(msgQueue))
    BY <2>1
  <2>3. \A x \in 1..(Len(sent) + Len(msgQueue)) :
            (sent \o msgQueue)[x] = IF x <= Len(sent) THEN sent[x] ELSE msgQueue[x - Len(sent)]
    BY <2>1, ConcatProperties
  <2>4. CASE j <= Len(sent)
    <3>1. i \in DOMAIN sent /\ j \in DOMAIN sent
      BY <2>1, <2>2, <2>4
    <3>. QED
      BY <2>2, <2>3, <2>4, <3>1 DEF IInv, Order
  <2>5. CASE i <= Len(sent) /\ j > Len(sent)
    <3>1. i \in DOMAIN sent /\ j - Len(sent) \in DOMAIN msgQueue
      BY <2>1, <2>2, <2>5
    <3>. QED
      BY <2>2, <2>3, <2>5, <3>1 DEF IInv, Order
  <2>6. CASE i > Len(sent)
    <3>1. /\ i - Len(sent) \in DOMAIN msgQueue /\ j - Len(sent) \in DOMAIN msgQueue
          /\ i - Len(sent) < j - Len(sent) /\ j > Len(sent)
      BY <2>1, <2>2, <2>6
    <3>. QED
      BY <2>2, <2>3, <2>6, <3>1 DEF IInv, Order
  <2>. QED
    BY <2>2, <2>4, <2>5, <2>6
<1>. QED
  BY <1>1, Invariance, PTL

\* No callback runs twice, or before anything of its batch was written.
THEOREM CallbackAtMostOnce == WriterSpec => []CallbackOnce
<1>1. IInv => CallbackOnce
  BY DEF IInv, Callbacks
<1>. QED
  BY <1>1, Invariance, PTL
=============================================================================
