---------------------------- MODULE EndpointWriter ----------------------------
(***************************************************************************)
(* The way out to a robot: aseba_endpoint::m_msg_queue. Batches of         *)
(* messages come from aseba_node, the group and the ping timer, some with  *)
(* a callback to run when they have been written. A write error empties    *)
(* the queue; a firmware upgrade stops the writer for good.                *)
(***************************************************************************)
EXTENDS Naturals, Sequences

CONSTANTS
    MaxBatches,   \* bound: batches handed to the endpoint
    MaxSize       \* bound: messages of a batch

ASSUME SizesOK == MaxBatches \in Nat /\ MaxSize \in Nat

VARIABLES
    msgQueue,      \* m_msg_queue
    inflight,   \* asynchronous writes in progress on the device
    upgrading,  \* m_upgrading_firmware
    size,       \* history: the size of each batch handed over so far
    wanted,     \* history: the batches that came with a callback
    sent,       \* history: the messages written without error
    dropped,    \* history: the batches that lost messages to a write error
    called      \* history: the callbacks posted, in order

writerVars == <<msgQueue, inflight, upgrading, size, wanted, sent, dropped, called>>

\* A message is named by its batch and its place in the vector; the entry that
\* carries the callback of the batch is marked.
Entry == [batch : Nat, place : Nat, cb : BOOLEAN]

Batches == 1..Len(size)

\* What write_messages inserts for batch b of k messages. Each insert goes in
\* front of the one before, so the vector is reversed, and the callback goes to
\* the last one inserted.
Inserted(b, k, cb) ==
    [i \in 1..k |-> [batch |-> b, place |-> k + 1 - i, cb |-> cb /\ i = 1]]

\* Where it is inserted: the search for a place before the messages of low
\* priority stops where it starts, at the end.
Enqueued(q, new) == q \o new

\* write_next is reached only if the queue held nothing before.
Starts_Late(q, k) == Len(q) < k
Starts_Always(q, k) == TRUE
Starts(q, k) == Len(q) <= k

\* write_next: the front is written unless the firmware is being upgraded.
WriteNext(q) == IF q # <<>> /\ ~upgrading THEN 1 ELSE 0

\* write_messages for a batch that is not empty.
WriteMessages(k, cb) ==
    /\ Len(size) < MaxBatches
    /\ LET b == Len(size) + 1
           q == Enqueued(msgQueue, Inserted(b, k, cb))
       IN
       /\ msgQueue' = q
       /\ inflight' = inflight + (IF Starts(q, k) THEN WriteNext(q) ELSE 0)
       /\ size' = Append(size, k)
       /\ wanted' = IF cb THEN wanted \cup {b} ELSE wanted
    /\ UNCHANGED <<upgrading, sent, dropped, called>>

\* handle_write without error: post the callback, drop the front, write on.
\* (OneWrite shows that it never finds the queue empty.)
Posted(e) == IF e.cb THEN <<e.batch>> ELSE <<>>

EndpointHandleWrite ==
    /\ inflight > 0 /\ msgQueue # <<>>
    /\ called' = called \o Posted(Head(msgQueue))
    /\ sent' = Append(sent, Head(msgQueue))
    /\ msgQueue' = Tail(msgQueue)
    /\ inflight' = inflight - 1 + WriteNext(msgQueue')
    /\ UNCHANGED <<upgrading, size, wanted, dropped>>

\* handle_write with an error: everything queued is thrown away.
HandleWriteError ==
    /\ inflight > 0 /\ msgQueue # <<>>
    /\ dropped' = dropped \cup {msgQueue[i].batch : i \in DOMAIN msgQueue}
    /\ msgQueue' = <<>>
    /\ inflight' = inflight - 1
    /\ UNCHANGED <<upgrading, size, wanted, sent, called>>

\* upgrade_firmware.
UpgradeFirmware ==
    /\ ~upgrading
    /\ upgrading' = TRUE
    /\ UNCHANGED <<msgQueue, inflight, size, wanted, sent, dropped, called>>

-----------------------------------------------------------------------------

WriterInit ==
    /\ msgQueue = <<>> /\ inflight = 0 /\ upgrading = FALSE
    /\ size = <<>> /\ wanted = {} /\ sent = <<>> /\ dropped = {} /\ called = <<>>

WriterNext ==
    \/ \E k \in 1..MaxSize, cb \in BOOLEAN : WriteMessages(k, cb)
    \/ EndpointHandleWrite
    \/ HandleWriteError
    \/ UpgradeFirmware

WriterSpec == WriterInit /\ [][WriterNext]_writerVars

-----------------------------------------------------------------------------

WriterTypeOK ==
    /\ msgQueue \in Seq(Entry) /\ sent \in Seq(Entry)
    /\ inflight \in Nat /\ upgrading \in BOOLEAN
    /\ size \in Seq(Nat) /\ called \in Seq(Nat)
    /\ wanted \subseteq Nat /\ dropped \subseteq Nat

\* Two writes never overlap on the device, and a write in progress is that of
\* the queue's front: the test on the size in write_messages holds off a second
\* writer whatever fails, and only an upgrade leaves the queue unattended.
OneWrite ==
    /\ inflight <= 1
    /\ inflight = 1 => msgQueue # <<>>
    /\ (msgQueue # <<>> /\ inflight = 0) => upgrading

\* Batches do not mix: the robot gets all of one before any of the next, even
\* when an error threw part of one away.
BatchesInOrder ==
    LET out == sent \o msgQueue IN
    \A i, j \in DOMAIN out : i < j => out[i].batch <= out[j].batch

\* A callback runs once, for a batch that has one, and after a message of that
\* batch was written.
CallbackOnce ==
    /\ \A i, j \in DOMAIN called : called[i] = called[j] => i = j
    /\ \A i \in DOMAIN called :
        called[i] \in wanted /\ \E j \in DOMAIN sent : sent[j].batch = called[i]

\* The callback is invoked when all messages of the batch have been written.
CallbackAfterAll ==
    \A i \in DOMAIN called :
        \A p \in 1..size[called[i]] :
            \E j \in DOMAIN sent : sent[j].batch = called[i] /\ sent[j].place = p

\* Every callback is run, unless its batch lost a message to a write error or an
\* upgrade stopped the writer.
Answered ==
    \A b \in 1..MaxBatches :
        []<>(b \in wanted => b \in dropped \/ upgrading \/ \E i \in DOMAIN called : called[i] = b)

=============================================================================
