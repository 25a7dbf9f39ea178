------------------------------ MODULE AppSession ------------------------------
(***************************************************************************)
(* One client connection (application_endpoint): the handshake, the read   *)
(* loop, and m_queue, the messages on their way out. Every message is      *)
(* queued; the front of the queue is being written, and the completion of  *)
(* the write pops it and writes the next. Before the handshake messages    *)
(* are only queued. Writers are the client's own requests, the completion  *)
(* callbacks of robots, the ping timer and the status changes of robots,   *)
(* in any order.                                                           *)
(***************************************************************************)
EXTENDS Naturals, Sequences

CONSTANTS
    MaxEarly,     \* bound: status changes passed on before the handshake
    MaxPosted     \* bound: messages queued altogether

ASSUME BoundsOK == MaxEarly \in Nat /\ MaxPosted \in Nat

VARIABLES
    phase,      \* what the pending read waits for; "deaf" when there is none
    version,    \* m_protocol_version; 0 until a handshake is accepted
    outQueue,      \* m_queue
    writing,    \* asynchronous writes in progress on the socket
    pings,      \* start_sending_pings was called
    owed,       \* requests whose answer waits for a robot
    posted,     \* history: everything given to write_message
    done        \* history: everything whose write has completed

sessionVars == <<phase, version, outQueue, writing, pings, owed, posted, done>>

Message == {"handshake", "list", "changed", "ping", "answer"}

\* The test of write_message after emplacing a message: with m_protocol_version
\* = v, is q's front to be written now?
Writes_Always(q, v) == v # 0
Writes(q, v) == Len(q) = 1 /\ v # 0

WriteMessage(m, v) ==
    /\ outQueue' = Append(outQueue, m)
    /\ posted' = Append(posted, m)
    /\ writing' = IF Writes(outQueue', v) THEN writing + 1 ELSE writing
    /\ UNCHANGED done

\* The handshake reply and the list of nodes: the second always finds a message
\* in front of it.
WriteTwo(m1, m2, v) ==
    /\ outQueue' = outQueue \o <<m1, m2>>
    /\ posted' = posted \o <<m1, m2>>
    /\ writing' = IF Writes(Append(outQueue, m1), v) THEN writing + 1 ELSE writing
    /\ UNCHANGED done

Alive == phase # "gone"
Room  == Len(posted) < MaxPosted

-----------------------------------------------------------------------------

\* handle_handshake, when the client speaks a version this server understands
\* and needs no password or gave the right one.
HandshakeAccepted ==
    /\ phase = "handshake"
    /\ version' = 1
    /\ WriteTwo("handshake", "list", 1)
    /\ pings' = TRUE
    /\ phase' = "open"
    /\ UNCHANGED owed

\* handle_handshake for a version that is too old: the reply is queued, and
\* nothing is read any more.
HandshakeIncompatible ==
    /\ phase = "handshake" /\ Room
    /\ WriteMessage("handshake", 0)
    /\ phase' = "deaf"
    /\ UNCHANGED <<version, pings, owed>>

\* handle_handshake that returns early: the read failed, the message is not a
\* handshake, or the password is missing or wrong (the version is set by then).
HandshakeRefused ==
    /\ phase = "handshake"
    /\ phase' = "deaf"
    /\ version' \in {version, 1}
    /\ UNCHANGED <<outQueue, writing, pings, owed, posted, done>>

\* do_node_changed, run from the strand.
DoNodeChanged ==
    /\ Alive /\ Room
    /\ phase = "handshake" => Len(posted) < MaxEarly
    /\ WriteMessage("changed", version)
    /\ UNCHANGED <<phase, version, pings, owed>>

\* handle_read of a request that is answered at once, or when a robot is done.
HandleRead ==
    /\ phase = "open" /\ Room
    /\ \/ WriteMessage("answer", version) /\ UNCHANGED owed
       \/ owed' = owed + 1 /\ owed < MaxPosted
          /\ UNCHANGED <<outQueue, writing, posted, done>>
    /\ UNCHANGED <<phase, version, pings>>

\* The callback of create_device_write_completion_cb, run from the strand.
Completed ==
    /\ Alive /\ owed > 0 /\ Room
    /\ owed' = owed - 1
    /\ WriteMessage("answer", version)
    /\ UNCHANGED <<phase, version, pings>>

\* handle_read with an error.
ReadFailed ==
    /\ phase = "open"
    /\ phase' = "deaf"
    /\ UNCHANGED <<version, outQueue, writing, pings, owed, posted, done>>

\* The ping timer; it holds a weak reference.
Ping ==
    /\ Alive /\ pings /\ Room
    /\ WriteMessage("ping", version)
    /\ UNCHANGED <<phase, version, pings, owed>>

\* handle_write: the error code is only logged.
WriteAfter_Stop(q, w) == w - 1
WriteAfter(q, w) == IF q = <<>> THEN w - 1 ELSE w

HandleWrite ==
    /\ writing > 0
    /\ done' = Append(done, Head(outQueue))
    /\ outQueue' = Tail(outQueue)
    /\ writing' = WriteAfter(outQueue', writing)
    /\ UNCHANGED <<phase, version, pings, owed, posted>>

\* ~application_endpoint: no read and no write refers to the endpoint.
Destroyed ==
    /\ phase = "deaf" /\ writing = 0
    /\ phase' = "gone"
    /\ UNCHANGED <<version, outQueue, writing, pings, owed, posted, done>>

-----------------------------------------------------------------------------

SessionInit ==
    /\ phase = "handshake" /\ version = 0
    /\ outQueue = <<>> /\ writing = 0
    /\ pings = FALSE /\ owed = 0
    /\ posted = <<>> /\ done = <<>>

SessionNext ==
    \/ HandshakeAccepted \/ HandshakeIncompatible \/ HandshakeRefused
    \/ DoNodeChanged \/ HandleRead \/ Completed \/ ReadFailed \/ Ping
    \/ HandleWrite
    \/ Destroyed

SessionSpec == SessionInit /\ [][SessionNext]_sessionVars

-----------------------------------------------------------------------------

SessionTypeOK ==
    /\ phase \in {"handshake", "open", "deaf", "gone"}
    /\ version \in {0, 1}
    /\ outQueue \in Seq(Message) /\ posted \in Seq(Message) /\ done \in Seq(Message)
    /\ writing \in Nat /\ owed \in Nat
    /\ pings \in BOOLEAN

\* Messages leave in the order in which they were given to write_message, each
\* once, whoever gave them; a write in progress always has its message at the
\* front of m_queue, and two writes never overlap on the socket.
InOrder ==
    /\ posted = done \o outQueue
    /\ writing <= 1
    /\ writing = 1 => outQueue # <<>>

\* The first message that a client with an open session gets is the reply to
\* its handshake: changes passed on before it are not written.
HandshakeFirst == (phase = "open" /\ done # <<>>) => done[1] = "handshake"

\* Once the handshake is complete, whatever is queued is being written.
Flushing == (phase = "open" /\ outQueue # <<>>) => writing = 1

\* Every message queued for a client whose session stays open is written, if
\* the handshake's reply was the first to be queued: each handle_write starts
\* the next write, and write_message the first.
Delivered ==
    \A k \in 1..MaxPosted :
        []<>(phase = "open" /\ Len(posted) >= k /\ posted[1] = "handshake" => Len(done) >= k)

=============================================================================
