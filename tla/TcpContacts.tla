------------------------------ MODULE TcpContacts ------------------------------
(****************************************************************************)
(* Robots found on the network (aseba_tcp_acceptor): a thread of its own    *)
(* listens for announcements and queues them; the main thread takes one     *)
(* contact at a time, connects to it and starts an endpoint.  A contact is  *)
(* checked against the connected endpoints before and after the connection  *)
(* is made.                                                                 *)
(****************************************************************************)
EXTENDS Naturals, Sequences, FiniteSets, SequencesExt

CONSTANTS Contacts,         \* announced contacts
          SessionIds,       \* addresses of endpoint objects
          MaxAnnounced      \* bound: announcements

\* What do_accept_contact reads of a contact: whether it is an aseba contact,
\* whether its address is local, its name is that of a Thymio 3, and the port.
ASSUME ContactsOK ==
  Contacts \subseteq [aseba : BOOLEAN, local : BOOLEAN, thymio3 : BOOLEAN,
                      port : Nat, host : Nat]

VARIABLES announced,      \* number of announcements so far
          monitorPushed,  \* the monitor thread has queued a contact, not yet posted
          contactQueue,   \* m_pending_contacts
          accepts,        \* number of do_accept calls that are posted
          connecting,     \* sessions whose async_connect is pending: <<id, contact>>
          tcpSessions,    \* started sessions: <<id, contact>>
          registered,     \* m_connected_endpoints: key -> ids of the session, if any
          knownSessions,  \* ids in m_known_contacts
          freePosted      \* ids whose free_endpoint is posted

contactsVars == <<announced, monitorPushed, contactQueue, accepts, connecting, tcpSessions,
                  registered, knownSessions, freePosted>>

\* known_ep: this machine's name and the contact's port.
Key(c) == c.port
Keys == {Key(c) : c \in Contacts}

Live == {s[1] : s \in connecting \cup tcpSessions}

\* A registered endpoint counts as long as its weak pointer has not expired.
AlreadyConnected(c) == registered[Key(c)] \cap {s[1] : s \in tcpSessions} # {}

Recheck_None(c) == FALSE

\* The second look at the connected endpoints, when the connection is made.
Recheck(c) == AlreadyConnected(c)

-----------------------------------------------------------------------------
ContactsInit ==
  /\ announced = 0
  /\ monitorPushed = FALSE
  /\ contactQueue = <<>>
  /\ accepts = 1
  /\ connecting = {} /\ tcpSessions = {}
  /\ registered = [k \in Keys |-> {}]
  /\ knownSessions = {} /\ freePosted = {}

\* The monitor thread queues a contact ...
Announce(c) ==
  /\ announced < MaxAnnounced /\ ~monitorPushed
  /\ announced' = announced + 1
  /\ contactQueue' = Append(contactQueue, c)
  /\ monitorPushed' = TRUE
  /\ UNCHANGED <<accepts, connecting, tcpSessions, registered, knownSessions, freePosted>>

Posts(n) == n + 1

\* ... and posts a do_accept for it.
AnnouncePosted ==
  /\ monitorPushed
  /\ monitorPushed' = FALSE
  /\ accepts' = Posts(accepts)
  /\ UNCHANGED <<announced, contactQueue, connecting, tcpSessions, registered, knownSessions,
                 freePosted>>

Ignored(c) ==
  \/ ~c.aseba
  \/ ~c.local /\ ~c.thymio3
  \/ AlreadyConnected(c)

\* do_accept and do_accept_contact: a contact that is ignored is followed by
\* another do_accept, and its session is destroyed.
DoAccept ==
  /\ accepts > 0
  /\ IF contactQueue = <<>>
       THEN /\ accepts' = accepts - 1
            /\ UNCHANGED <<contactQueue, connecting, knownSessions, freePosted>>
       ELSE LET c == Head(contactQueue)
            IN  \E id \in SessionIds \ Live :
                  /\ contactQueue' = Tail(contactQueue)
                  /\ IF Ignored(c)
                       THEN /\ freePosted' = freePosted \cup {id}
                            /\ UNCHANGED <<accepts, connecting, knownSessions>>
                       ELSE /\ connecting' = connecting \cup {<<id, c>>}
                            /\ knownSessions' = knownSessions \cup {id}
                            /\ accepts' = accepts - 1
                            /\ UNCHANGED freePosted
  /\ UNCHANGED <<announced, monitorPushed, tcpSessions, registered>>

\* The handler of async_connect: the connection failed, the endpoint was
\* connected in the meantime, or the session is registered and started.
ConnectHandler(s) ==
  /\ s \in connecting
  /\ connecting' = connecting \ {s}
  /\ accepts' = accepts + 1
  /\ \/ /\ freePosted' = freePosted \cup {s[1]}
        /\ UNCHANGED <<tcpSessions, registered>>
     \/ /\ ~Recheck(s[2])
        /\ registered' = [registered EXCEPT ![Key(s[2])] = {s[1]}]
        /\ tcpSessions' = tcpSessions \cup {s}
        /\ UNCHANGED freePosted
  /\ UNCHANGED <<announced, monitorPushed, contactQueue, knownSessions>>

\* The connection to a robot ends and its endpoint is destroyed.
SessionEnds(s) ==
  /\ s \in tcpSessions
  /\ tcpSessions' = tcpSessions \ {s}
  /\ freePosted' = freePosted \cup {s[1]}
  /\ UNCHANGED <<announced, monitorPushed, contactQueue, accepts, connecting, registered,
                 knownSessions>>

\* free_endpoint, called with the address of a session that is gone and may
\* have been given to another one.
FreeEndpoint(id) ==
  /\ id \in freePosted
  /\ freePosted' = freePosted \ {id}
  /\ knownSessions' = knownSessions \ {id}
  /\ accepts' = IF id \in knownSessions THEN accepts + 1 ELSE accepts
  /\ UNCHANGED <<announced, monitorPushed, contactQueue, connecting, tcpSessions, registered>>

ContactsNext ==
  \/ \E c \in Contacts : Announce(c)
  \/ AnnouncePosted \/ DoAccept
  \/ \E s \in connecting : ConnectHandler(s)
  \/ \E s \in tcpSessions : SessionEnds(s)
  \/ \E id \in SessionIds : FreeEndpoint(id)

-----------------------------------------------------------------------------
\* A robot on the network has at most one endpoint, however its announcements,
\* the connections under way and lost connections interleave.
OneEndpointPerContact ==
  \A s, t \in tcpSessions : Key(s[2]) = Key(t[2]) => s = t
=============================================================================
