------------------------------- MODULE AppServer -------------------------------
(****************************************************************************)
(* The servers that accept client applications (application_server, one for *)
(* tcp and one for websockets), the test of where a client comes from       *)
(* (interfaces.cpp), and the count of connected applications that keeps the *)
(* computer awake (system_sleep_manager).                                    *)
(*                                                                          *)
(* A server always has one endpoint object created ahead of the connection  *)
(* it waits for.  Destroying an endpoint object, started or not, reports a  *)
(* disconnected application.                                                *)
(****************************************************************************)
EXTENDS Integers, FiniteSets

CONSTANTS Servers,         \* the accepting sockets: tcp, websocket
          Interfaces,      \* the addresses of this machine
          Peers,           \* addresses that connections come from
          RemoteOption,    \* values of --allow-remote-connections
          MaxConnections   \* bound: connections in a behaviour

\* An address: its family (mapped is an IPv4 address written in IPv6), the part
\* under the network mask, and the rest.
Address == [family : {"v4", "v6", "mapped"}, net : Nat, host : Nat]

ASSUME ServerOK == /\ Interfaces \cup Peers \subseteq Address
                   /\ RemoteOption \subseteq BOOLEAN
                   /\ MaxConnections \in Nat

VARIABLES serverUp,      \* the program runs
          allowRemote,   \* m_allow_remote_connections
          awaits,        \* servers with an async_accept pending
          apps,          \* started endpoints: where they come from, m_endpoint_type
          appCount,      \* m_app_count
          inhibited,     \* the system was asked not to sleep
          refused        \* history: peers whose endpoint was destroyed refused

serverVars == <<serverUp, allowRemote, awaits, apps, appCount, inhibited, refused>>

Connections == 1..MaxConnections

NoApp == [peer |-> {}, type |-> {}]

V4Form(a) == [a EXCEPT !.family = "v4"]

AddressIsLocal(a) ==
  \/ a \in Interfaces
  \/ a.family = "mapped" /\ V4Form(a) \in Interfaces

SameNetwork(a, i) ==
  a.net = i.net /\ (a.family = "v4") = (i.family = "v4")

AddressIsNetworkLocal(a) ==
  \E i \in Interfaces :
    SameNetwork(a, i) \/ (a.family = "mapped" /\ SameNetwork(V4Form(a), i))

\* The endpoint of a client at address a, with what set_is_machine_local and
\* set_is_network_local record.
AppFrom(a) ==
  [peer |-> {a},
   type |-> {t \in {"MachineLocal", "NetworkLocal"} :
               IF t = "MachineLocal" THEN AddressIsLocal(a) ELSE AddressIsNetworkLocal(a)}]

AppConnected_Before(count) == [count |-> count + 1, first |-> count = 1]

AppConnected(count) == [count |-> count + 1, first |-> count + 1 = 1]

AppDisconnected(count) == [count |-> count - 1, last |-> count - 1 = 0]

-----------------------------------------------------------------------------
ServerInit ==
  /\ serverUp = TRUE
  /\ allowRemote \in RemoteOption
  /\ awaits = Servers
  /\ apps = [c \in Connections |-> NoApp]
  /\ appCount = 0
  /\ inhibited = FALSE
  /\ refused = {}

\* Destroying an endpoint object reports a disconnected application.
DestroyEndpoint ==
  LET r == AppDisconnected(appCount)
  IN  /\ appCount' = r.count
      /\ inhibited' = (inhibited /\ ~r.last)

\* Every path of the accept handler ends with a call of accept.
Waits(s, dropped) == awaits

\* A connection from address a arrives on server s: a peer of another machine
\* is dropped unless the option allows it, and the server waits for the next
\* one.
Accept(s, a, c) ==
  /\ serverUp /\ s \in awaits
  /\ apps[c] = NoApp /\ \A d \in Connections : d < c => apps[d] # NoApp
  /\ LET dropped == ~AddressIsLocal(a) /\ ~allowRemote
         r == AppConnected(appCount)
     IN  /\ awaits' = Waits(s, dropped)
         /\ \/ /\ dropped
               /\ appCount > -MaxConnections
               /\ refused' = refused \cup {a}
               /\ DestroyEndpoint
               /\ UNCHANGED apps
            \/ /\ ~dropped
               /\ apps' = [apps EXCEPT ![c] = AppFrom(a)]
               /\ appCount' = r.count
               /\ inhibited' = (inhibited \/ r.first)
               /\ UNCHANGED refused
  /\ UNCHANGED <<serverUp, allowRemote>>

\* The accept fails, or the peer is gone before the handler runs: asking for the
\* remote address throws, nothing catches it below main, and the program exits.
AcceptFails(s) ==
  /\ serverUp /\ s \in awaits
  /\ serverUp' = FALSE
  /\ awaits' = {}
  /\ apps' = [c \in Connections |-> NoApp]
  /\ appCount' = 0
  /\ inhibited' = FALSE
  /\ UNCHANGED <<allowRemote, refused>>

\* The last operation of a client's endpoint ends and the object is destroyed.
ClientLeaves(c) ==
  /\ apps[c] # NoApp
  /\ apps' = [apps EXCEPT ![c] = NoApp]
  /\ DestroyEndpoint
  /\ UNCHANGED <<serverUp, allowRemote, awaits, refused>>

ServerNext ==
  \/ \E s \in Servers, a \in Peers, c \in Connections : Accept(s, a, c)
  \/ \E s \in Servers : AcceptFails(s)
  \/ \E c \in Connections : ClientLeaves(c)

ServerSpec == ServerInit /\ [][ServerNext]_serverVars

-----------------------------------------------------------------------------
Started == {c \in Connections : apps[c] # NoApp}

\* The computer is kept awake exactly while an application is connected: what
\* the comments in application_endpoint::start and its destructor say.
AwakeWhileConnected == inhibited <=> Started # {}

\* As long as no endpoint object was destroyed without being started, the
\* computer is kept awake exactly while an application is connected, however
\* connections and departures interleave.
AwakeUnlessDropped == refused = {} => AwakeWhileConnected
=============================================================================
