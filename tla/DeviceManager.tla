---------------------------- MODULE DeviceManager ----------------------------
(***************************************************************************)
(* The core of the device manager: robots (aseba_node), the registry that  *)
(* names them (aseba_node_registery), and the client applications          *)
(* (application_endpoint) that lock, unlock and upgrade them.              *)
(*                                                                         *)
(* main.cpp runs one io_context on one thread, so every handler is atomic. *)
(* What interleaves is the order of handlers: a status change is not told  *)
(* to an application at once, it is posted on the application's strand,    *)
(* behind the request the application may already have there.              *)
(***************************************************************************)
EXTENDS Naturals, Sequences, FiniteSets

CONSTANTS
    Nodes,        \* aseba_node objects; each one is created at most once
    Endpoints,    \* aseba_endpoint objects: a cable, a dongle, a simulator
    Apps,         \* application_endpoint objects
    Ids,          \* node ids (uuids)
    EndpointOf,   \* the endpoint a node object is created by
    Stored,       \* what a robot answers when it is asked for its uuid
    Wireless,     \* the endpoints that are dongles
    Pinged,       \* the endpoints that run the health check
    Local,        \* the applications on the same machine
    Asked,        \* bound: the requests applications send
    Named,        \* bound: the nodes whose name or version gets through
    NoNode, NoApp,
    Nil, Short,   \* answers: a nil uuid, not 16 bytes
    Silent,       \* for robots that are never asked (simulated, old protocol)
    MaxReplies,   \* bound: identification messages a robot gets through
    MaxRequests,  \* bound: requests an application sends
    MaxLag        \* bound: tasks a strand is behind when a robot acts

ASSUME ConstantsOK ==
    /\ IsFiniteSet(Nodes)
    /\ EndpointOf \in [Nodes -> Endpoints]
    /\ Stored \in [Nodes -> Ids \cup {Nil, Short, Silent}]
    /\ Wireless \subseteq Pinged /\ Pinged \subseteq Endpoints
    /\ Local \subseteq Apps /\ Named \subseteq Nodes
    /\ NoNode \notin Nodes /\ NoApp \notin Apps
    /\ {Nil, Short, Silent} \cap Ids = {}
    /\ Nil # Short /\ Nil # Silent /\ Short # Silent
    /\ MaxReplies \in Nat /\ MaxRequests \in Nat /\ MaxLag \in Nat

VARIABLES
    status,     \* aseba_node::m_status
    uuid,       \* aseba_node::m_uuid
    owner,      \* aseba_node::m_connected_app
    attached,   \* the nodes some aseba_endpoint::m_nodes holds
    registry,   \* aseba_node_registery::m_aseba_nodes
    minted,     \* ids drawn so far from the random generator
    link,       \* state of an endpoint's read loop
    replies,    \* identification messages handled for a node
    refreshed,  \* nodes whose name or firmware version has been read
    conn,       \* life cycle of an application endpoint
    locked,     \* application_endpoint::m_locked_nodes
    strand,     \* tasks queued on an application's strand
    requests,   \* requests an application has sent
    hung        \* a handler never returned

nodeVars == <<status, uuid, owner, attached, registry, minted, link, replies, refreshed>>
appVars  == <<conn, locked, strand, requests>>
vars     == <<nodeVars, appVars, hung>>

Status == {"connected", "available", "busy", "ready", "disconnected", "upgrading"}
Random == Ids \ {Stored[n] : n \in Nodes}
Fresh  == Random \ minted

\* An application is told about nodes from on_initialized to its destructor.
Monitoring == {a \in Apps : conn[a] \in {"accepted", "open", "closing"}}

\* The tasks of a strand: requests of the client, status changes to pass on.
Request == [op : {"handshake", "list"}, id : {Nil}]
           \cup [op : {"lock", "unlock", "upgrade"}, id : Ids]
Change  == [op : {"changed"}, node : Nodes, id : Ids, status : Status]
Task    == Request \cup Change

ASSUME AskedOK == Asked \subseteq Request

\* Every order in which an unordered_map may be walked.
Orders(S) == {f \in [1..Cardinality(S) -> S] : \A x \in S : \E i \in DOMAIN f : f[i] = x}

\* The node objects something is known to hold: an endpoint, or a queued change.
\* A weak_ptr to any other node may or may not still lock, depending on who else
\* holds the object (a pending write, for instance).
Held == attached \cup {n \in Nodes : \E a \in Apps : \E i \in DOMAIN strand[a] :
                            strand[a][i].op = "changed" /\ strand[a][i].node = n}

\* The sets of node objects that may exist now.
Existing == {S \in SUBSET Nodes : Held \subseteq S}

-----------------------------------------------------------------------------
(* Registry and status. *)

Readable(e) == link[e] \in {"up", "upgrading"}

\* handle_read stops reading after one more message once is_rebooting().
AfterRead(e) == [link EXCEPT ![e] = IF @ = "upgrading" THEN "silent" ELSE @]

\* m_node_status_changed_signal(node, id, status) for a list of changes.
Notify(q, changes) ==
    [a \in Apps |-> IF a \in Monitoring THEN q[a] \o changes ELSE q[a]]

Changed(n, id, s) == [op |-> "changed", node |-> n, id |-> id, status |-> s]

\* find(node): the entries of a map that resolve to n.
IdsOf(reg, n) == {id \in Ids : reg[id] = n}

\* set_node_status: what is signalled when n, registered in reg, becomes s.
StatusChange(reg, n, s) ==
    IF IdsOf(reg, n) = {} THEN <<>>
    ELSE <<Changed(n, CHOOSE id \in IdsOf(reg, n) : TRUE, s)>>

\* The registry without the entries that resolve to a node of S.
Drop_Nothing(reg, S) == reg
Drop(reg, S) == [id \in Ids |-> IF reg[id] \in S THEN NoNode ELSE reg[id]]

\* set_status for each node of S in the order of some map: what is signalled when
\* they become what st says.
Signals(reg, S, st) ==
    {[i \in DOMAIN order |-> StatusChange(reg, order[i], st[order[i]])[1]] :
        order \in Orders({n \in S : IdsOf(reg, n) # {}})}

All(s) == [n \in Nodes |-> s]

-----------------------------------------------------------------------------
(* The robots. *)

\* handle_read on NODE_PRESENT or DESCRIPTION from an unknown sender: create,
\* set_status(connected), add_node. The new uuid is random, so no entry of the
\* registry can carry it and remove_duplicated_node finds nothing. The read
\* loop goes on whatever is_rebooting() says.
NodePresent(n) ==
    /\ uuid[n] = Nil /\ Readable(EndpointOf[n])
    /\ \E id \in Fresh :
        /\ uuid' = [uuid EXCEPT ![n] = id]
        /\ minted' = minted \cup {id}
        /\ registry' = [registry EXCEPT ![id] = n]
        /\ strand' = Notify(strand, <<Changed(n, id, "connected")>>)
    /\ status' = [status EXCEPT ![n] = "connected"]
    /\ attached' = attached \cup {n}
    /\ UNCHANGED <<owner, link, replies, refreshed, conn, locked, requests, hung>>

\* The uuids m_uuid may hold after a DEVICE_INFO_UUID answer. A robot without
\* one is sent the uuid drawn for it, and later answers with that or, when the
\* answer was already on its way, with nil again.
UuidAfter(n) ==
    CASE Stored[n] = Short -> {uuid[n]}
      [] Stored[n] = Nil   -> Fresh \cup (IF replies[n] = 0 THEN {} ELSE {uuid[n]})
      [] OTHER             -> {Stored[n]}

\* ep->remove_node(id): the loop tests the first node of m_nodes and never
\* advances; it returns only if that node carries the id.
RemoveNode(first, id) == uuid'[first] = id

\* handle_node_uuid_change takes leave of the id the node had.
Bye(n) == StatusChange(registry, n, "disconnected")

\* restore_group_affiliation: a uuid that was seen before may bring its old group
\* to the endpoint, whose nodes then signal their status again (a connected one
\* calls add_node, which finds it and stays silent). Groups are abstracted, so
\* this may or may not happen.
Regroup(n, id) ==
    {<<>>} \cup
    IF \A m \in Nodes : uuid[m] # id THEN {}
    ELSE Signals(registry', {m \in attached' : /\ EndpointOf[m] = EndpointOf[n]
                                              /\ status[m] # "connected"}, status)

\* on_device_info(UUID): handle_node_uuid_change, then set_status(available).
OnDeviceInfoUuid(n) ==
    /\ n \in attached /\ Stored[n] # Silent
    /\ Readable(EndpointOf[n]) /\ replies[n] < MaxReplies
    /\ replies' = [replies EXCEPT ![n] = @ + 1]
    /\ \E id \in UuidAfter(n) :
        LET left   == Drop(registry, {n})
            old    == left[id]
            rivals == {m \in attached : old # NoNode /\ EndpointOf[m] = EndpointOf[old]}
        IN
        /\ uuid' = [uuid EXCEPT ![n] = id]
        /\ minted' = minted \cup ({id} \cap Random)
        /\ \/ /\ rivals = {} \/ old \notin Held
              /\ status' = [status EXCEPT ![n] = "available"]
              /\ UNCHANGED <<attached, hung>>
           \/ /\ \E first \in rivals :
                    /\ RemoveNode(first, id)
                    /\ attached' = attached \ {first}
                    /\ status' = [status EXCEPT ![first] = "disconnected", ![n] = "available"]
              /\ UNCHANGED hung
           \/ /\ \E first \in rivals : ~RemoveNode(first, id)
              /\ hung' = TRUE
              /\ UNCHANGED <<attached, status>>
        /\ registry' = [left EXCEPT ![id] = IF hung' THEN NoNode ELSE n]
        /\ \E again \in Regroup(n, id) :
            strand' = Notify(strand, Bye(n) \o IF hung' THEN <<>>
                                               ELSE again \o <<Changed(n, id, "available")>>)
    /\ link' = AfterRead(EndpointOf[n])
    /\ UNCHANGED <<owner, refreshed, conn, locked, requests>>

\* on_description_received for a robot that is not asked for its uuid.
OnDescriptionReceived(n) ==
    /\ n \in attached /\ Stored[n] = Silent
    /\ Readable(EndpointOf[n]) /\ replies[n] < MaxReplies
    /\ replies' = [replies EXCEPT ![n] = @ + 1]
    /\ status' = [status EXCEPT ![n] = "available"]
    /\ strand' = Notify(strand, StatusChange(registry, n, "available"))
    /\ link' = AfterRead(EndpointOf[n])
    /\ UNCHANGED <<uuid, owner, attached, registry, minted, refreshed,
                   conn, locked, requests, hung>>

\* set_status(m_status): the name, or a new firmware version, has been read.
\* While connected this calls add_node, which finds the node and stays silent.
OnNameOrFirmware(n) ==
    /\ n \in (attached \cap Named) \ refreshed /\ Readable(EndpointOf[n])
    /\ refreshed' = refreshed \cup {n}
    /\ strand' = Notify(strand, IF status[n] = "connected" THEN <<>>
                                ELSE StatusChange(registry, n, status[n]))
    /\ link' = AfterRead(EndpointOf[n])
    /\ UNCHANGED <<status, uuid, owner, attached, registry, minted, replies,
                   conn, locked, requests, hung>>

\* set_status(disconnected) for the nodes of S, walked in some order.
Disconnect(S) ==
    /\ \E changes \in Signals(registry, S, All("disconnected")) : strand' = Notify(strand, changes)
    /\ status' = [n \in Nodes |-> IF n \in S THEN "disconnected" ELSE status[n]]
    /\ registry' = Drop(registry, S)
    /\ attached' = attached \ S
    /\ UNCHANGED <<uuid, owner, minted, replies, refreshed, conn, locked, requests, hung>>

\* schedule_nodes_health_check: some nodes have been quiet for too long. An
\* endpoint that is not a dongle has its operations cancelled, the read too.
HealthCheck(e) ==
    /\ e \in Pinged /\ link[e] \in {"up", "cancelled"}
    /\ \E S \in SUBSET {n \in attached : EndpointOf[n] = e} : S # {} /\ Disconnect(S)
    /\ link' = [link EXCEPT ![e] = IF e \in Wireless THEN @ ELSE "cancelled"]

\* aseba_endpoint::destroy, from the destructor once nothing reads any more.
EndpointDestroyed(e) ==
    /\ link[e] # "down"
    /\ link' = [link EXCEPT ![e] = "down"]
    /\ Disconnect({n \in attached : EndpointOf[n] = e})

-----------------------------------------------------------------------------
(* The applications. *)

\* start and on_initialized: the application is told about nodes from now on.
Connect(a) ==
    /\ conn[a] = "none"
    /\ conn' = [conn EXCEPT ![a] = "accepted"]
    /\ UNCHANGED <<nodeVars, locked, strand, requests, hung>>

\* A read completes; its handler goes on the strand. The next read is started
\* by the handler, so the strand holds one request at most.
Receive(a, r) ==
    /\ conn[a] = IF r.op = "handshake" THEN "accepted" ELSE "open"
    /\ \A i \in DOMAIN strand[a] : strand[a][i].op = "changed"
    /\ r.id \notin Fresh
    /\ \/ r.op = "handshake" /\ UNCHANGED requests
       \/ /\ r.op # "handshake" /\ requests[a] < MaxRequests
          /\ requests' = [requests EXCEPT ![a] = @ + 1]
    /\ strand' = [strand EXCEPT ![a] = Append(@, r)]
    /\ UNCHANGED <<nodeVars, conn, locked, hung>>

\* The socket fails: no read is pending any more.
ConnectionLost(a) ==
    /\ conn[a] \in {"accepted", "open"}
    /\ conn' = [conn EXCEPT ![a] = "closing"]
    /\ UNCHANGED <<nodeVars, locked, strand, requests, hung>>

\* The nodes that the destructor unlocks: aseba_node::unlock tests the owner.
Mine_None(a, alive) == {}
Mine(a, alive) == {n \in alive : owner[n] = a /\ \E id \in Ids : locked[a][id] = n}

\* ~application_endpoint, once no queued task refers to the endpoint: it stops
\* monitoring, then unlocks what m_locked_nodes still resolves.
Destroyed(a) ==
    /\ conn[a] = "closing" /\ strand[a] = <<>>
    /\ conn' = [conn EXCEPT ![a] = "gone"]
    /\ \E alive \in Existing :
        LET mine == Mine(a, alive) IN
        /\ owner' = [n \in Nodes |-> IF n \in mine THEN NoApp ELSE owner[n]]
        /\ status' = [n \in Nodes |-> IF n \in mine THEN "available" ELSE status[n]]
        /\ \E changes \in Signals(registry, mine, All("available")) :
            strand' = [Notify(strand, changes) EXCEPT ![a] = <<>>]
    /\ locked' = [locked EXCEPT ![a] = [id \in Ids |-> NoNode]]
    /\ UNCHANGED <<uuid, attached, registry, minted, link, replies, refreshed,
                   requests, hung>>

\* The first task of the strand is of one of these kinds; popped.
Next1(a, ops) == strand[a] # <<>> /\ Head(strand[a]).op \in ops
Popped(a)     == [strand EXCEPT ![a] = Tail(@)]

\* m_locked_nodes.erase(id)
Forget_Not(a, id) == locked
Forget(a, id) == [locked EXCEPT ![a][id] = NoNode]

\* The changes that make do_node_changed erase a lock.
Gone_Available(t) == t.status \in {"disconnected", "available"}
Gone(t) == t.status = "disconnected"

\* do_node_changed: besides telling the application (see ClientView), a node
\* that is gone is forgotten.
NodeChanged(a) ==
    /\ Next1(a, {"changed"})
    /\ LET t == Head(strand[a]) IN
       locked' = IF Gone(t) THEN Forget(a, t.id) ELSE locked
    /\ strand' = Popped(a)
    /\ UNCHANGED <<nodeVars, conn, requests, hung>>

\* handle_handshake that succeeds, and RequestListOfNodes: both end in
\* send_full_node_list.
SendFullNodeList(a) ==
    /\ Next1(a, {"handshake", "list"})
    /\ conn' = [conn EXCEPT ![a] = IF @ = "accepted" THEN "open" ELSE @]
    /\ strand' = Popped(a)
    /\ UNCHANGED <<nodeVars, locked, requests, hung>>

\* The test of aseba_node::lock, for an application that is not the owner.
Lockable_NoOwner(n) == status[n] = "available"
Lockable_Present(n) == status[n] # "disconnected"
Lockable(n) == owner[n] = NoApp /\ status[n] = "available"

\* lock_node and aseba_node::lock.
LockNode(a) ==
    /\ Next1(a, {"lock"})
    /\ LET id == Head(strand[a]).id
           n  == registry[id]
       IN
       \/ /\ n \notin Held             \* unknown_node
          /\ strand' = Popped(a)
          /\ UNCHANGED <<status, owner, locked>>
       \/ /\ n # NoNode /\ owner[n] = a
          /\ locked' = [locked EXCEPT ![a][id] = n]
          /\ strand' = Popped(a)
          /\ UNCHANGED <<status, owner>>
       \/ /\ n # NoNode /\ owner[n] # a /\ ~Lockable(n)    \* node_busy
          /\ locked' = Forget(a, id)
          /\ strand' = Popped(a)
          /\ UNCHANGED <<status, owner>>
       \/ /\ n # NoNode /\ owner[n] # a /\ Lockable(n)
          /\ locked' = [locked EXCEPT ![a][id] = n]
          /\ owner' = [owner EXCEPT ![n] = a]
          /\ status' = [status EXCEPT ![n] = "busy"]
          /\ strand' = Notify(Popped(a), StatusChange(registry, n, "busy"))
    /\ UNCHANGED <<uuid, attached, registry, minted, link, replies, refreshed,
                   conn, requests, hung>>

\* unlock_node and aseba_node::unlock: the status becomes available whatever
\* it was.
UnlockNode(a) ==
    /\ Next1(a, {"unlock"})
    /\ LET id == Head(strand[a]).id
           n  == locked[a][id]
       IN
       /\ locked' = Forget(a, id)
       /\ \/ /\ n \in Held => owner[n] # a          \* unknown_node, node_busy
             /\ strand' = Popped(a)
             /\ UNCHANGED <<status, owner>>
          \/ /\ n # NoNode /\ owner[n] = a
             /\ owner' = [owner EXCEPT ![n] = NoApp]
             /\ status' = [status EXCEPT ![n] = "available"]
             /\ strand' = Notify(Popped(a), StatusChange(registry, n, "available"))
    /\ UNCHANGED <<uuid, attached, registry, minted, link, replies, refreshed,
                   conn, requests, hung>>

\* An upgrade needs no lock, only an available node, a cable and an application
\* on this machine.
Upgradable_AnyStatus(a, n) == a \in Local /\ EndpointOf[n] \notin Wireless
Upgradable(a, n) == status[n] = "available" /\ a \in Local /\ EndpointOf[n] \notin Wireless

\* upgrade_node_firmware. The endpoint stops writing, and soon reading.
UpgradeNodeFirmware(a) ==
    /\ Next1(a, {"upgrade"})
    /\ LET n == registry[Head(strand[a]).id] IN
       \/ /\ n \in Held => ~Upgradable(a, n)
          /\ strand' = Popped(a)
          /\ UNCHANGED <<status, link>>
       \/ /\ n # NoNode /\ Upgradable(a, n)
          /\ status' = [status EXCEPT ![n] = "upgrading"]
          /\ link' = [link EXCEPT ![EndpointOf[n]] = IF @ = "up" THEN "upgrading" ELSE @]
          /\ strand' = Notify(Popped(a), StatusChange(registry, n, "upgrading"))
    /\ UNCHANGED <<uuid, owner, attached, registry, minted, replies, refreshed,
                   conn, locked, requests, hung>>

-----------------------------------------------------------------------------
(* The specification. *)

Init ==
    /\ status = [n \in Nodes |-> "disconnected"]
    /\ uuid = [n \in Nodes |-> Nil]          \* Nil: not created yet
    /\ owner = [n \in Nodes |-> NoApp]
    /\ attached = {}
    /\ registry = [id \in Ids |-> NoNode]
    /\ minted = {}
    /\ link = [e \in Endpoints |-> "up"]
    /\ replies = [n \in Nodes |-> 0]
    /\ refreshed = {}
    /\ conn = [a \in Apps |-> "none"]
    /\ locked = [a \in Apps |-> [id \in Ids |-> NoNode]]
    /\ strand = [a \in Apps |-> <<>>]
    /\ requests = [a \in Apps |-> 0]
    /\ hung = FALSE

RobotStep ==
    /\ \A a \in Apps : Len(strand[a]) <= MaxLag
    /\ \/ \E n \in Nodes : \/ NodePresent(n)
                           \/ OnDeviceInfoUuid(n)
                           \/ OnDescriptionReceived(n)
                           \/ OnNameOrFirmware(n)
       \/ \E e \in Endpoints : HealthCheck(e) \/ EndpointDestroyed(e)

ClientStep(a) ==
    \/ Connect(a)
    \/ \E r \in Asked : Receive(a, r)
    \/ ConnectionLost(a)

\* The tasks the io_context runs for an application.
RunTask(a) ==
    \/ NodeChanged(a)
    \/ SendFullNodeList(a)
    \/ LockNode(a)
    \/ UnlockNode(a)
    \/ UpgradeNodeFirmware(a)

Next ==
    /\ ~hung
    /\ \/ RobotStep
       \/ \E a \in Apps : ClientStep(a) \/ RunTask(a) \/ Destroyed(a)

Spec == Init /\ [][Next]_vars

\* io_context::run executes every task that is queued, and the last reference
\* to a closed application endpoint goes away.
FairSpec ==
    /\ Spec
    /\ \A a \in Apps : WF_vars(~hung /\ RunTask(a)) /\ WF_vars(~hung /\ Destroyed(a))

-----------------------------------------------------------------------------
(* Properties. *)

TypeOK ==
    /\ status \in [Nodes -> Status]
    /\ uuid \in [Nodes -> Ids \cup {Nil}]
    /\ owner \in [Nodes -> Apps \cup {NoApp}]
    /\ attached \subseteq Nodes
    /\ registry \in [Ids -> Nodes \cup {NoNode}]
    /\ minted \subseteq Random
    /\ link \in [Endpoints -> {"up", "upgrading", "silent", "cancelled", "down"}]
    /\ replies \in [Nodes -> Nat]
    /\ refreshed \subseteq Nodes
    /\ conn \in [Apps -> {"none", "accepted", "open", "closing", "gone"}]
    /\ locked \in [Apps -> [Ids -> Nodes \cup {NoNode}]]
    /\ strand \in [Apps -> Seq(Task)]
    /\ requests \in [Apps -> Nat]
    /\ hung \in BOOLEAN

\* What an application may use through get_locked_node it owns: an entry of
\* m_locked_nodes always leads to a node whose m_connected_app is that
\* application, whatever was renamed, removed or unlocked in between.
LocksAreOwned ==
    \A a \in Apps, id \in Ids : locked[a][id] # NoNode => owner[locked[a][id]] = a

\* Sole ownership (thymio.fbs, LockNode): two applications never both pass the
\* get_locked_node test for one robot.
MutualExclusion ==
    \A a, b \in Apps : \A i, j \in Ids :
        (locked[a][i] # NoNode /\ locked[a][i] = locked[b][j]) => a = b

\* The robots an application reaches through m_locked_nodes.
Holds == [a \in Apps |-> {locked[a][id] : id \in Ids} \ {NoNode}]

\* m_locked_nodes of all applications together implement a lock per robot: a
\* robot enters one table only while it is in none.
Locks == INSTANCE RobotLocks WITH holds <- Holds
LocksSpec == Locks!Spec

\* The registry names every robot it should, once, and by the uuid the robot
\* has now: node_from_id and find agree after any sequence of uuid changes,
\* duplicate removals and disconnections.
RegistryCoherent ==
    /\ \A id \in Ids : registry[id] # NoNode => uuid[registry[id]] = id
    /\ hung \/ \A n \in attached : registry[uuid[n]] = n

\* No robot is attached twice to one endpoint. This is about the robots, not the
\* code: one that changes its native id while it stays connected breaks it.
NoTwins ==
    \A m, n \in attached :
        (EndpointOf[m] = EndpointOf[n] /\ Stored[m] = Stored[n] /\ Stored[n] \in Ids) => m = n

\* An application that is recorded as owner of a connected robot can still use
\* it and still releases it on its way out: no lock is left that nobody holds.
NoOrphanLock ==
    \A n \in attached : owner[n] # NoApp =>
        /\ conn[owner[n]] \in {"open", "closing"}
        /\ \E id \in Ids : locked[owner[n]][id] = n

\* A robot being upgraded belongs to nobody.
UpgradeExcludesLock ==
    \A n \in attached : status[n] = "upgrading" => owner[n] = NoApp

\* An owner keeps a robot until it gives it up: ownership ends only when the
\* owner's own unlock request runs or its endpoint is destroyed (the lock and
\* unlock tests on m_connected_app), and never passes straight to another.
ReleasedByOwner ==
    [][\A n \in Nodes : (owner[n] # NoApp /\ owner'[n] # owner[n]) =>
            /\ owner'[n] = NoApp
            /\ \/ conn[owner[n]] = "closing" /\ conn'[owner[n]] = "gone"
               \/ /\ Next1(owner[n], {"unlock"})
                  /\ LET id == Head(strand[owner[n]]).id IN
                     locked[owner[n]][id] = n /\ locked'[owner[n]][id] = NoNode]_vars

\* Every handler returns: the loop of aseba_endpoint::remove_node ends, also when
\* several robots share the dongle one of them is moved away from.
NeverHangs == ~hung

\* A client that goes away gives back every connected robot it owned.
LocksReleased ==
    \A a \in Apps, n \in Nodes :
        (conn[a] = "closing" /\ owner[n] = a /\ n \in attached) ~>
            (owner[n] # a \/ n \notin attached \/ hung)

=============================================================================
