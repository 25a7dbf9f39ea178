----------------------------- MODULE AppRequests -----------------------------
(***************************************************************************)
(* The requests of clients (application_endpoint::handle_read and its      *)
(* handlers).  Everything a client causes or is told runs on the strand of *)
(* its connection, one task after the other: its requests, the answers     *)
(* robots give later, and the changes of what it watches.  In between,     *)
(* robots come and go; a node whose endpoint is destroyed lives on in the  *)
(* tasks that hold it, known to a client that had locked it.               *)
(***************************************************************************)
EXTENDS Integers, Sequences, FiniteSets, SequencesExt

CONSTANTS
    Clients,
    MachineLocal,  \* the clients on this machine
    Thymios,       \* ids of nodes
    GroupId,       \* the group of each node, whose id is not one of a node
    Menus,         \* bounds: a behaviour takes at most "most" requests from the set "requests"
                   \* of one of them, made by the clients "by", the only ones connected, and what is watched
                   \* changes at most "updates" times
    MaxLosses      \* bound: times one robot is lost

Infos     == {"variables", "state", "shared"}

ASSUME RequestsOK ==
    /\ MachineLocal \subseteq Clients
    /\ Thymios \subseteq STRING /\ DOMAIN GroupId = Thymios
    /\ \A r, s \in Thymios : GroupId[r] # s /\ (r # s => GroupId[r] # GroupId[s])
    /\ \A m \in Menus : m.by \subseteq Clients /\ \A q \in m.requests : q.flags \subseteq Infos
    /\ MaxLosses \in Nat

VARIABLES
    menu,        \* the requests this behaviour is made of
    running,     \* the io_context runs
    attached,    \* the robot's endpoint exists and its node is registered
    object,      \* how many node objects the robot has had
    renewed,     \* its group is not the first one any more
    owner,       \* m_connected_app of the latest of them: a set of at most one client
    lockedNodes, \* m_locked_nodes: the object a client has locked, 0 for none
    watches,     \* keys of m_watch_nodes
    connections, \* those of them whose signal still exists
    strand,      \* the tasks of each client's strand
    onWire,      \* requests whose messages wait to be written to the robot
    parked,      \* breakpoint requests pending in a node without endpoint
    current,     \* what is watched of each robot
    told,        \* what each client was told of it last
    asking,      \* history: the requests made, with their clients
    replies,     \* history: the replies to each
    excused      \* history: requests that met the loss of their robot

requestsVars == <<menu, running, attached, object, renewed, owner, lockedNodes, watches, connections,
                  strand, onWire, parked, current, told, asking, replies, excused>>

\* Tasks of a strand.  A task that holds a node keeps it alive.
Task(what, r, g, info, n) == [what |-> what, robot |-> r, object |-> g, info |-> info, n |-> n]
Reply(q)  == Task("reply", "", 0, "", q)
Connected == menu.by
ToAll(st, t) == [c \in Clients |-> IF c \in Connected THEN Append(st[c], t) ELSE st[c]]

NodeAlive(st, r, g) ==
    \/ attached[r] /\ object[r] = g
    \/ \E c \in Clients : \E i \in DOMAIN st[c] : st[c][i].robot = r /\ st[c][i].object = g

\* get_locked_node, as the object or 0; a weak reference is empty once the node is gone.
GetLockedNode(st, c, id) ==
    IF id \in Thymios /\ lockedNodes[c][id] > 0 /\ NodeAlive(st, id, lockedNodes[c][id])
    THEN lockedNodes[c][id] ELSE 0

HasEndpoint(r, g) == attached[r] /\ object[r] = g

IsOrOwns(r, id) == id = r \/ (id = GroupId[r] /\ ~renewed[r])

\* get_group: the robots through whose lock the client reaches the group of that id.
GetGroup(c, id) ==
    {r \in Thymios : IsOrOwns(r, id) /\ HasEndpoint(r, lockedNodes[c][r])}

Asked(q) == asking[q].request

\* Answers to the breakpoint requests of the nodes that die with this task.
Settle(st) ==
    LET freed == {p \in parked : ~NodeAlive(st, p.robot, p.object)}
    IN /\ strand' = [c \in Clients |-> st[c] \o
                        SetToSeq({Reply(p.n) : p \in {p \in freed : asking[p.n].client = c}})]
       /\ parked' = parked \ freed

Replied(q, n) == replies' = [replies EXCEPT ![q] = @ + n]
NothingOwned  == UNCHANGED <<owner, lockedNodes>>
NothingSent   == UNCHANGED <<onWire, excused>>
NothingSeen   == UNCHANGED <<watches, connections>>

-----------------------------------------------------------------------------
(* Handlers, run with the other tasks st of the strands. *)

\* Requests answered at once whatever the circumstances (set_variables of a group,
\* set_events_table, update_node_scratchpad, rename_node): only the outcome differs.
AnswerNow(c, q, st) ==
    /\ Asked(q).kind \in {"events", "rename", "scratchpad"}
    /\ Replied(q, 1)
    /\ Settle(st)
    /\ NothingOwned /\ NothingSent /\ NothingSeen /\ UNCHANGED running

\* send_full_node_list and messages that are not supported carry no request id;
\* a description is sent for a registered node only.
DescribeNode(c, q, st) ==
    /\ Asked(q).kind \in {"list", "unsupported", "description"}
    /\ Replied(q, IF Asked(q).kind = "description" /\ Asked(q).id \in Thymios /\ attached[Asked(q).id]
                  THEN 1 ELSE 0)
    /\ Settle(st)
    /\ NothingOwned /\ NothingSent /\ NothingSeen /\ UNCHANGED running

\* lock_node, aseba_node::lock; locking a robot tells every client its status.
Locked(c, q, st) ==
    /\ Asked(q).kind = "lock"
    /\ LET r   == Asked(q).id
           new == r \in Thymios /\ attached[r] /\ owner[r] = {}
           may == r \in Thymios /\ attached[r] /\ owner[r] \subseteq {c}
       IN /\ owner' = IF new THEN [owner EXCEPT ![r] = {c}] ELSE owner
          /\ lockedNodes' = IF r \in Thymios /\ attached[r]
                            THEN [lockedNodes EXCEPT ![c][r] = IF may THEN object[r] ELSE 0]
                            ELSE lockedNodes
          /\ Settle(IF new THEN ToAll(st, Task("status", r, object[r], "", 1)) ELSE st)
    /\ Replied(q, 1)
    /\ NothingSent /\ NothingSeen /\ UNCHANGED running

\* unlock_node, aseba_node::unlock.
Unlocked(c, q, st) ==
    /\ Asked(q).kind = "unlock"
    /\ LET r == Asked(q).id
           g == GetLockedNode(st, c, r)
           frees == g > 0 /\ g = object[r] /\ owner[r] = {c}
       IN /\ owner' = IF frees THEN [owner EXCEPT ![r] = {}] ELSE owner
          /\ lockedNodes' = IF r \in Thymios THEN [lockedNodes EXCEPT ![c][r] = 0] ELSE lockedNodes
          /\ Settle(IF frees THEN ToAll(st, Task("status", r, g, "", 1)) ELSE st)
    /\ Replied(q, 1)
    /\ NothingSent /\ NothingSeen /\ UNCHANGED running

\* write_messages of the node: without an endpoint the callback is dropped, and so it is
\* for an empty batch.
WriteToNode(q, r, g, some) ==
    /\ onWire' = IF HasEndpoint(r, g) /\ some THEN [onWire EXCEPT ![r] = Append(@, q)] ELSE onWire
    /\ excused' = IF HasEndpoint(r, g) THEN excused ELSE excused \cup {q}
    /\ Replied(q, 0)

\* set_variables of a locked node or of a group, with values that fit or not;
\* emit_events of a group with one endpoint.
SetOrEmit(c, q, st) ==
    /\ Asked(q).kind \in {"setvariables", "setnothing", "emit"}
    /\ LET r == Asked(q).id
           g == GetLockedNode(st, c, r)
           some == Asked(q).kind # "setnothing"
       IN IF Asked(q).kind = "emit"
          THEN IF GetGroup(c, r) # {}
               THEN \/ \E s \in GetGroup(c, r) : WriteToNode(q, s, object[s], TRUE)
                    \/ Replied(q, 1) /\ NothingSent
               ELSE Replied(q, 1) /\ NothingSent
          ELSE \/ g > 0 /\ WriteToNode(q, r, g, some)
               \/ (g = 0 \/ some) /\ Replied(q, 1) /\ NothingSent
    /\ Settle(st)
    /\ NothingOwned /\ NothingSeen /\ UNCHANGED running

\* compile_and_send_program, compile_program and compile_and_save of a locked node, and
\* load_code of a group.  Compiling needs the endpoint's definitions: the process ends
\* when a node has none.
CompileRequest(c, q, st) ==
    /\ Asked(q).kind \in {"compile", "load", "save", "saveaesl"}
    /\ LET r == Asked(q).id
           g == GetLockedNode(st, c, r)
       IN IF g = 0
          THEN Replied(q, 1) /\ NothingSent /\ Settle(st) /\ UNCHANGED running
          ELSE /\ running' = HasEndpoint(r, g)
               /\ CASE Asked(q).kind = "load" -> WriteToNode(q, r, g, TRUE) /\ Settle(st)
                    [] Asked(q).kind = "compile" ->
                         Replied(q, 0) /\ NothingSent /\ Settle([st EXCEPT ![c] = Append(@, Reply(q))])
                    [] Asked(q).kind = "save" -> Replied(q, 1) /\ NothingSent /\ Settle(st)
                    [] Asked(q).kind = "saveaesl" ->
                         Replied(q, 1) /\ NothingSent /\ Settle([st EXCEPT ![c] = Append(@, Reply(q))])
    /\ NothingOwned /\ NothingSeen

\* set_vm_execution_state: a client on this machine may stop a robot it has not locked.
\* Stopping compiles a program, and passes the callback on with the first of two messages.
ExecutionRequest(c, q, st) ==
    /\ Asked(q).kind \in {"run", "stop"}
    /\ LET r == Asked(q).id
           mine == GetLockedNode(st, c, r)
           any  == r \in Thymios /\ attached[r] /\ c \in MachineLocal
           g == IF mine = 0 /\ Asked(q).kind = "stop" /\ any THEN object[r] ELSE mine
       IN IF g = 0 THEN Replied(q, 1) /\ NothingSent /\ UNCHANGED running
          ELSE /\ WriteToNode(q, r, g, TRUE)
               /\ running' = (Asked(q).kind = "run" \/ HasEndpoint(r, g))
    /\ Settle(st)
    /\ NothingOwned /\ NothingSeen

\* set_breakpoints: a node that has lost its endpoint keeps the request until it is destroyed.
BreakpointsRequest(c, q, st) ==
    /\ Asked(q).kind = "breakpoints"
    /\ LET r == Asked(q).id
           g == GetLockedNode(st, c, r)
       IN IF g = 0 THEN Replied(q, 1) /\ NothingSent /\ Settle(st)
          ELSE /\ Replied(q, 0)
               /\ UNCHANGED excused
               /\ IF HasEndpoint(r, g)
                  THEN onWire' = [onWire EXCEPT ![r] = Append(@, q)] /\ Settle(st)
                  ELSE UNCHANGED onWire /\ strand' = st
                       /\ parked' = parked \cup {Task("breakpoints", r, g, "", q)}
    /\ NothingOwned /\ NothingSeen /\ UNCHANGED running

\* watch_node_or_group.  What is watched of a group is switched on, and by the group's id
\* also off; watches of a node are replaced.  A watch of a group stays as it is when it is
\* repeated with the id of a node.
NewWatches(c, id, flags) == {k \in flags : <<k, id>> \notin watches[c]}
OfNode(id, flags) == IF id \in Thymios THEN flags \ {"shared"} ELSE {}
Toggled(c, id, flags) ==
    {w \in watches[c] : w[2] # id \/ (w[1] = "shared" /\ (id \in Thymios \/ "shared" \notin flags))}
    \cup {<<k, id>> : k \in OfNode(id, flags) \cup (NewWatches(c, id, flags) \cap {"shared"})}

\* What a watch tells at once: all that is new to the watcher, and always the state of the VM.
Snapshot_State(c, id, flags, r) == <<Task("update", r, object[r], "state", current[r]["state"])>>
Snapshot(c, id, flags, r) ==
    SetToSeq({Task("update", r, IF k = "shared" THEN 0 ELSE object[r], k, current[r][k]) :
              k \in {k \in OfNode(id, flags) : k \in NewWatches(c, id, flags) \/ k = "state"}
                    \cup (NewWatches(c, id, flags) \cap {"shared"})})

Watched(c, q, st) ==
    /\ Asked(q).kind = "watch"
    /\ LET id    == Asked(q).id
           flags == Asked(q).flags
           made  == OfNode(id, flags) \cup (NewWatches(c, id, flags) \cap {"shared"})
           rs    == {r \in Thymios : attached[r] /\ IsOrOwns(r, id)}
       IN IF rs = {} THEN NothingSeen /\ Settle(st)
          ELSE \E r \in rs :
               /\ watches' = [watches EXCEPT ![c] = Toggled(c, id, flags)]
               /\ connections' = [connections EXCEPT ![c] =
                      (@ \cap Toggled(c, id, flags)) \cup {<<k, id>> : k \in made}]
               /\ Settle([st EXCEPT ![c] = @ \o Snapshot(c, id, flags, r)])
    /\ Replied(q, 1)
    /\ NothingOwned /\ NothingSent /\ UNCHANGED running

\* DeviceManagerShutdownRequest, obeyed for clients on this machine.
Shutdown(c, q, st) ==
    /\ Asked(q).kind = "shutdown"
    /\ running' = (c \notin MachineLocal)
    /\ Replied(q, 0) /\ Settle(st)
    /\ NothingOwned /\ NothingSent /\ NothingSeen

\* handle_read: the message type selects the handler.
HandleRequest(c, q, st) ==
    \/ AnswerNow(c, q, st) \/ DescribeNode(c, q, st)
    \/ Locked(c, q, st) \/ Unlocked(c, q, st)
    \/ SetOrEmit(c, q, st) \/ CompileRequest(c, q, st) \/ ExecutionRequest(c, q, st)
    \/ BreakpointsRequest(c, q, st) \/ Watched(c, q, st) \/ Shutdown(c, q, st)

-----------------------------------------------------------------------------
(* Steps. *)

\* A client sends a request: its read completes, and the handler is queued on the strand.
ClientAsks(c) ==
    /\ running /\ c \in menu.by /\ Len(asking) < menu.most
    /\ \E request \in menu.requests :
        /\ asking' = Append(asking, [client |-> c, request |-> request])
        /\ replies' = Append(replies, 0)
        /\ strand' = [strand EXCEPT ![c] = Append(@, Task("request", "", 0, "", Len(asking) + 1))]
    /\ UNCHANGED <<menu, running, attached, object, renewed, owner, lockedNodes, watches, connections,
                   onWire, parked, current, told, excused>>

\* The next task of a client's strand.
StrandRuns(c) ==
    /\ running /\ strand[c] # <<>>
    /\ LET t  == Head(strand[c])
           st == [strand EXCEPT ![c] = Tail(@)]
       IN \/ t.what = "request" /\ HandleRequest(c, t.n, st) /\ UNCHANGED told
          \/ /\ t.what = "reply"     \* create_device_write_completion_cb and its like
             /\ Replied(t.n, 1) /\ Settle(st)
             /\ NothingOwned /\ NothingSent /\ NothingSeen /\ UNCHANGED <<running, told>>
          \/ /\ t.what = "update"    \* do_node_variables_changed and its like
             /\ told' = [told EXCEPT ![c][t.robot][t.info] = t.n]
             /\ Settle(st)
             /\ NothingOwned /\ NothingSent /\ NothingSeen /\ UNCHANGED <<running, replies>>
          \/ /\ t.what = "status"    \* do_node_changed
             /\ lockedNodes' = IF t.n = 0 THEN [lockedNodes EXCEPT ![c][t.robot] = 0] ELSE lockedNodes
             /\ Settle(st)
             /\ NothingSent /\ NothingSeen /\ UNCHANGED <<running, owner, replies, told>>
    /\ UNCHANGED <<menu, attached, object, renewed, current, asking>>

\* A batch has been written to the robot and, where the request waits for it, answered by it.
RobotDone(r) ==
    /\ running /\ onWire[r] # <<>>
    /\ onWire' = [onWire EXCEPT ![r] = Tail(@)]
    /\ strand' = [strand EXCEPT ![asking[Head(onWire[r])].client] = Append(@, Reply(Head(onWire[r])))]
    /\ UNCHANGED <<menu, running, attached, object, renewed, owner, lockedNodes, watches, connections,
                   parked, current, told, asking, replies, excused>>

\* Something watched changes: the signal defers an update for every connection.
Updated(r, k) ==
    /\ running /\ attached[r] /\ current[r][k] < menu.updates
    /\ k \in UNION {q.flags : q \in menu.requests}
    /\ current' = [current EXCEPT ![r][k] = @ + 1]
    /\ strand' = [c \in Clients |-> strand[c] \o
           SetToSeq({Task("update", r, IF k = "shared" THEN 0 ELSE object[r], k, current'[r][k]) :
                     w \in {w \in connections[c] : w[1] = k /\ (w[2] = r \/ w[2] = GroupId[r])}})]
    /\ UNCHANGED <<menu, running, attached, object, renewed, owner, lockedNodes, watches, connections,
                   onWire, parked, told, asking, replies, excused>>

\* cancel_pending_breakpoint_request, the part of it that reaches client c.
Cancelled_Silently(r, c) == <<>>
Cancelled(r, c) ==
    SetToSeq({Reply(q) : q \in {q \in Range(onWire[r]) : Asked(q).kind = "breakpoints"
                                                         /\ asking[q].client = c}})

\* ~aseba_endpoint: aseba_node::disconnect answers the pending breakpoint requests and tells
\* every client; the other callbacks are dropped with the queue, and the node's signals live
\* as long as the node.
RobotLost(r) ==
    /\ running /\ attached[r] /\ object[r] <= MaxLosses
    /\ attached' = [attached EXCEPT ![r] = FALSE]
    /\ LET pending == {q \in Range(onWire[r]) : Asked(q).kind = "breakpoints"}
           informed == ToAll(strand, Task("status", r, object[r], "", 0))
       IN /\ strand' = [c \in Clients |-> informed[c] \o Cancelled(r, c)]
          /\ excused' = excused \cup (Range(onWire[r]) \ pending)
    /\ onWire' = [onWire EXCEPT ![r] = <<>>]
    /\ connections' = [c \in Clients |-> {w \in connections[c] : w[2] # r \/ w[1] = "shared"}]
    /\ UNCHANGED <<menu, running, object, renewed, owner, lockedNodes, watches, parked, current, told,
                   asking, replies>>

\* The robot is back, as another node of the same id, in its former group if that group was
\* kept for it (restore_group_affiliation) or else in a new one.
RobotBack(r) ==
    /\ running /\ ~attached[r]
    /\ attached' = [attached EXCEPT ![r] = TRUE]
    /\ object' = [object EXCEPT ![r] = @ + 1]
    /\ owner' = [owner EXCEPT ![r] = {}]
    /\ \E kept \in BOOLEAN :
        /\ renewed' = [renewed EXCEPT ![r] = @ \/ ~kept]
        /\ current' = [current EXCEPT ![r] = [k \in Infos |-> IF k = "shared" /\ kept THEN @[k] ELSE 0]]
        /\ connections' = IF kept THEN connections
                          ELSE [c \in Clients |-> {w \in connections[c] : w[2] \notin {r, GroupId[r]}}]
    /\ strand' = ToAll(strand, Task("status", r, object'[r], "", 1))
    /\ UNCHANGED <<menu, running, lockedNodes, watches, onWire, parked, told, asking, replies, excused>>

RequestsInit ==
    /\ menu \in Menus /\ running = TRUE
    /\ attached = [r \in Thymios |-> TRUE]
    /\ object = [r \in Thymios |-> 1]
    /\ renewed = [r \in Thymios |-> FALSE]
    /\ owner = [r \in Thymios |-> {}]
    /\ lockedNodes = [c \in Clients |-> [r \in Thymios |-> 0]]
    /\ watches = [c \in Clients |-> {}] /\ connections = watches
    /\ strand = [c \in Clients |-> <<>>]
    /\ onWire = [r \in Thymios |-> <<>>]
    /\ parked = {} /\ excused = {}
    /\ current = [r \in Thymios |-> [k \in Infos |-> 0]]
    /\ told = [c \in Clients |-> [r \in Thymios |-> [k \in Infos |-> -1]]]
    /\ asking = <<>> /\ replies = <<>>

RequestsNext ==
    \/ \E c \in Clients : ClientAsks(c) \/ StrandRuns(c)
    \/ \E r \in Thymios : RobotDone(r) \/ RobotLost(r) \/ RobotBack(r)
                          \/ \E k \in Infos : Updated(r, k)

-----------------------------------------------------------------------------
(* Properties. *)

\* A request has one reply: never two, whatever the callbacks of robots, the loss of a robot and
\* the destruction of its node do to it (create_device_write_completion_cb and the callbacks
\* of compile_and_send_program and set_breakpoints), and once everything has run its course not
\* none, also when the client's robot was lost and returned.  Exceptions: saving AESL code is
\* answered with an error and with the bytecode of the former program (compile_and_save);
\* requests that carry no id, the description of a node that is not there, an empty set of
\* variables, and what was being written to a robot when it was lost have no reply
\* (handle_read, write_messages).
OneReply ==
    \A q \in DOMAIN asking :
        /\ replies[q] <= IF Asked(q).kind = "saveaesl" THEN 2 ELSE 1
        /\ (running /\ (\A c \in Clients : strand[c] = <<>>) /\ (\A r \in Thymios : onWire[r] = <<>>))
           => \/ replies[q] >= 1 \/ q \in excused
              \/ Asked(q).kind \in {"list", "unsupported", "shutdown", "description", "setnothing"}

\* A client that watches a robot's variables, its VM or its group has been told the present
\* state as soon as its strand is empty: no change slips through between the first report and
\* the connection to the signal, before or after it (watch_node_or_group).  The variables of a
\* robot that was lost are not reported again when it is back and watched again.
WatchersCurrent ==
    \A c \in Clients : \A r \in Thymios : \A k \in Infos :
        (strand[c] = <<>> /\ \E w \in connections[c] : w[1] = k /\ IsOrOwns(r, w[2])
         /\ (k # "variables" \/ object[r] = 1))
        => told[c][r][k] = current[r][k]
=============================================================================
