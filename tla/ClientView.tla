------------------------------ MODULE ClientView ------------------------------
(***************************************************************************)
(* What client applications are told of the robots: DeviceManager with the *)
(* NodesChanged messages that application_endpoint writes. view[a][id] is  *)
(* the status last written to application a for the id, so the order in    *)
(* which changes, locks and lists reach the client is what decides it.     *)
(***************************************************************************)
EXTENDS DeviceManager

VARIABLE view

viewVars == <<vars, view>>

\* What a client is told of a status, given that it holds the lock.
Told(s, mine) ==
    CASE s = "busy" /\ mine -> "ready"
      [] s = "upgrading"    -> "busy"
      [] OTHER              -> s

\* do_node_changed: the status is translated by the id the change was signalled
\* with and then again, in serialize_node, by the uuid the node has now.
TellChange_Raw(a) ==
    /\ NodeChanged(a)
    /\ LET t == Head(strand[a]) IN view' = [view EXCEPT ![a][t.id] = t.status]
TellChange(a) ==
    /\ NodeChanged(a)
    /\ LET t == Head(strand[a]) IN
       \E alive \in Existing :
            view' = [view EXCEPT ![a][t.id] =
                Told(Told(t.status, locked[a][t.id] \in alive), locked[a][uuid[t.node]] \in alive)]

\* send_full_node_list: every registered node that still exists, by its uuid.
TellList(a) ==
    /\ SendFullNodeList(a)
    /\ \E alive \in Existing :
        view' = [view EXCEPT ![a] = [id \in Ids |->
            IF registry[id] \in alive
            THEN Told(status[registry[id]], locked[a][uuid[registry[id]]] \in alive)
            ELSE @[id]]]

ViewInit == Init /\ view = [a \in Apps |-> [id \in Ids |-> "unknown"]]

ViewNext ==
    /\ ~hung
    /\ \/ RobotStep /\ UNCHANGED view
       \/ \E a \in Apps :
            \/ (ClientStep(a) \/ Destroyed(a)) /\ UNCHANGED view
            \/ (LockNode(a) \/ UnlockNode(a) \/ UpgradeNodeFirmware(a)) /\ UNCHANGED view
            \/ TellChange(a)
            \/ TellList(a)

ViewSpec == ViewInit /\ [][ViewNext]_viewVars

-----------------------------------------------------------------------------

\* Once everything queued for it has been passed on, what an application was
\* last told of each id (do_node_changed, send_full_node_list) is the truth:
\* gone, or the status the robot has, "ready" exactly when the application is
\* the owner.
QuiescentView ==
    \A a \in Apps : (conn[a] = "open" /\ strand[a] = <<>> /\ ~hung) =>
        \A id \in Ids :
            IF registry[id] = NoNode THEN view[a][id] \in {"unknown", "disconnected"}
            ELSE view[a][id] = Told(status[registry[id]], owner[registry[id]] = a)

=============================================================================
