-------------------------------- MODULE Groups --------------------------------
(***************************************************************************)
(* Groups of robots.  An endpoint is born with a group of its own and may  *)
(* be attached to another one later, when a robot it hosts turns out to    *)
(* have been in that group before.  A group owns a table of events,        *)
(* variables shared by its robots, and programs ("scratchpads") that are   *)
(* assigned to them as they come and go.                                   *)
(***************************************************************************)
EXTENDS Integers, Sequences, FiniteSets, SequencesExt

CONSTANTS
    Hosts,        \* endpoint -> the robots met through it; a group is named after its first endpoint
    NativeIds,    \* robot -> aseba_node::native_id
    RobotNames,   \* robot -> aseba_node::friendly_name
    NoRobot,      \* a nil uuid
    NoGroup,      \* no entry in m_ghost_groups
    Files,        \* AESL files: [nodes, events, constant], nodes a sequence of [pref, name, aseba]
    EventNames,   \* events a table may list
    MaxSettings,  \* bound: requests of applications
    MaxPosted     \* bound: assignments waiting when a robot comes or goes

Eps == DOMAIN Hosts
Robots == DOMAIN NativeIds

ASSUME GroupsOK == /\ \A e \in Eps : Hosts[e] \subseteq Robots
                   /\ NoRobot \notin Robots /\ NoGroup \notin Eps
                   /\ DOMAIN RobotNames = Robots

VARIABLES
    epState,    \* of each endpoint: absent, up, gone
    nodeAt,     \* per endpoint and robot: none, connected (not identified yet) or available
    epGroup,    \* aseba_endpoint::m_group
    members,    \* group::m_endpoints, weak pointers
    table,      \* group::m_events_table
    shared,     \* group::m_shared_variables, whether it defines the one constant there is
    epEvents,   \* aseba_endpoint::m_defs.events
    epConstant, \* whether aseba_endpoint::m_defs.constants defines it
    pads,       \* group::m_scratchpads
    ghosts,     \* aseba_node_registery::m_ghost_groups, by uuid
    posted,     \* assign_scratchpads calls posted by set_status
    settings,   \* requests made so far
    emission    \* an emit_events call: endpoints that hold its callback, and its answers

groupsVars == <<epState, nodeAt, epGroup, members, table, shared, epEvents, epConstant,
                pads, ghosts, posted, settings, emission>>

NoPad == [pref |-> NoRobot, name |-> "", aseba |-> 65535, node |-> NoRobot]

\* group::endpoints: the members that still exist.
Alive(g, m, up) == SelectSeq(m[g], LAMBDA e : up[e] = "up")
EndpointsOf(g) == ToSet(Alive(g, members, epState))

\* group::nodes without those that are not available, in the order of the endpoints and, in
\* each of them, in any order.
AvailableIn(g, m, up, at) == {r \in Robots : \E e \in ToSet(Alive(g, m, up)) : at[e][r] = "available"}
Orders(S) == {s \in [1 .. Cardinality(S) -> S] : IsInjective(s)}

GroupsInit ==
    /\ epState = [e \in Eps |-> "absent"]
    /\ nodeAt = [e \in Eps |-> [r \in Robots |-> "none"]]
    /\ epGroup = [e \in Eps |-> e]
    /\ members = [g \in Eps |-> <<>>]
    /\ table = [g \in Eps |-> <<>>] /\ shared = [g \in Eps |-> FALSE]
    /\ epEvents = [e \in Eps |-> <<>>] /\ epConstant = [e \in Eps |-> FALSE]
    /\ pads = [g \in Eps |-> <<>>]
    /\ ghosts = [r \in Robots |-> NoGroup]
    /\ posted = <<>> /\ settings = 0
    /\ emission = [waiting |-> {}, answers |-> <<>>]

-----------------------------------------------------------------------------
(* Scratchpads. *)

\* assign_scratchpads, one robot of one round: the first unassigned pad that matches.
Matches(r, pad, by) == CASE by = "id" -> pad.aseba = NativeIds[r]
                         [] by = "name" -> pad.name = RobotNames[r]
                         [] by = "any" -> TRUE
Place(ps, r, by) ==
    LET fit == {i \in DOMAIN ps : ps[i].node = NoRobot /\ Matches(r, ps[i], by)}
    IN IF fit = {} THEN ps
       ELSE [ps EXCEPT ![CHOOSE i \in fit : \A j \in fit : i <= j].node = r]

\* The robots no pad is assigned to.
Free(ps, robots) == SelectSeq(robots, LAMBDA r : \A i \in DOMAIN ps : ps[i].node # r)

Round(ps, robots, by) == FoldLeft(LAMBDA acc, r : Place(acc, r, by), ps, Free(ps, robots))

\* assign_scratchpads: pads of robots that are not there any more are taken back; then robots
\* are matched by native id and by name (the round by node id compares the nil id of an
\* unassigned pad), and what is left goes to any robot.
AssignPads_Matched(ps, robots) ==
    LET cleared == [i \in DOMAIN ps |-> IF ps[i].node \in ToSet(robots) THEN ps[i]
                                        ELSE [ps[i] EXCEPT !.node = NoRobot]]
        byId    == Round(cleared, robots, "id")
    IN Round(byId, robots, "name")
AssignPads(ps, robots) ==
    LET cleared == [i \in DOMAIN ps |-> IF ps[i].node \in ToSet(robots) THEN ps[i]
                                        ELSE [ps[i] EXCEPT !.node = NoRobot]]
        byId    == Round(cleared, robots, "id")
        byName  == Round(byId, robots, "name")
    IN Round(byName, robots, "any")

\* find_or_create_scratch_pad: a pad of the same node, the same id or the same name is reused.
FindOrCreate(ps, n) ==
    IF \E i \in DOMAIN ps : \/ n.pref # NoRobot /\ n.pref \in {ps[i].node, ps[i].pref}
                            \/ n.aseba # 65535 /\ ps[i].aseba = n.aseba
                            \/ ps[i].name = n.name
    THEN ps
    ELSE Append(ps, [NoPad EXCEPT !.pref = n.pref, !.name = n.name, !.aseba = n.aseba])

-----------------------------------------------------------------------------
(* Endpoints and robots. *)

\* make_group_for_endpoint.
EndpointCreated(e) ==
    /\ epState[e] = "absent" /\ epState' = [epState EXCEPT ![e] = "up"]
    /\ members' = [members EXCEPT ![e] = Append(@, e)]
    /\ UNCHANGED <<nodeAt, epGroup, table, shared, epEvents, epConstant, pads, ghosts, posted,
                   settings, emission>>

\* set_status(connected): the node gets a random id, which no group remembers.
NodeAppears(e, r) ==
    /\ epState[e] = "up" /\ r \in Hosts[e] /\ nodeAt[e][r] = "none"
    /\ nodeAt' = [nodeAt EXCEPT ![e][r] = "connected"]
    /\ Len(posted) < MaxPosted /\ posted' = Append(posted, epGroup[e])
    /\ UNCHANGED <<epState, epGroup, members, table, shared, epEvents, epConstant, pads, ghosts,
                   settings, emission>>

\* group::has_state counts expired endpoints too.
HasState(g) == Len(members[g]) > 1 \/ table[g] # <<>> \/ shared[g]

\* restore_group_affiliation: an endpoint whose group has no state joins the robot's old one.
Rejoins(e, r) == ghosts[r] # NoGroup /\ epGroup[e] # ghosts[r] /\ ~HasState(epGroup[e])

\* attach_to_endpoint, for the events of the group; its shared variables are not passed on.
AttachedEvents_Kept(e, g) == epEvents
AttachedEvents(e, g) == [epEvents EXCEPT ![e] = table[g]]

\* handle_node_uuid_change, then set_status(available): the robot's other node is removed
\* (when it is the first of its endpoint, see DeviceManager), its group restored and saved.
\* The removal, every node of an endpoint that is attached and the new status post an assignment.
NodeIdentified(e, r) ==
    /\ epState[e] = "up" /\ nodeAt[e][r] = "connected"
    /\ LET at == [d \in Eps |-> [nodeAt[d] EXCEPT ![r] = IF d = e THEN "available"
                                                         ELSE IF @ = "available" THEN "none" ELSE @]]
           g  == ghosts[r]
           joined == Append(members[g], e)
       IN /\ nodeAt' = at
          /\ IF Rejoins(e, r)
             THEN /\ epGroup' = [epGroup EXCEPT ![e] = g]
                  /\ members' = [members EXCEPT ![g] = IF e \in EndpointsOf(g) THEN @ ELSE joined]
                  /\ epEvents' = AttachedEvents(e, g)
                  \* attach_to_endpoint assigns before the new status is set
                  /\ \E o \in Orders(AvailableIn(g, members', epState, [at EXCEPT ![e][r] = "connected"])) :
                        pads' = [pads EXCEPT ![g] = AssignPads(@, o)]
             ELSE UNCHANGED <<epGroup, members, epEvents, pads>>
          /\ ghosts' = [ghosts EXCEPT ![r] = epGroup'[e]]
          /\ Len(posted) < MaxPosted
          /\ posted' = posted \o SetToSeq({epGroup[d] : d \in {d \in Eps \ {e} : nodeAt[d][r] = "available"}})
                              \o (IF Rejoins(e, r) THEN [i \in DOMAIN SetToSeq({q \in Robots : at[e][q] # "none"}) |-> g]
                                                  ELSE <<>>)
                              \o <<epGroup'[e]>>
    /\ UNCHANGED <<epState, table, shared, epConstant, settings, emission>>

\* The health check: a node that has not been heard of is removed.
NodeLost(e, r) ==
    /\ epState[e] = "up" /\ nodeAt[e][r] # "none"
    /\ nodeAt' = [nodeAt EXCEPT ![e][r] = "none"]
    /\ Len(posted) < MaxPosted /\ posted' = Append(posted, epGroup[e])
    /\ UNCHANGED <<epState, epGroup, members, table, shared, epEvents, epConstant, pads, ghosts,
                   settings, emission>>

\* The callbacks an endpoint still holds are released; the last one answers the application.
ReleasedBy(e) == LET left == emission.waiting \ {e}
                 IN [waiting |-> left,
                     answers |-> IF left = {} /\ e \in emission.waiting
                                 THEN Append(emission.answers, "completed") ELSE emission.answers]

\* ~aseba_endpoint: its nodes find no endpoint, hence no group to post an assignment for.
EndpointLost(e) ==
    /\ epState[e] = "up" /\ epState' = [epState EXCEPT ![e] = "gone"]
    /\ nodeAt' = [nodeAt EXCEPT ![e] = [r \in Robots |-> "none"]]
    /\ emission' = ReleasedBy(e)
    /\ UNCHANGED <<epGroup, members, table, shared, epEvents, epConstant, pads, ghosts, posted, settings>>

AssignPosted ==
    /\ posted # <<>> /\ posted' = Tail(posted)
    /\ \E o \in Orders(AvailableIn(Head(posted), members, epState, nodeAt)) :
          pads' = [pads EXCEPT ![Head(posted)] = AssignPads(@, o)]
    /\ UNCHANGED <<epState, nodeAt, epGroup, members, table, shared, epEvents, epConstant, ghosts,
                   settings, emission>>

-----------------------------------------------------------------------------
(* Requests of an application that has locked a robot. *)

Setting(e, r) == /\ settings < MaxSettings /\ settings' = settings + 1
                 /\ epState[e] = "up" /\ nodeAt[e][r] = "available"

\* set_events_table and set_shared_variables, of the group and of its endpoints.
EventsSet(g, t) == [e \in Eps |-> IF e \in EndpointsOf(g) THEN t ELSE epEvents[e]]
ConstantSet(g, c) == [e \in Eps |-> IF e \in EndpointsOf(g) /\ c THEN TRUE ELSE epConstant[e]]

SetEventsTable(e, r, t) ==
    /\ Setting(e, r)
    /\ table' = [table EXCEPT ![epGroup[e]] = t] /\ epEvents' = EventsSet(epGroup[e], t)
    /\ UNCHANGED <<epState, nodeAt, epGroup, members, shared, epConstant, pads, ghosts, posted, emission>>

\* A map without the constant replaces the group's and leaves the endpoints' definitions.
SetSharedVariables(e, r, c) ==
    /\ Setting(e, r)
    /\ shared' = [shared EXCEPT ![epGroup[e]] = c] /\ epConstant' = ConstantSet(epGroup[e], c)
    /\ UNCHANGED <<epState, nodeAt, epGroup, members, table, epEvents, pads, ghosts, posted, emission>>

\* load_code of a file that is well formed; any other is refused before anything changes.
LoadCode(e, r, f) ==
    /\ Setting(e, r)
    /\ LET g == epGroup[e] IN
        /\ \E o \in Orders(AvailableIn(g, members, epState, nodeAt)) :
              pads' = [pads EXCEPT ![g] = AssignPads(FoldLeft(FindOrCreate, <<>>, f.nodes), o)]
        /\ table' = [table EXCEPT ![g] = f.events] /\ epEvents' = EventsSet(g, f.events)
        /\ shared' = [shared EXCEPT ![g] = f.constant] /\ epConstant' = ConstantSet(g, f.constant)
    /\ UNCHANGED <<epState, nodeAt, epGroup, members, ghosts, posted, emission>>

\* set_node_scratchpad: find_or_create_scratch_pad_for_node.
SetNodeScratchpad(e, r) ==
    /\ Setting(e, r)
    /\ pads' = [pads EXCEPT ![epGroup[e]] = IF \E i \in DOMAIN @ : @[i].node = r THEN @
                                            ELSE Append(@, [NoPad EXCEPT !.node = r])]
    /\ UNCHANGED <<epState, nodeAt, epGroup, members, table, shared, epEvents, epConstant, ghosts,
                   posted, emission>>

\* emit_events: an endpoint that does not know the event answers with an error at once, the
\* others when they have written it.  The end of the last callback answers too.
EmitEvents_Early(e, r, ev) ==
    /\ Setting(e, r) /\ emission.waiting = {} /\ emission.answers = <<>>
    /\ LET eps   == EndpointsOf(epGroup[e])
           knows == {d \in eps : ev \in ToSet(epEvents[d])}
       IN emission' = [waiting |-> knows, answers |-> <<"completed">>]
    /\ UNCHANGED <<epState, nodeAt, epGroup, members, table, shared, epEvents, epConstant, pads,
                   ghosts, posted>>
EmitEvents(e, r, ev) ==
    /\ Setting(e, r) /\ emission.waiting = {} /\ emission.answers = <<>>
    /\ LET eps    == EndpointsOf(epGroup[e])
           knows  == {d \in eps : ev \in ToSet(epEvents[d])}
           errors == [i \in 1 .. Cardinality(eps \ knows) |-> "error"]
       IN emission' = [waiting |-> knows,
                       answers |-> IF knows = {} THEN Append(errors, "completed") ELSE errors]
    /\ UNCHANGED <<epState, nodeAt, epGroup, members, table, shared, epEvents, epConstant, pads,
                   ghosts, posted>>

\* The endpoint has written the event, or has dropped its queue after a write error.
EventWritten(e) ==
    /\ e \in emission.waiting /\ emission' = ReleasedBy(e)
    /\ UNCHANGED <<epState, nodeAt, epGroup, members, table, shared, epEvents, epConstant, pads,
                   ghosts, posted, settings>>

GroupsNext ==
    \/ \E e \in Eps : EndpointCreated(e) \/ EndpointLost(e) \/ EventWritten(e)
    \/ \E e \in Eps, r \in Robots :
          \/ NodeAppears(e, r) \/ NodeIdentified(e, r) \/ NodeLost(e, r)
          \/ \E c \in BOOLEAN : SetSharedVariables(e, r, c)
          \/ \E ev \in EventNames : SetEventsTable(e, r, <<ev>>) \/ EmitEvents(e, r, ev)
          \/ \E f \in Files : LoadCode(e, r, f)
          \/ SetNodeScratchpad(e, r)
    \/ AssignPosted

-----------------------------------------------------------------------------
(* Properties. *)

\* No endpoint of the group has been attached to another one since.
EndpointsStay(g) == \A e \in EndpointsOf(g) : epGroup[e] = g

\* An endpoint that only its own group lists uses exactly the events of that group, whose
\* numbers depend on the table, and one that was never moved knows the constants the group
\* shares: however many endpoints and reconnections came before (attach_to_endpoint,
\* set_events_table, set_shared_variables).  A group never forgets an endpoint that has moved
\* to another one, and goes on setting its definitions.
DefinitionsAgree ==
    \A e \in Eps :
        (epState[e] = "up" /\ \A g \in Eps : e \in ToSet(members[g]) => g = epGroup[e] \/ (g = e /\ table[g] = <<>>))
            => /\ epEvents[e] = table[epGroup[e]]
               /\ epGroup[e] = e /\ shared[e] => epConstant[e]

\* Programs and robots of a group are matched.  A robot runs at most one of its group's
\* programs, and once the posted assignments have run no program is left without a robot while
\* an available robot has no program (assign_scratchpads, set_node_scratchpad).  A status change
\* posts an assignment, and what changes without one can only take robots away; a group whose
\* endpoint has been attached to another one is not told of its robots any more.
PadsMatched ==
    \A g \in Eps :
        /\ \A i, j \in DOMAIN pads[g] :
              (pads[g][i].node # NoRobot /\ pads[g][i].node = pads[g][j].node) => i = j
        /\ (posted = <<>> /\ EndpointsStay(g) /\ \E i \in DOMAIN pads[g] : pads[g][i].node = NoRobot)
              => \A r \in AvailableIn(g, members, epState, nodeAt) :
                    \E i \in DOMAIN pads[g] : pads[g][i].node = r

\* The answer that an event was sent comes last and when no endpoint has still to write it,
\* even if endpoints disappear meanwhile (the shared_ptr's deleter in emit_events).
CompletedIsLast ==
    \A i \in DOMAIN emission.answers :
        emission.answers[i] = "completed" => i = Len(emission.answers) /\ emission.waiting = {}
=============================================================================
