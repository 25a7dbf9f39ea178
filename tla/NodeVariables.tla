---------------------------- MODULE NodeVariables ----------------------------
(***************************************************************************)
(* How the variables of a robot reach the applications that watch them:    *)
(* a timer asks for the robot's memory in pieces cut at variable           *)
(* boundaries, the answers are laid over the variables the node knows, and *)
(* what has changed is signalled.  A program that is loaded replaces the   *)
(* layout while answers are under way.                                     *)
(***************************************************************************)
EXTENDS Integers, Sequences, FiniteSets, SequencesExt

CONSTANTS
    Layouts,      \* per program, its variables in memory order: [name, start, size]
    MemorySize,   \* the robot's cells are 0 .. MemorySize - 1, each 0 or 1
    MaxRequest,   \* ASEBA_MAX_EVENT_ARG_COUNT - 2
    MaxChanges,   \* bound: changes of memory, watches, programs and settings
    MaxReplies,   \* bound: answers under way when the timer fires
    MaxLost       \* bound: messages a dongle loses

NamesOf(p) == {Layouts[p][i].name : i \in DOMAIN Layouts[p]}
VariableNames == UNION {NamesOf(p) : p \in DOMAIN Layouts}

\* The compiler lays variables out one after the other from cell 0.
ASSUME VariablesOK ==
    /\ \A p \in DOMAIN Layouts :
         LET l == Layouts[p]
         IN /\ Cardinality(NamesOf(p)) = Len(l) /\ l[1].start = 0
            /\ \A i \in 2 .. Len(l) : l[i].start = l[i-1].start + l[i-1].size
            /\ l[Len(l)].start + l[Len(l)].size <= MemorySize
    /\ MaxRequest \in Nat \ {0}

VARIABLES
    present,    \* the node is not disconnected
    layout,     \* the program whose variables are known
    known,      \* m_variables: per name the value, <<>> while none has come
    memory,     \* the robot's memory
    watching,   \* m_variables_changed_signal has a slot: an application watches
    view,       \* what that application was last told of each name, <<>> for null
    requests,   \* messages on their way to the robot
    replies,    \* Aseba::Variables messages on their way back
    fwVersion,  \* m_firmware_version
    changes,    \* how many of the bounded inputs have happened
    lost        \* how many messages were lost

variablesVars == <<present, layout, known, memory, watching, view, requests, replies, fwVersion, changes, lost>>

Cells == 0 .. MemorySize - 1
Slice(mem, start, size) == [i \in 1 .. size |-> mem[start + i - 1]]
Tables == [p \in DOMAIN Layouts |->
             [name \in NamesOf(p) |-> Layouts[p][CHOOSE i \in DOMAIN Layouts[p] : Layouts[p][i].name = name]]]
Variable(p, name) == Tables[p][name]
Unknown(p) == [name \in NamesOf(p) |-> <<>>]

GetVariables(start, size) == [get |-> TRUE, start |-> start, size |-> size, data |-> <<>>]
SetVariables(start, data) == [get |-> FALSE, start |-> start, size |-> Len(data), data |-> data]

\* request_variables: the memory from 0 on, cut before the variable that no longer fits.
Chunks_Resent(p) ==
    LET cut(a, v) ==
          IF a.size + v.size > MaxRequest
          THEN [start |-> 0, size |-> v.size, sent |-> Append(a.sent, GetVariables(a.start, a.size))]
          ELSE [a EXCEPT !.size = @ + v.size]
        end == FoldLeft(cut, [start |-> 0, size |-> 0, sent |-> <<>>], Layouts[p])
    IN IF end.size > 0 THEN Append(end.sent, GetVariables(end.start, end.size)) ELSE end.sent
Chunks(p) ==
    LET cut(a, v) ==
          IF a.size + v.size > MaxRequest
          THEN [start |-> a.start + a.size, size |-> v.size,
                sent  |-> Append(a.sent, GetVariables(a.start, a.size))]
          ELSE [a EXCEPT !.size = @ + v.size]
        end == FoldLeft(cut, [start |-> 0, size |-> 0, sent |-> <<>>], Layouts[p])
    IN IF end.size > 0 THEN Append(end.sent, GetVariables(end.start, end.size)) ELSE end.sent

Rounds == [p \in DOMAIN Layouts |-> Chunks(p)]

\* What a signalled map of variables makes of an application's view.
Signal(v, map) == IF watching THEN [name \in VariableNames |-> IF name \in DOMAIN map THEN map[name]
                                                                                      ELSE v[name]]
                  ELSE v

\* on_description_received: the variables of the description, the firmware version asked for.
FirmwareRequest(p) == IF "_fwversion" \notin NamesOf(p) THEN <<>>
                      ELSE LET v == Variable(p, "_fwversion") IN <<GetVariables(v.start, v.size)>>

VariablesInit ==
    /\ present = TRUE /\ watching = FALSE
    /\ layout = "description" /\ known = Unknown("description")
    /\ memory = [c \in Cells |-> IF c = 0 THEN 1 ELSE 0]
    /\ view = [name \in VariableNames |-> <<>>]
    /\ requests = FirmwareRequest("description") /\ replies = <<>>
    /\ fwVersion = 0 /\ changes = 0 /\ lost = 0

-----------------------------------------------------------------------------
(* The robot and the link (external). *)

\* The program changes a cell; the firmware's version, in cell 0, stays.
RobotRuns == /\ changes < MaxChanges /\ changes' = changes + 1
             /\ \E c \in Cells \ {0} : memory' = [memory EXCEPT ![c] = 1 - @]
             /\ UNCHANGED <<present, layout, known, watching, view, requests, replies, fwVersion, lost>>

RobotServes ==
    /\ requests # <<>>
    /\ requests' = Tail(requests)
    /\ LET r == Head(requests)
       IN IF r.get
          THEN /\ replies' = Append(replies, [start |-> r.start, data |-> Slice(memory, r.start, r.size)])
               /\ UNCHANGED memory
          ELSE /\ memory' = [c \in Cells |-> IF c \in r.start .. r.start + r.size - 1
                                             THEN r.data[c - r.start + 1] ELSE memory[c]]
               /\ UNCHANGED replies
    /\ UNCHANGED <<present, layout, known, watching, view, fwVersion, changes, lost>>

LinkLoses ==
    /\ lost < MaxLost /\ lost' = lost + 1
    /\ \/ requests # <<>> /\ requests' = Tail(requests) /\ UNCHANGED replies
       \/ replies # <<>> /\ replies' = Tail(replies) /\ UNCHANGED requests
    /\ UNCHANGED <<present, layout, known, memory, watching, view, fwVersion, changes>>

-----------------------------------------------------------------------------
(* The node. *)

\* schedule_variables_update: every second and, while answers come, every 100 ms; only a
\* watched node asks.  What was asked before has been written by then.
VariablesTimer == /\ present /\ watching /\ requests = <<>> /\ Len(replies) <= MaxReplies
                  /\ requests' = Rounds[layout]
                  /\ UNCHANGED <<present, layout, known, memory, watching, view, replies, fwVersion, changes, lost>>

\* set_variables: the new values of the variables the data covers.  A variable seen for the
\* first time is filled with zeros where the data does not reach.
Covered(start, data) ==
    {name \in DOMAIN known : LET v == Variable(layout, name)
                                IN start < v.start + v.size /\ v.start < start + Len(data)}
Laid(start, data, name) ==
    LET v   == Variable(layout, name)
        old == IF known[name] = <<>> THEN [i \in 1 .. v.size |-> 0] ELSE known[name]
    IN [i \in 1 .. v.size |-> LET d == v.start + i - start
                              IN IF d \in DOMAIN data THEN data[d] ELSE old[i]]

\* on_variables_message: the values that differ, and the first ones, are signalled.
Changed_Differing(start, data) ==
    {name \in Covered(start, data) :
        known[name] # <<>> /\ Laid(start, data, name) # known[name]}
Changed(start, data) ==
    {name \in Covered(start, data) :
        known[name] = <<>> \/ Laid(start, data, name) # known[name]}

OnVariables ==
    /\ replies # <<>> /\ replies' = Tail(replies)
    /\ LET r   == Head(replies)
           new == [name \in Changed(r.start, r.data) |-> Laid(r.start, r.data, name)]
       IN /\ known' = [name \in DOMAIN known |-> IF name \in Covered(r.start, r.data)
                                                 THEN Laid(r.start, r.data, name) ELSE known[name]]
          /\ view' = Signal(view, new)
          /\ fwVersion' = IF "_fwversion" \in DOMAIN new THEN new["_fwversion"][1] ELSE fwVersion
    /\ UNCHANGED <<present, layout, memory, watching, requests, changes, lost>>

\* reset_known_variables: names of the old layout only are signalled as null.
Removed(p) == [name \in DOMAIN known \ NamesOf(p) |-> <<>>]

\* compile_and_send_program: the layout is replaced, then all its variables are signalled,
\* none of which has a value.
LoadLayout == /\ present /\ changes < MaxChanges /\ changes' = changes + 1
              /\ \E p \in DOMAIN Layouts \ {"description"} :
                    /\ layout' = p /\ known' = Unknown(p)
                    /\ view' = Signal(Signal(view, Removed(p)), Unknown(p))
              /\ UNCHANGED <<present, memory, watching, requests, replies, fwVersion, lost>>

\* on_description_received, when the robot describes itself again.
DescribedAgain == /\ present /\ changes < MaxChanges /\ changes' = changes + 1
                  /\ layout' = "description" /\ known' = Unknown("description")
                  /\ view' = Signal(view, Removed("description"))
                  /\ requests' = requests \o FirmwareRequest("description")
                  /\ UNCHANGED <<present, memory, watching, replies, fwVersion, lost>>

\* watch_node_or_group, for the variables of a node: the values known are sent first.
WatchVariables == /\ present /\ changes < MaxChanges /\ changes' = changes + 1
                  /\ \/ /\ watching' = TRUE
                        /\ view' = IF watching THEN view
                                   ELSE [name \in VariableNames |-> IF name \in DOMAIN known
                                                                    THEN known[name] ELSE <<>>]
                     \/ watching' = FALSE /\ view' = [name \in VariableNames |-> <<>>]
                  /\ UNCHANGED <<present, layout, known, memory, requests, replies, fwVersion, lost>>

\* set_node_variables: to_aseba_variable accepts a value of the variable's size only; the
\* message is written and what the node knows stays until the robot is asked again.
SetNodeVariables == /\ present /\ changes < MaxChanges /\ changes' = changes + 1
                    /\ \E name \in DOMAIN known \ {"_fwversion"} :
                         LET v == Variable(layout, name)
                         IN requests' = Append(requests, SetVariables(v.start, [i \in 1 .. v.size |-> 1]))
                    /\ UNCHANGED <<present, layout, known, memory, watching, view, replies, fwVersion, lost>>

\* set_status(disconnected): the timer chain ends, what is under way is lost.
VariablesGone == /\ present /\ changes < MaxChanges /\ changes' = changes + 1
                 /\ present' = FALSE /\ requests' = <<>> /\ replies' = <<>>
                 /\ UNCHANGED <<layout, known, memory, watching, view, fwVersion, lost>>

VariablesNext ==
    \/ RobotRuns \/ RobotServes \/ LinkLoses \/ VariablesTimer \/ OnVariables
    \/ LoadLayout \/ DescribedAgain \/ WatchVariables \/ SetNodeVariables \/ VariablesGone

-----------------------------------------------------------------------------
(* Properties. *)

\* Signalling only what changed keeps an application in step: whatever programs were loaded
\* and in whatever order old answers came, it holds exactly the value the node knows of each
\* variable that has one, and null for names the program no longer has (on_variables_message,
\* reset_known_variables, watch_node_or_group).
ViewFollowsNode ==
    watching => \A name \in VariableNames :
                    /\ name \in DOMAIN known /\ known[name] # <<>> => view[name] = known[name]
                    /\ name \notin DOMAIN known => view[name] = <<>>

\* Once robot and programs are left alone, an application that watches ends up with the
\* contents of the robot's memory, in spite of lost messages, torn values laid down by
\* answers to an earlier layout, and requests cut in pieces (the fail-safe timer of
\* schedule_variables_update).
WatcherConverges ==
    <>[](present /\ watching =>
            /\ \A name \in DOMAIN known :
                 view[name] = Slice(memory, Variable(layout, name).start, Variable(layout, name).size)
            /\ fwVersion = memory[0])
=============================================================================
