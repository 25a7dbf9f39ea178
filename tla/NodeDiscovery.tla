---------------------------- MODULE NodeDiscovery ----------------------------
(***************************************************************************)
(* How a robot that has just announced itself becomes available: the       *)
(* description of its VM is fetched, whole or fragment by fragment, then   *)
(* its persistent identity.  Both dialogues share one timer that asks      *)
(* again when an answer does not come, and a dongle may lose any message.  *)
(***************************************************************************)
EXTENDS Integers, Sequences, SequencesExt

CONSTANTS
    Described,    \* the robot's description: its lists of names, in the order of the fragments
    Protocols,    \* protocol versions a robot may announce
    MaxInFlight,  \* bound: messages under way in one direction when a timer fires
    MaxDrops      \* bound: messages a dongle loses

ASSUME DiscoveryOK ==
    /\ DOMAIN Described = {"variables", "events", "functions"}
    /\ \A k \in DOMAIN Described : IsInjective(Described[k])
    /\ Protocols \subseteq Nat /\ MaxInFlight \in Nat /\ MaxDrops \in Nat

VARIABLES
    protocol,    \* aseba_node::m_protocol_version, and the one of m_description once it is known
    cable,       \* the robot is on a cable, where nothing is lost, and not behind a dongle
    header,      \* an Aseba::Description has been received
    collected,   \* the entries of m_description's lists that have been written
    counter,     \* m_description_message_counter
    resend,      \* what m_resend_timer does when it expires
    asked,       \* requests on their way to the robot
    answers,     \* messages on their way back
    identified,  \* set_status(available) has been reached
    drops,       \* messages lost so far
    rebooted     \* history: a second header came after a first fragment

discoveryVars == <<protocol, cable, header, collected, counter, resend, asked, answers, identified,
                   drops, rebooted>>

Kinds == {"variables", "events", "functions"}
Blank(k) == [i \in DOMAIN Described[k] |-> ""]
Count(c) == c["variables"] + c["events"] + c["functions"]
AllFragments == LET of(k) == [i \in DOMAIN Described[k] |-> [type |-> k, name |-> Described[k][i]]]
                IN of("variables") \o of("events") \o of("functions")

\* GetNodeDescription, GetDeviceInfo and GetNodeDescriptionFragment messages.
Get(what) == [get |-> what, fragment |-> -1]

\* request_next_description_fragment: the fragment asked for, -1 for the header.
NextFragment_Stuck(h, c) == [get |-> "fragment", fragment |-> IF Count(c) > 0 THEN Count(c) ELSE -1]
NextFragment(h, c) == [get |-> "fragment", fragment |-> IF h THEN Count(c) ELSE -1]

\* request_device_info: nothing below protocol 6; name, radio settings from 9, uuid.
DeviceInfoRequests ==
    (IF protocol >= 6 THEN <<Get("name")>> ELSE <<>>)
    \o (IF protocol >= 9 THEN <<Get("rf")>> ELSE <<>>)
    \o (IF protocol >= 6 THEN <<Get("uuid")>> ELSE <<>>)

\* get_description, called when the node announces itself: below protocol 8 the whole
\* description is asked for.  The first ping of a robot on a cable has done so already.
DiscoveryInit ==
    /\ protocol \in Protocols
    /\ cable \in BOOLEAN
    /\ header = FALSE /\ identified = FALSE /\ rebooted = FALSE /\ drops = 0
    /\ collected = [k \in Kinds |-> <<>>]
    /\ counter = [k \in Kinds |-> 0]
    /\ asked = (IF cable THEN <<Get("all")>> ELSE <<>>)
               \o (IF protocol >= 8 THEN <<NextFragment(FALSE, counter)>> ELSE <<Get("all")>>)
    /\ resend = IF protocol >= 8 THEN "fragment" ELSE "off"
    /\ answers = <<>>

-----------------------------------------------------------------------------
(* The robot and the link (external). *)

\* The robot answers a request: a fragment beyond the last one is not answered.
RobotAnswers ==
    /\ asked # <<>>
    /\ asked' = Tail(asked)
    /\ answers' = answers \o
           LET whole == <<[type |-> "header"]>> \o AllFragments
               i     == Head(asked).fragment + 2
           IN CASE Head(asked).get = "all" -> whole
                [] Head(asked).get = "fragment" -> IF i \in DOMAIN whole THEN <<whole[i]>> ELSE <<>>
                [] OTHER -> <<[type |-> Head(asked).get]>>
    /\ UNCHANGED <<protocol, cable, header, collected, counter, resend, identified, drops, rebooted>>

\* A dongle drops a message, one way or the other.
Dropped ==
    /\ ~cable /\ drops < MaxDrops
    /\ drops' = drops + 1
    /\ \/ asked # <<>> /\ asked' = Tail(asked) /\ UNCHANGED answers
       \/ answers # <<>> /\ answers' = Tail(answers) /\ UNCHANGED asked
    /\ UNCHANGED <<protocol, cable, header, collected, counter, resend, identified, rebooted>>

-----------------------------------------------------------------------------
(* The node. *)

\* safe_description_update: an entry is written at the counter, unless the list is
\* full or already has an entry of that name.
Updates_AnyName(msg) == counter[msg.type] < Len(collected[msg.type])
Updates(msg) == /\ counter[msg.type] < Len(collected[msg.type])
                /\ \A i \in DOMAIN collected[msg.type] : collected[msg.type][i] # msg.name

\* The header replaces the whole description but leaves the counters.
FilledBy(msg) == CASE msg.type = "header" -> [k \in Kinds |-> Blank(k)]
                   [] msg.type \in Kinds ->
                        IF Updates(msg)
                        THEN [collected EXCEPT ![msg.type][counter[msg.type] + 1] = msg.name]
                        ELSE collected
CountedBy(msg) == IF msg.type \in Kinds /\ Updates(msg)
                  THEN [counter EXCEPT ![msg.type] = @ + 1] ELSE counter

DescriptionReady(h, f, c) == h /\ \A k \in Kinds : c[k] = Len(f[k])

\* handle_description_messages; with the last part, on_description_received asks for
\* the identity of a Thymio of protocol 6 or more and makes any other node available.
HandleDescription ==
    /\ answers # <<>> /\ Head(answers).type \in Kinds \cup {"header"}
    /\ LET msg   == Head(answers)
           h     == header \/ msg.type = "header"
           f     == FilledBy(msg)
           c     == CountedBy(msg)
           ready == DescriptionReady(h, f, c)
       IN /\ header' = h /\ collected' = f /\ counter' = c
          /\ rebooted' = (rebooted \/ (msg.type = "header" /\ Count(counter) > 0))
          /\ asked' = asked \o (IF ready THEN DeviceInfoRequests
                                ELSE IF protocol >= 8 THEN <<NextFragment(h, c)>> ELSE <<>>)
          /\ resend' = IF ready THEN IF protocol >= 6 THEN "info" ELSE "off"
                       ELSE IF protocol >= 8 THEN "fragment" ELSE "off"
          /\ identified' = (identified \/ (ready /\ protocol < 6))
    /\ answers' = Tail(answers)
    /\ UNCHANGED <<protocol, cable, drops>>

\* on_device_info: the uuid ends the dialogue, whatever else was lost.
HandleDeviceInfo ==
    /\ answers # <<>> /\ Head(answers).type \in {"name", "rf", "uuid"}
    /\ answers' = Tail(answers)
    /\ resend' = IF Head(answers).type = "uuid" THEN "off" ELSE resend
    /\ identified' = (identified \/ Head(answers).type = "uuid")
    /\ UNCHANGED <<protocol, cable, header, collected, counter, asked, drops, rebooted>>

\* m_resend_timer expires: the request is sent again and the timer restarted.  It may
\* well expire while the answer is on its way.
ResendExpires ==
    /\ resend # "off" /\ Len(asked) < MaxInFlight /\ Len(answers) < MaxInFlight
    /\ asked' = asked \o (IF resend = "fragment" THEN <<NextFragment(header, counter)>>
                                                 ELSE DeviceInfoRequests)
    /\ UNCHANGED <<protocol, cable, header, collected, counter, resend, answers, identified, drops, rebooted>>

DiscoveryNext ==
    \/ RobotAnswers \/ Dropped \/ HandleDescription \/ HandleDeviceInfo \/ ResendExpires

-----------------------------------------------------------------------------
(* Properties. *)

\* The description a node ends up with is the robot's, entry for entry and in order,
\* however many of the requests were repeated and answered twice
\* (handle_description_messages, request_next_description_fragment).  The exception is
\* a second header after a first fragment, which empties the lists and not the counters.
DescriptionFaithful ==
    (DescriptionReady(header, collected, counter) /\ ~rebooted) => collected = Described

\* A robot met through a dongle that loses messages does become available, and so does
\* any robot on a cable: until the dialogue is over, an answer is under way or the timer
\* that asks again is running (m_resend_timer).  Below protocol 8 the description is asked
\* for once.
DiscoveryCompletes == []<>(protocol >= 8 \/ cable => identified)
=============================================================================
