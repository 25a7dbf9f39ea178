------------------------------ MODULE NodeHealth ------------------------------
(****************************************************************************)
(* How an endpoint that is a dongle or a network connection tells that a    *)
(* robot has gone (aseba_endpoint.cpp): a timer asks every second which     *)
(* nodes are there, another one looks every five seconds for nodes that     *)
(* have been quiet for too long.  Time passes in seconds; a timer that is   *)
(* due runs before it goes on.                                              *)
(****************************************************************************)
EXTENDS Integers

CONSTANTS PingPeriod,      \* 1 s in the program
          CheckPeriod,     \* 5 s
          Patience,        \* status -> seconds of silence: 25 connected, 5 available
          Latency,         \* an answer that is not lost takes no longer
          MaxAbsences      \* bound: times a robot or an answer is lost

ASSUME HealthOK ==
  /\ PingPeriod \in Nat \ {0} /\ CheckPeriod \in Nat \ {0}
  /\ Patience \in [{"connected", "available"} -> Nat \ {0}]
  /\ Latency \in Nat /\ MaxAbsences \in Nat
  /\ \A s \in DOMAIN Patience : PingPeriod + Latency < Patience[s]

VARIABLES wirelessLink,  \* is_wireless(); otherwise the endpoint is a TCP connection
          listening,     \* a read is pending
          nodeStatus,    \* status of the node in m_nodes, "none" without
          quiet,         \* seconds since last_seen
          nextPing, nextCheck,
          onAir,         \* the robot is on and in reach
          awaited,       \* ages of the requests whose answers are under way
          flashing,      \* m_upgrading_firmware
          steady,        \* history: since the node was made, every request was answered
          absences

healthVars == <<wirelessLink, listening, nodeStatus, quiet, nextPing, nextCheck, onAir, awaited,
                flashing, steady, absences>>

\* start: the first request, after 200 ms, is taken to be immediate.
HealthInit ==
  /\ wirelessLink \in BOOLEAN
  /\ listening = TRUE
  /\ nodeStatus = "none" /\ quiet = 0
  /\ nextPing = 0 /\ nextCheck = CheckPeriod
  /\ onAir \in BOOLEAN /\ awaited = {}
  /\ flashing = FALSE /\ steady = FALSE /\ absences = 0

Second ==
  /\ ~flashing /\ nextPing > 0 /\ nextCheck > 0
  /\ \A k \in awaited : k < Latency
  /\ nextPing' = nextPing - 1 /\ nextCheck' = nextCheck - 1
  /\ quiet' = IF nodeStatus = "none" THEN 0 ELSE quiet + 1
  /\ awaited' = {k + 1 : k \in awaited}
  /\ UNCHANGED <<wirelessLink, listening, nodeStatus, onAir, flashing, steady, absences>>

PingAgain_Slow == PingPeriod + CheckPeriod

\* needs_ping, schedule_send_ping: the request is repeated.
PingAgain == PingPeriod

\* schedule_send_ping's handler.
SendPing ==
  /\ nextPing = 0 /\ ~flashing
  /\ nextPing' = PingAgain
  /\ awaited' = IF onAir /\ listening THEN awaited \cup {0} ELSE awaited
  /\ UNCHANGED <<wirelessLink, listening, nodeStatus, quiet, nextCheck, onAir, flashing, steady,
                 absences>>

\* handle_read: the oldest answer is read.  A node that is not known is created;
\* the answers of one that is known may make it available.
NodeAnswers ==
  /\ listening
  /\ \E k \in awaited :
       /\ \A j \in awaited : j <= k
       /\ awaited' = awaited \ {k}
  /\ quiet' = 0
  /\ IF nodeStatus = "none"
       THEN nodeStatus' = "connected" /\ steady' = TRUE
       ELSE nodeStatus' \in {nodeStatus, "available"} /\ UNCHANGED steady
  /\ listening' = ~flashing
  /\ UNCHANGED <<wirelessLink, nextPing, nextCheck, onAir, flashing, absences>>

\* The condition of the health check on a node that was quiet for n seconds.
TooQuiet(s, n) == n >= Patience[s]

ReadsOn_Never == FALSE

\* cancel_all_ops: only a dongle goes on reading after it has dropped a node.
ReadsOn == listening /\ wirelessLink

\* schedule_nodes_health_check's handler.
HealthCheck ==
  /\ nextCheck = 0 /\ ~flashing
  /\ nextCheck' = CheckPeriod
  /\ IF nodeStatus # "none" /\ TooQuiet(nodeStatus, quiet)
       THEN /\ nodeStatus' = "none" /\ quiet' = 0
            /\ listening' = ReadsOn
            /\ awaited' = IF ReadsOn THEN awaited ELSE {}
       ELSE UNCHANGED <<nodeStatus, quiet, listening, awaited>>
  /\ UNCHANGED <<wirelessLink, nextPing, onAir, flashing, steady, absences>>

\* A robot on the network is upgraded: neither timer is set again.
UpgradeBegins ==
  /\ ~wirelessLink /\ ~flashing /\ nodeStatus = "available"
  /\ flashing' = TRUE
  /\ UNCHANGED <<wirelessLink, listening, nodeStatus, quiet, nextPing, nextCheck, onAir, awaited,
                 steady, absences>>

\* The robot is switched off or out of reach, or an answer is lost.
RobotAway ==
  /\ onAir /\ absences < MaxAbsences
  /\ onAir' \in BOOLEAN
  /\ awaited' = {} /\ steady' = FALSE
  /\ absences' = absences + 1
  /\ UNCHANGED <<wirelessLink, listening, nodeStatus, quiet, nextPing, nextCheck, flashing>>

RobotReturns ==
  /\ ~onAir
  /\ onAir' = TRUE
  /\ UNCHANGED <<wirelessLink, listening, nodeStatus, quiet, nextPing, nextCheck, awaited, flashing,
                 steady, absences>>

HealthNext ==
  Second \/ SendPing \/ NodeAnswers \/ HealthCheck \/ UpgradeBegins \/ RobotAway \/ RobotReturns

HealthSpec == HealthInit /\ [][HealthNext]_healthVars

-----------------------------------------------------------------------------
\* A robot that answers every request in time is never dropped, whatever the
\* phases of the two timers and the delays of its answers
\* (schedule_nodes_health_check, schedule_send_ping).
ResponsiveKept == [][nodeStatus # "none" /\ nodeStatus' = "none" => ~steady]_healthVars

\* A robot that has gone is not shown for longer than the patience with it and
\* one period of the health check.
GoneInTime ==
  nodeStatus # "none" /\ ~flashing => quiet < Patience[nodeStatus] + CheckPeriod

\* A robot that is in reach of a dongle is found, also after it was dropped and
\* came back: the dongle goes on asking and reading.
FoundAgain == []<>(onAir /\ wirelessLink => nodeStatus # "none")
=============================================================================
