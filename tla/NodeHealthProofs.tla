--------------------------- MODULE NodeHealthProofs ---------------------------
(****************************************************************************)
(* What NodeHealth promises for any periods of the two timers, any patience *)
(* and any delay of the answers that the patience allows for.               *)
(****************************************************************************)
EXTENDS NodeHealth, TLAPS

HealthTypes ==
  /\ nodeStatus \in {"none", "connected", "available"}
  /\ quiet \in Nat
  /\ nextPing \in 0..PingPeriod /\ nextCheck \in 0..CheckPeriod
  /\ awaited \subseteq 0..Latency
  /\ wirelessLink \in BOOLEAN /\ listening \in BOOLEAN /\ onAir \in BOOLEAN
  /\ flashing \in BOOLEAN /\ steady \in BOOLEAN

Watched == nodeStatus # "none" /\ ~flashing

\* A node is only there while the endpoint reads, and answers only come from a
\* robot that is in reach.
Reachable ==
  /\ Watched => listening
  /\ steady \/ awaited # {} => onAir

\* The silence of a node and the time to the next check make up for each other.
CheckComes == Watched => quiet + nextCheck < Patience[nodeStatus] + CheckPeriod

\* A robot that answers was last heard no longer ago than the request before the
\* one it still has to answer, or the last one, was sent.
HeardLately ==
  Watched /\ steady =>
    IF awaited = {} THEN quiet <= PingPeriod - nextPing
    ELSE \E k \in awaited : quiet <= k + PingPeriod

HealthInv == HealthTypes /\ Reachable /\ CheckComes /\ HeardLately

-----------------------------------------------------------------------------
\* A node that is watched and answers is within its patience, so that the
\* condition of the health check is false for it.
LEMMA Patient ==
  ASSUME HealthInv, Watched, steady
  PROVE  ~TooQuiet(nodeStatus, quiet)
<1>1. nodeStatus \in {"connected", "available"}
  BY DEF HealthInv, HealthTypes, Watched
<1>2. /\ Patience[nodeStatus] \in Nat
      /\ PingPeriod + Latency < Patience[nodeStatus]
  BY <1>1, HealthOK
<1>3. quiet <= PingPeriod + Latency
  <2>1. CASE awaited = {}
    BY <2>1, HealthOK DEF HealthInv, HealthTypes, HeardLately
  <2>2. CASE awaited # {}
    <3>1. PICK k \in awaited : quiet <= k + PingPeriod
      BY <2>2 DEF HealthInv, HeardLately
    <3>2. k \in 0..Latency
      BY DEF HealthInv, HealthTypes
    <3> QED BY <3>1, <3>2, HealthOK DEF HealthInv, HealthTypes
  <2> QED BY <2>1, <2>2
<1> QED BY <1>2, <1>3, HealthOK DEF TooQuiet, HealthInv, HealthTypes

LEMMA HealthStarts == HealthInit => HealthInv
<1> SUFFICES ASSUME HealthInit PROVE HealthInv
  OBVIOUS
<1>1. nodeStatus = "none" /\ steady = FALSE /\ awaited = {}
  BY DEF HealthInit
<1>2. HealthTypes
  <2>1. /\ wirelessLink \in BOOLEAN /\ listening \in BOOLEAN /\ onAir \in BOOLEAN
        /\ flashing \in BOOLEAN /\ steady \in BOOLEAN
    BY Zenon DEF HealthInit
  <2>2. quiet = 0 /\ nextPing = 0 /\ nextCheck = CheckPeriod
    BY DEF HealthInit
  <2> QED BY <1>1, <2>1, <2>2, HealthOK DEF HealthTypes
<1>3. Reachable /\ CheckComes /\ HeardLately
  BY <1>1 DEF Reachable, CheckComes, HeardLately, Watched
<1> QED BY <1>2, <1>3 DEF HealthInv

\* A second that passes: silence and requests grow older together.
LEMMA SecondKeeps == HealthInv /\ Second => HealthInv'
<1> SUFFICES ASSUME HealthInv, Second PROVE HealthInv'
  OBVIOUS
<1> USE HealthOK
<1>1. HealthTypes'
  BY DEF HealthInv, HealthTypes, Second
<1>2. Reachable'
  BY DEF HealthInv, Reachable, Watched, Second
<1>3. CheckComes'
  BY DEF HealthInv, HealthTypes, CheckComes, Watched, Second
<1>4. ASSUME Watched', steady'
      PROVE  IF awaited' = {} THEN quiet' <= PingPeriod - nextPing'
             ELSE \E k \in awaited' : quiet' <= k + PingPeriod
  <2>1. Watched /\ steady /\ quiet' = quiet + 1
    BY <1>4 DEF Watched, Second
  <2>2. CASE awaited = {}
    BY <2>1, <2>2 DEF HealthInv, HealthTypes, HeardLately, Second
  <2>3. CASE awaited # {}
    <3>1. PICK k \in awaited : quiet <= k + PingPeriod
      BY <2>1, <2>3 DEF HealthInv, HeardLately
    <3>2. k + 1 \in awaited' /\ k \in Nat
      BY DEF HealthInv, HealthTypes, Second
    <3>3. quiet' <= (k + 1) + PingPeriod
      BY <2>1, <3>1, <3>2 DEF HealthInv, HealthTypes
    <3> QED BY <3>2, <3>3
  <2> QED BY <2>2, <2>3
<1> QED BY <1>1, <1>2, <1>3, <1>4 DEF HealthInv, HeardLately

\* A request is sent: until now everything was answered, or one was under way.
LEMMA PingKeeps == HealthInv /\ SendPing => HealthInv'
<1> SUFFICES ASSUME HealthInv, SendPing PROVE HealthInv'
  OBVIOUS
<1> USE HealthOK
<1>1. HealthTypes'
  BY DEF HealthInv, HealthTypes, SendPing, PingAgain
<1>2. Reachable'
  BY DEF HealthInv, HealthTypes, Reachable, Watched, SendPing
<1>3. CheckComes'
  BY DEF HealthInv, CheckComes, Watched, SendPing
<1>4. ASSUME Watched', steady'
      PROVE  awaited' # {} /\ \E k \in awaited' : quiet' <= k + PingPeriod
  <2>1. Watched /\ steady /\ quiet' = quiet
    BY <1>4 DEF Watched, SendPing
  <2>2. awaited' = awaited \cup {0}
    BY <2>1 DEF HealthInv, Reachable, SendPing
  <2>3. CASE awaited = {}
    <3>1. quiet <= 0 + PingPeriod
      BY <2>1, <2>3 DEF HealthInv, HealthTypes, HeardLately, SendPing
    <3> QED BY <2>1, <2>2, <3>1
  <2>4. CASE awaited # {}
    BY <2>1, <2>2, <2>4 DEF HealthInv, HeardLately
  <2> QED BY <2>3, <2>4
<1> QED BY <1>1, <1>2, <1>3, <1>4 DEF HealthInv, HeardLately

LEMMA AnswerKeeps == HealthInv /\ NodeAnswers => HealthInv'
<1> SUFFICES ASSUME HealthInv, NodeAnswers PROVE HealthInv'
  OBVIOUS
<1> USE HealthOK
<1>1. PICK k \in awaited : awaited' = awaited \ {k}
  BY DEF NodeAnswers
<1>2. HealthTypes'
  <2>1. nodeStatus' \in {"none", "connected", "available"} /\ steady' \in BOOLEAN
    BY DEF HealthInv, HealthTypes, NodeAnswers
  <2> QED BY <1>1, <2>1 DEF HealthInv, HealthTypes, NodeAnswers
<1>3. onAir /\ onAir'
  BY <1>1 DEF HealthInv, Reachable, NodeAnswers
<1>4. Reachable'
  BY <1>3 DEF Reachable, Watched, NodeAnswers
<1>5. quiet' = 0 /\ nextPing' = nextPing /\ nextCheck' = nextCheck
  BY DEF NodeAnswers
<1>6. CheckComes'
  <2> SUFFICES ASSUME Watched' PROVE quiet' + nextCheck' < Patience[nodeStatus'] + CheckPeriod
    BY DEF CheckComes
  <2>1. Patience[nodeStatus'] \in Nat \ {0}
    BY <1>2 DEF Watched, HealthTypes
  <2> QED BY <1>5, <2>1 DEF HealthInv, HealthTypes
<1>7. HeardLately'
  <2>1. 0 <= PingPeriod - nextPing /\ \A j \in awaited' : 0 <= j + PingPeriod
    BY <1>2 DEF HealthInv, HealthTypes
  <2> QED BY <1>5, <2>1 DEF HeardLately
<1> QED BY <1>2, <1>4, <1>6, <1>7 DEF HealthInv

\* The health check: what it leaves alone has not been quiet for too long.
LEMMA CheckKeeps == HealthInv /\ HealthCheck => HealthInv'
<1> SUFFICES ASSUME HealthInv, HealthCheck PROVE HealthInv'
  OBVIOUS
<1> USE HealthOK
<1>1. CASE nodeStatus # "none" /\ TooQuiet(nodeStatus, quiet)
  <2>1. /\ nodeStatus' = "none" /\ quiet' = 0 /\ nextCheck' = CheckPeriod
        /\ listening' = ReadsOn /\ awaited' = IF ReadsOn THEN awaited ELSE {}
        /\ UNCHANGED <<wirelessLink, nextPing, onAir, flashing, steady>>
    BY <1>1 DEF HealthCheck
  <2>2. HealthTypes'
    BY <2>1 DEF HealthInv, HealthTypes, ReadsOn
  <2>3. Reachable' /\ CheckComes' /\ HeardLately'
    BY <2>1 DEF HealthInv, Reachable, CheckComes, HeardLately, Watched
  <2> QED BY <2>2, <2>3 DEF HealthInv
<1>2. CASE ~(nodeStatus # "none" /\ TooQuiet(nodeStatus, quiet))
  <2>1. /\ nextCheck' = CheckPeriod
        /\ UNCHANGED <<nodeStatus, quiet, listening, awaited, wirelessLink, nextPing, onAir,
                       flashing, steady>>
    BY <1>2 DEF HealthCheck
  <2>2. HealthTypes' /\ Reachable' /\ HeardLately'
    BY <2>1 DEF HealthInv, HealthTypes, Reachable, HeardLately, Watched
  <2>3. CheckComes'
    <3> SUFFICES ASSUME Watched' PROVE quiet + CheckPeriod < Patience[nodeStatus] + CheckPeriod
      BY <2>1 DEF CheckComes
    <3>1. nodeStatus \in {"connected", "available"} /\ ~(quiet >= Patience[nodeStatus])
      BY <1>2, <2>1 DEF Watched, TooQuiet, HealthInv, HealthTypes
    <3>2. Patience[nodeStatus] \in Nat
      BY <3>1
    <3> QED BY <3>1, <3>2 DEF HealthInv, HealthTypes
  <2> QED BY <2>2, <2>3 DEF HealthInv
<1> QED BY <1>1, <1>2

LEMMA HealthSteps == HealthInv /\ [HealthNext]_healthVars => HealthInv'
<1> SUFFICES ASSUME HealthInv, [HealthNext]_healthVars PROVE HealthInv'
  OBVIOUS
<1>1. CASE UpgradeBegins
  BY <1>1 DEF UpgradeBegins, HealthInv, HealthTypes, Reachable, CheckComes, HeardLately, Watched
<1>2. CASE RobotAway
  BY <1>2 DEF RobotAway, HealthInv, HealthTypes, Reachable, CheckComes, HeardLately, Watched
<1>3. CASE RobotReturns
  BY <1>3 DEF RobotReturns, HealthInv, HealthTypes, Reachable, CheckComes, HeardLately, Watched
<1>4. CASE UNCHANGED healthVars
  BY <1>4 DEF healthVars, HealthInv, HealthTypes, Reachable, CheckComes, HeardLately, Watched
<1> QED
  BY <1>1, <1>2, <1>3, <1>4, SecondKeeps, PingKeeps, AnswerKeeps, CheckKeeps DEF HealthNext

-----------------------------------------------------------------------------
\* A robot that has gone is dropped within its patience and one period of the
\* health check (schedule_nodes_health_check).
THEOREM GoneDropped == HealthSpec => []GoneInTime
<1>1. HealthInv => GoneInTime
  <2> SUFFICES ASSUME HealthInv, Watched PROVE quiet < Patience[nodeStatus] + CheckPeriod
    BY DEF GoneInTime, Watched
  <2>1. Patience[nodeStatus] \in Nat
    BY HealthOK DEF HealthInv, HealthTypes, Watched
  <2> QED BY <2>1, HealthOK DEF HealthInv, HealthTypes, CheckComes
<1> QED BY <1>1, HealthStarts, HealthSteps, PTL DEF HealthSpec

\* A robot that answers every request in time is not dropped by the health
\* check (schedule_nodes_health_check, schedule_send_ping).
THEOREM ResponsiveStays == HealthSpec => ResponsiveKept
<1>1. HealthInv /\ [HealthNext]_healthVars
        => [nodeStatus # "none" /\ nodeStatus' = "none" => ~steady]_healthVars
  <2> SUFFICES ASSUME HealthInv, HealthNext, nodeStatus # "none", nodeStatus' = "none", steady
               PROVE  FALSE
    OBVIOUS
  <2>1. HealthCheck
    BY DEF HealthNext, Second, SendPing, NodeAnswers, UpgradeBegins, RobotAway, RobotReturns
  <2>2. Watched /\ TooQuiet(nodeStatus, quiet)
    BY <2>1 DEF HealthCheck, Watched
  <2> QED BY <2>2, Patient
<1> QED BY <1>1, HealthStarts, HealthSteps, PTL DEF HealthSpec, ResponsiveKept
=============================================================================
