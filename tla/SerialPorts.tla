------------------------------ MODULE SerialPorts ------------------------------
(****************************************************************************)
(* Robots and dongles on serial ports, on the macOS and Windows builds: the *)
(* acceptor service that lists and opens the ports                          *)
(* (serial_acceptor_service), the server that asks it for one device at a   *)
(* time (serial_server), and the release of a port when its endpoint is     *)
(* destroyed or its firmware upgrade ends (aseba_device::free_endpoint,     *)
(* aseba_endpoint::upgrade_firmware).                                       *)
(****************************************************************************)
EXTENDS Naturals, Sequences, FiniteSets, SequencesExt

CONSTANTS PortOrder,     \* the ports in the order in which the system lists them
          Compatible,    \* the ports of Thymios and dongles
          NoPort,
          Platforms,     \* the builds: osx, win32
          MaxTroubles    \* bound: devices plugged in, firmware upgrades, and
                         \* opens that fail for a passing reason

Ports == Range(PortOrder)

ASSUME PortsOK == /\ Compatible \subseteq Ports /\ NoPort \notin Ports
                  /\ Platforms \subseteq {"osx", "win32"}

VARIABLES platform,
          plugged,       \* the ports that exist
          opened,        \* ports held open by the server or an endpoint
          portsUpgrading,     \* ports whose firmware is being written
          knownPorts,    \* m_known_devices
          connected,     \* m_connected_devices
          portWanted,        \* m_requests is not empty
          accepted,      \* port of the accept handler that is posted
          paused,        \* m_paused
          periodic,      \* on_active_timer waits for m_active_timer
          enumPosted,    \* an enumeration of its own is on its way
          frees,         \* ports to be released by timers that run
          unplugs,       \* history: ports reported by device_unplugged in the last step
          overlapping,   \* history: two upgrades ran at the same time
          troubles

portsVars == <<platform, plugged, opened, portsUpgrading, knownPorts, connected, portWanted,
               accepted, paused, periodic, enumPosted, frees, unplugs, overlapping,
               troubles>>

Trouble == troubles < MaxTroubles /\ troubles' = troubles + 1

-----------------------------------------------------------------------------
\* serial_server::accept, called by run_service, on a machine with some ports
\* plugged in.
PortsInit ==
  /\ platform \in Platforms
  /\ plugged \in SUBSET Ports
  /\ opened = {} /\ portsUpgrading = {}
  /\ knownPorts = {} /\ connected = {}
  /\ portWanted = TRUE
  /\ accepted = NoPort
  /\ paused = FALSE
  /\ periodic = TRUE /\ enumPosted = FALSE
  /\ frees = [p \in Ports |-> 0]
  /\ unplugs = {} /\ overlapping = FALSE
  /\ troubles = 0

CanEnumerate_Paused == portWanted

CanEnumerate == portWanted /\ ~paused

\* The ports the loop tries to open, for a list of connected ports.
Candidates(busy) == {p \in plugged \cap Compatible : p \notin busy}

Before(p, q) ==
  \E i, j \in DOMAIN PortOrder : PortOrder[i] = p /\ PortOrder[j] = q /\ i < j

\* The ports that fail to open although nobody holds them, when the loop ends up
\* with port hit, or none.  A port that is open cannot be opened again; one that
\* the upgrade thread uses can be while the robot restarts.
Failing(busy, hit) ==
  {p \in Candidates(busy) \ (opened \cup portsUpgrading) : hit = NoPort \/ Before(p, hit)}

\* known_devices: the loop goes on after the port that answers the request.
Listed(hit) == plugged \cap Compatible

\* handle_request_by_active_enumeration, for lists busy and known: the first
\* port that opens answers the request, the others stay listed.
Enumerate(busy, known) ==
  IF ~CanEnumerate
    THEN /\ connected' = busy /\ knownPorts' = known
         /\ unplugs' = {}
         /\ UNCHANGED <<opened, portWanted, accepted, troubles>>
    ELSE \E hit \in (Candidates(busy) \ opened) \cup {NoPort} :
           /\ IF Failing(busy, hit) = {} THEN UNCHANGED troubles ELSE Trouble
           /\ LET found == {hit} \ {NoPort}
                  gone == known \ Listed(hit)
              IN  /\ opened' = opened \cup found
                  /\ connected' = (busy \cup found) \ gone
                  /\ portWanted' = (found = {})
                  /\ accepted' = IF found = {} THEN accepted ELSE hit
                  /\ unplugs' = gone
           /\ knownPorts' = Listed(hit)

\* on_active_timer waits again as long as there is a request.
ActiveTimer ==
  /\ periodic
  /\ Enumerate(connected, knownPorts)
  /\ periodic' = portWanted'
  /\ UNCHANGED <<platform, plugged, portsUpgrading, paused, enumPosted, frees, overlapping>>

\* The enumeration that pause(false) posts, or that free_device adds to the
\* timer on macOS.
PostedEnumeration ==
  /\ enumPosted
  /\ enumPosted' = FALSE
  /\ Enumerate(connected, knownPorts)
  /\ UNCHANGED <<platform, plugged, portsUpgrading, paused, periodic, frees, overlapping>>

Freed_Known(p) == [known |-> knownPorts \ {p}, connected |-> connected]

Freed(p) == [known |-> knownPorts \ {p}, connected |-> connected \ {p}]

\* free_device, 500 ms after free_endpoint: on Windows it runs the handler of
\* the timer, on macOS it adds a second handler to the timer.
FreeDevice(p) ==
  /\ frees[p] > 0
  /\ frees' = [frees EXCEPT ![p] = @ - 1]
  /\ \/ /\ platform = "win32"
        /\ Enumerate(Freed(p).connected, Freed(p).known)
        /\ periodic' = (periodic \/ portWanted')
        /\ UNCHANGED enumPosted
     \/ /\ platform = "osx"
        /\ knownPorts' = Freed(p).known
        /\ connected' = Freed(p).connected
        /\ enumPosted' = TRUE
        /\ unplugs' = {}
        /\ UNCHANGED <<opened, portWanted, accepted, periodic, troubles>>
  /\ UNCHANGED <<platform, plugged, portsUpgrading, paused, overlapping>>

\* The accept handler of serial_server sets the port up and starts the endpoint,
\* or drops the session, and asks for the next device.
AcceptHandler ==
  /\ accepted # NoPort
  /\ \/ UNCHANGED <<opened, frees, troubles>>
     \/ /\ IF accepted \in plugged THEN Trouble ELSE UNCHANGED troubles
        /\ opened' = opened \ {accepted}
        /\ frees' = [frees EXCEPT ![accepted] = @ + 1]
  /\ portWanted' = TRUE /\ periodic' = TRUE
  /\ accepted' = NoPort
  /\ unplugs' = {}
  /\ UNCHANGED <<platform, plugged, portsUpgrading, knownPorts, connected, paused, enumPosted,
                 overlapping>>

\* The system keeps the name of a port until its last handle is closed.
Plug(p) ==
  /\ p \notin plugged \cup opened
  /\ Trouble
  /\ plugged' = plugged \cup {p}
  /\ unplugs' = {}
  /\ UNCHANGED <<platform, opened, portsUpgrading, knownPorts, connected, portWanted, accepted,
                 paused, periodic, enumPosted, frees, overlapping>>

Unplug(p) ==
  /\ p \in plugged
  /\ plugged' = plugged \ {p}
  /\ unplugs' = {}
  /\ UNCHANGED <<platform, opened, portsUpgrading, knownPorts, connected, portWanted, accepted,
                 paused, periodic, enumPosted, frees, overlapping, troubles>>

\* The pending read of an endpoint fails and the endpoint is destroyed.
PortLost(p) ==
  /\ p \in opened \ plugged /\ accepted # p
  /\ opened' = opened \ {p}
  /\ frees' = [frees EXCEPT ![p] = @ + 1]
  /\ unplugs' = {}
  /\ UNCHANGED <<platform, plugged, portsUpgrading, knownPorts, connected, portWanted, accepted,
                 paused, periodic, enumPosted, overlapping, troubles>>

\* upgrade_firmware pauses the acceptor, closes the port and hands it to the
\* upgrade thread.
UpgradeStarts(p) ==
  /\ p \in opened /\ accepted # p
  /\ Trouble
  /\ paused' = TRUE
  /\ opened' = opened \ {p}
  /\ portsUpgrading' = portsUpgrading \cup {p}
  /\ overlapping' = (overlapping \/ portsUpgrading # {})
  /\ unplugs' = {}
  /\ UNCHANGED <<platform, plugged, knownPorts, connected, portWanted, accepted, periodic,
                 enumPosted, frees>>

\* The upgrade's last callback frees the endpoint and ends the pause; then the
\* endpoint is destroyed and its port is freed a second time.
UpgradeEnds(p) ==
  /\ p \in portsUpgrading
  /\ portsUpgrading' = portsUpgrading \ {p}
  /\ paused' = FALSE
  /\ enumPosted' = TRUE
  /\ frees' = [frees EXCEPT ![p] = @ + 2]
  /\ unplugs' = {}
  /\ UNCHANGED <<platform, plugged, opened, knownPorts, connected, portWanted, accepted,
                 periodic, overlapping, troubles>>

PortsNext ==
  \/ \E p \in Ports : \/ Plug(p) \/ Unplug(p) \/ PortLost(p) \/ FreeDevice(p)
                      \/ UpgradeStarts(p) \/ UpgradeEnds(p)
  \/ PostedEnumeration \/ ActiveTimer \/ AcceptHandler

-----------------------------------------------------------------------------
\* A robot that stays plugged in is served in the end, also when it was unplugged
\* and plugged in again at once, when opening its port failed at first, when
\* firmware was upgraded, or when a late release made the acceptor forget that a
\* port is in use: the release timers, the pause and the list of connected
\* ports never shut it out.
ServedInTheEnd ==
  \A p \in Compatible : []<>(p \in plugged => p \in opened)

\* While the firmware of a robot is written the server does not open its port,
\* although the robot restarts and its port comes and goes; unless upgrades
\* overlap: the first to end lifts the pause of the second.
UpgradeAlone == ~overlapping => portsUpgrading \cap opened = {}
=============================================================================
