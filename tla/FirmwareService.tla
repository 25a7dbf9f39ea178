---------------------------- MODULE FirmwareService ----------------------------
(****************************************************************************)
(* Firmware versions and files (firmware_update_service): the description   *)
(* of the last firmware is downloaded when a first robot is available, the  *)
(* firmware itself when a robot is to be upgraded; robots that ask in the   *)
(* meantime wait for the same download.                                     *)
(****************************************************************************)
EXTENDS Naturals, FiniteSets

CONSTANTS FwRobots,         \* robots
          FwVersion,        \* robot -> version of its firmware
          LastVersion,      \* version the server offers
          MaxHttpErrors     \* bound: requests that do not succeed

ASSUME FirmwareOK == /\ FwVersion \in [FwRobots -> Nat]
                     /\ LastVersion \in Nat \ {0}
                     /\ MaxHttpErrors \in Nat

VARIABLES available,       \* robots in the registry
          infoKnown,       \* m_versions and m_urls
          infoRequested,   \* m_downloading
          infoPending,     \* the request for the description is under way
          dataKnown,       \* m_firmwares_data
          dataPending,     \* requests for the firmware under way
          waitingFw,       \* m_waiting
          fwAsked,         \* history: robots that asked for the firmware
          served,          \* robots whose future has a value
          broken,          \* robots whose future never gets one
          told,            \* posted set_available_firmware_version
          offered,         \* robots that know the available version
          httpErrors

firmwareVars == <<available, infoKnown, infoRequested, infoPending, dataKnown, dataPending,
                  waitingFw, fwAsked, served, broken, told, offered, httpErrors>>

FirmwareInit ==
  /\ available = {} /\ waitingFw = {} /\ fwAsked = {} /\ served = {} /\ broken = {} /\ told = {} /\ offered = {}
  /\ infoKnown = FALSE /\ infoRequested = FALSE /\ infoPending = FALSE
  /\ dataKnown = FALSE /\ dataPending = 0
  /\ httpErrors = 0

HttpError == httpErrors < MaxHttpErrors /\ httpErrors' = httpErrors + 1

\* download_firmare_info: one request at a time.
AskInfo ==
  /\ infoRequested' = TRUE
  /\ infoPending' = (infoPending \/ ~infoRequested)

\* update_nodes_versions: robots with another version are told in a posted call,
\* and the firmware is asked for when robots wait for it.
UpdateVersions(robots) ==
  /\ told' = told \cup {r \in robots : FwVersion[r] # LastVersion}
  /\ dataPending' = IF waitingFw = {} THEN dataPending ELSE dataPending + 1

\* node_changed.
NodeAvailable(r) ==
  /\ r \notin available
  /\ available' = available \cup {r}
  /\ IF infoKnown
       THEN /\ UpdateVersions(available')
            /\ UNCHANGED <<infoRequested, infoPending>>
       ELSE /\ AskInfo
            /\ UNCHANGED <<told, dataPending>>
  /\ UNCHANGED <<infoKnown, dataKnown, waitingFw, fwAsked, served, broken, offered, httpErrors>>

\* The answer to the request for the description: it holds a version and an
\* address, or it is of no use and another robot may ask again.
InfoAnswered ==
  /\ infoPending
  /\ infoPending' = FALSE /\ infoRequested' = FALSE
  /\ \/ /\ infoKnown' = TRUE
        /\ UpdateVersions(available)
        /\ UNCHANGED httpErrors
     \/ /\ HttpError
        /\ UNCHANGED <<infoKnown, told, dataPending>>
  /\ UNCHANGED <<available, dataKnown, waitingFw, fwAsked, served, broken, offered>>

\* on_http_error: the request stays marked as under way.
InfoFailed ==
  /\ infoPending /\ HttpError
  /\ infoPending' = FALSE
  /\ UNCHANGED <<available, infoKnown, infoRequested, dataKnown, dataPending, waitingFw, fwAsked, served,
                 broken, told, offered>>

VersionPosted(r) ==
  /\ r \in told
  /\ told' = told \ {r} /\ offered' = offered \cup {r}
  /\ UNCHANGED <<available, infoKnown, infoRequested, infoPending, dataKnown, dataPending,
                 waitingFw, fwAsked, served, broken, httpErrors>>

\* firmware_data: the firmware is there; its address is not known, and the
\* promise is given up; or the robot waits, and the first one asks for it.
FirmwareData(r) ==
  /\ r \in available \ fwAsked /\ fwAsked' = fwAsked \cup {r}
  /\ IF dataKnown
       THEN /\ served' = served \cup {r}
            /\ UNCHANGED <<broken, infoRequested, infoPending, waitingFw, dataPending>>
       ELSE IF ~infoKnown
       THEN /\ broken' = broken \cup {r} /\ AskInfo
            /\ UNCHANGED <<served, waitingFw, dataPending>>
       ELSE /\ waitingFw' = waitingFw \cup {r}
            /\ dataPending' = IF waitingFw = {} THEN dataPending + 1 ELSE dataPending
            /\ UNCHANGED <<served, broken, infoRequested, infoPending>>
  /\ UNCHANGED <<available, infoKnown, dataKnown, told, offered, httpErrors>>

Notified_First == IF waitingFw = {} THEN {} ELSE {CHOOSE r \in waitingFw : TRUE}

\* Who is given the firmware when it arrives.
Notified == waitingFw

\* download_firmare_data's callback: when the answer is not a firmware, the
\* robots go on waiting.
DataAnswered ==
  /\ dataPending > 0
  /\ dataPending' = dataPending - 1
  /\ \/ /\ dataKnown' = TRUE
        /\ served' = served \cup Notified
        /\ waitingFw' = {}
        /\ UNCHANGED httpErrors
     \/ /\ HttpError
        /\ UNCHANGED <<dataKnown, served, waitingFw>>
  /\ UNCHANGED <<available, infoKnown, infoRequested, infoPending, fwAsked, broken, told,
                 offered>>

FirmwareNext ==
  \/ \E r \in FwRobots : NodeAvailable(r) \/ VersionPosted(r) \/ FirmwareData(r)
  \/ InfoAnswered \/ InfoFailed \/ DataAnswered

-----------------------------------------------------------------------------
\* A robot that asked for the firmware is given it in the end, with one request
\* for all that wait, unless a request failed; the robots that came while the
\* firmware was being downloaded included.
FirmwareArrives ==
  \A r \in FwRobots : []<>(r \in fwAsked => r \in served \cup broken \/ httpErrors > 0)

=============================================================================
