---------------------------- MODULE FirmwareUpgrade ----------------------------
(****************************************************************************)
(* Writing a firmware into a robot (thymio2_fwupgrade_impl.cpp): a thread   *)
(* of its own sends the pages, last page first, and waits for the           *)
(* acknowledgement of each one for at most 100 ms.  An acknowledgement does *)
(* not say which page it is for.  On a serial port a failure closes and     *)
(* reopens the device, which discards what was received; over libusb the    *)
(* page is just sent again.                                                 *)
(****************************************************************************)
EXTENDS Integers, Sequences

CONSTANTS PageCount,       \* pages of the firmware, numbered from 0
          LinkKinds,       \* builds: subset of {"serial", "usb"}
          MaxFailures      \* bound: failed writes, timeouts and unplugged robots

ASSUME UpgradeOK == /\ PageCount \in Nat \ {0}
                    /\ LinkKinds \subseteq {"serial", "usb"}
                    /\ MaxFailures \in Nat

VARIABLES link,          \* serial or usb
          linked,        \* the robot is still attached
          stage,         \* "reading", "opening", "sending", "waiting", "complete", "failed"
          page,          \* pages acknowledged so far
          progress,      \* the callbacks made: the last progress reported
          toBoot, acks,  \* messages to and from the bootloader
          flashed,       \* pages of the new firmware in the robot
          restarted,     \* the bootloader was told to start the new firmware
          faulted,       \* history: the bootloader acknowledged a page with an error
          failures

upgradeVars == <<link, linked, stage, page, progress, toBoot, acks, flashed, restarted, faulted, failures>>

PageNumbers == 0..(PageCount - 1)

Failure == failures < MaxFailures /\ failures' = failures + 1

\* Without the robot every exchange fails.
MayFail == IF linked THEN Failure ELSE UNCHANGED failures

NextPage_Rising(n) == n

\* data[data.size() - page - 1].
NextPage(n) == PageCount - n - 1

BootMessage(t, p) == [type |-> t, page |-> p]

UpgradeInit ==
  /\ link \in LinkKinds
  /\ linked = TRUE
  /\ stage = "reading"
  /\ page = 0 /\ progress = 0
  /\ toBoot = <<>> /\ acks = <<>>
  /\ flashed = {} /\ restarted = FALSE /\ faulted = FALSE /\ failures = 0

\* do_upgrade_thymio2_endpoint: a firmware file that is not accepted is an error.
ReadFirmware ==
  /\ stage = "reading"
  /\ stage' \in {"opening", "failed"}
  /\ UNCHANGED <<link, linked, page, progress, toBoot, acks, flashed, restarted, faulted, failures>>

\* try_make_serial_device gives up after a number of attempts.
Opened == IF linked \/ link = "usb" THEN "sending" ELSE "failed"

\* Opening a device resets it, which flushes what was received.
OpenDevice ==
  /\ stage = "opening"
  /\ stage' = Opened
  /\ acks' = <<>>
  /\ UNCHANGED <<link, linked, page, progress, toBoot, flashed, restarted, faulted, failures>>

Resumed_Skips == IF page + 1 < PageCount THEN page + 1 ELSE page

\* The page the loop resumes with after a failure.
Resumed == page

\* What the loop does when send_page fails: break, then close and open, or retry.
AfterFailure == IF link = "serial" THEN "opening" ELSE "sending"

\* send_page: the request and the data are written, or a write fails.
SendPage ==
  /\ stage = "sending"
  /\ \/ /\ linked
        /\ toBoot' = Append(toBoot, BootMessage("page", NextPage(page)))
        /\ stage' = "waiting"
        /\ UNCHANGED <<page, failures>>
     \/ /\ MayFail
        /\ page' = Resumed
        /\ stage' = AfterFailure
        /\ UNCHANGED toBoot
  /\ UNCHANGED <<link, linked, progress, acks, flashed, restarted, faulted>>

\* read_ack: an acknowledgement, with whatever error code, is a success.  After
\* the last page the bootloader is told to start the firmware.
ReadAck ==
  /\ stage = "waiting" /\ acks # <<>>
  /\ acks' = Tail(acks)
  /\ page' = page + 1
  /\ IF page + 1 = PageCount
       THEN /\ stage' = "complete" /\ progress' = PageCount
            /\ toBoot' = IF linked THEN Append(toBoot, BootMessage("reset", 0)) ELSE toBoot
       ELSE /\ stage' = "sending" /\ progress' = page
            /\ UNCHANGED toBoot
  /\ UNCHANGED <<link, linked, flashed, restarted, faulted, failures>>

AckTimeout ==
  /\ stage = "waiting" /\ acks = <<>>
  /\ MayFail
  /\ page' = Resumed
  /\ stage' = AfterFailure
  /\ UNCHANGED <<link, linked, progress, toBoot, acks, flashed, restarted, faulted>>

\* The bootloader takes the pages it receives in order and acknowledges each,
\* with an error when it could not write it.
Bootloader ==
  /\ linked /\ toBoot # <<>> /\ ~restarted
  /\ LET m == Head(toBoot)
     IN  IF m.type = "page"
           THEN /\ acks' = Append(acks, BootMessage("ack", 0))
                /\ \/ /\ flashed' = flashed \cup {m.page}
                      /\ UNCHANGED <<faulted, failures>>
                   \/ /\ Failure
                      /\ faulted' = TRUE
                      /\ UNCHANGED flashed
                /\ UNCHANGED restarted
           ELSE /\ restarted' = TRUE
                /\ UNCHANGED <<flashed, acks, faulted, failures>>
  /\ toBoot' = Tail(toBoot)
  /\ UNCHANGED <<link, linked, stage, page, progress>>

RobotUnplugged ==
  /\ linked /\ Failure
  /\ linked' = FALSE
  /\ toBoot' = <<>>
  /\ UNCHANGED <<link, stage, page, progress, acks, flashed, restarted, faulted>>

UpgradeNext ==
  ReadFirmware \/ OpenDevice \/ SendPage \/ ReadAck \/ AckTimeout \/ Bootloader \/ RobotUnplugged

UpgradeSpec == UpgradeInit /\ [][UpgradeNext]_upgradeVars

-----------------------------------------------------------------------------
\* The first page, which holds the address the firmware starts at, is written
\* after all the others: a robot that loses its cable during an upgrade does not
\* start a firmware that is only partly there, whatever was sent twice.  Left out
\* are upgrades in which the bootloader reported an error, which the thread
\* takes for a success.
FirstPageLast == 0 \in flashed => flashed = PageNumbers \/ faulted

\* The firmware is started only when every page of it is in the robot, also when
\* the acknowledgement of a page that had timed out was taken for the next
\* page's; with the same exception.
StartedWhole == restarted => flashed = PageNumbers \/ faulted
=============================================================================
