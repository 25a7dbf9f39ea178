------------------------------- MODULE UsbPorts -------------------------------
(****************************************************************************)
(* Robots and dongles on USB, the Linux build: the acceptor service that    *)
(* lists the devices with libusb (usb_acceptor_service), the server that    *)
(* asks it for one device at a time and opens it (usb_server), and the list *)
(* of open devices (usb_context).                                           *)
(*                                                                          *)
(* The lists hold bare pointers.  A device that is plugged in again gets    *)
(* the address of any device structure that was released.                   *)
(****************************************************************************)
EXTENDS Naturals, Sequences, FiniteSets, SequencesExt

CONSTANTS UsbOrder,       \* device addresses, in the order of libusb's list
          NoDevice,
          MaxUsbEvents    \* bound: devices plugged in, upgrades, failed opens

UsbDevices == Range(UsbOrder)

ASSUME UsbOK == NoDevice \notin UsbDevices

VARIABLES usbPlugged,
          usbOpened,      \* devices with a started endpoint
          usbKnown,       \* m_known_devices
          usbMarked,      \* usb_context::m_open_devices
          usbWanted,      \* m_requests is not empty
          usbAccepted,    \* device of the accept handler that is posted
          usbTimer,       \* what m_active_timer will run: nothing, on_active_timer,
                          \* or one enumeration
          usbPosted,      \* an enumeration is posted
          usbFreed,       \* devices whose free_device is posted
          usbUpgraded,    \* history: a firmware upgrade has ended
          usbStale,       \* history: devices plugged in under an address still known
          usbFailed,      \* history: devices whose open failed
          usbEvents

usbVars == <<usbPlugged, usbOpened, usbKnown, usbMarked, usbWanted, usbAccepted, usbTimer,
             usbPosted, usbFreed, usbUpgraded, usbStale, usbFailed, usbEvents>>

UsbEvent == usbEvents < MaxUsbEvents /\ usbEvents' = usbEvents + 1

-----------------------------------------------------------------------------
UsbInit ==
  /\ usbPlugged \in SUBSET UsbDevices
  /\ usbOpened = {} /\ usbKnown = {} /\ usbMarked = {}
  /\ usbWanted = TRUE
  /\ usbAccepted = NoDevice
  /\ usbTimer = "periodic"
  /\ usbPosted = FALSE /\ usbFreed = {}
  /\ usbUpgraded = FALSE /\ usbStale = {} /\ usbFailed = {}
  /\ usbEvents = 0

UsbHit_Known ==
  LET new == {i \in DOMAIN UsbOrder : UsbOrder[i] \in usbPlugged \ usbKnown}
  IN  IF new = {} THEN Len(UsbOrder) + 1 ELSE CHOOSE i \in new : \A j \in new : i <= j

\* device_plugged answers the request with the first device that is neither
\* known nor open; the place where the loop stops.
UsbHit ==
  LET new == {i \in DOMAIN UsbOrder : UsbOrder[i] \in usbPlugged \ (usbKnown \cup usbMarked)}
  IN  IF new = {} THEN Len(UsbOrder) + 1 ELSE CHOOSE i \in new : \A j \in new : i <= j

\* handle_request_by_active_enumeration, which does not look at m_paused.  The
\* devices behind the one that answers the request are not known afterwards.
UsbEnumerate ==
  LET found == IF usbWanted /\ UsbHit \in DOMAIN UsbOrder THEN {UsbOrder[UsbHit]} ELSE {}
  IN  /\ usbKnown' = IF usbWanted
                       THEN {UsbOrder[i] : i \in {j \in DOMAIN UsbOrder : j <= UsbHit}}
                              \cap usbPlugged
                       ELSE {}
      /\ usbMarked' = usbMarked \cup found
      /\ usbWanted' = (usbWanted /\ found = {})
      /\ usbAccepted' = IF found = {} THEN usbAccepted ELSE UsbOrder[UsbHit]

\* on_active_timer, which waits again while there is a request, or the single
\* enumeration that free_device asked for.
UsbTimer ==
  /\ usbTimer # "off"
  /\ UsbEnumerate
  /\ usbTimer' = IF usbTimer = "periodic" /\ usbWanted' THEN "periodic" ELSE "off"
  /\ UNCHANGED <<usbPlugged, usbOpened, usbPosted, usbFreed, usbUpgraded, usbStale,
                 usbFailed, usbEvents>>

\* The enumeration that pause(false) posts.
UsbPosted ==
  /\ usbPosted
  /\ usbPosted' = FALSE
  /\ UsbEnumerate
  /\ UNCHANGED <<usbPlugged, usbOpened, usbTimer, usbFreed, usbUpgraded, usbStale,
                 usbFailed, usbEvents>>

\* free_device sets the timer for one enumeration; the wait of on_active_timer
\* is cancelled, and on_active_timer does not wait again when it is.
UsbFree(d) ==
  /\ d \in usbFreed
  /\ usbFreed' = usbFreed \ {d}
  /\ usbKnown' = usbKnown \ {d}
  /\ usbTimer' = "once"
  /\ UNCHANGED <<usbPlugged, usbOpened, usbMarked, usbWanted, usbAccepted, usbPosted,
                 usbUpgraded, usbStale, usbFailed, usbEvents>>

Unmarked_Kept(d) == usbMarked

\* The destructor of usb_device takes the device off the list of open ones.
Unmarked(d) == usbMarked \ {d}

\* The accept handler opens the device and starts its endpoint; when that fails
\* the session is dropped.  Then it asks for the next device.
UsbAccept ==
  /\ usbAccepted # NoDevice
  /\ \/ /\ usbAccepted \in usbPlugged
        /\ usbOpened' = usbOpened \cup {usbAccepted}
        /\ UNCHANGED <<usbMarked, usbFailed, usbEvents>>
     \/ /\ IF usbAccepted \in usbPlugged THEN UsbEvent ELSE UNCHANGED usbEvents
        /\ usbFailed' = usbFailed \cup {usbAccepted}
        /\ usbMarked' = Unmarked(usbAccepted)
        /\ UNCHANGED usbOpened
  /\ usbWanted' = TRUE
  /\ usbTimer' = "periodic"
  /\ usbAccepted' = NoDevice
  /\ UNCHANGED <<usbPlugged, usbKnown, usbPosted, usbFreed, usbUpgraded, usbStale>>

\* An address is only given to a new device once nothing refers to the old one.
UsbPlug(d) ==
  /\ d \notin usbPlugged \cup usbOpened /\ usbAccepted # d
  /\ UsbEvent
  /\ usbPlugged' = usbPlugged \cup {d}
  /\ usbStale' = IF d \in usbKnown THEN usbStale \cup {d} ELSE usbStale \ {d}
  /\ usbFailed' = usbFailed \ {d}
  /\ UNCHANGED <<usbOpened, usbKnown, usbMarked, usbWanted, usbAccepted, usbTimer, usbPosted,
                 usbFreed, usbUpgraded>>

UsbUnplug(d) ==
  /\ d \in usbPlugged
  /\ usbPlugged' = usbPlugged \ {d}
  /\ UNCHANGED <<usbOpened, usbKnown, usbMarked, usbWanted, usbAccepted, usbTimer, usbPosted,
                 usbFreed, usbUpgraded, usbStale, usbFailed, usbEvents>>

\* The pending read fails and the endpoint is destroyed.  It closes its device
\* first, so that free_endpoint finds no handle and frees nothing.
UsbLost(d) ==
  /\ d \in usbOpened \ usbPlugged
  /\ usbOpened' = usbOpened \ {d}
  /\ usbMarked' = Unmarked(d)
  /\ UNCHANGED <<usbPlugged, usbKnown, usbWanted, usbAccepted, usbTimer, usbPosted, usbFreed,
                 usbUpgraded, usbStale, usbFailed, usbEvents>>

\* The last callback of a firmware upgrade frees the device, whose handle is
\* open, and lifts a pause; the robot restarts and the endpoint is destroyed.
UsbUpgradeEnds(d) ==
  /\ d \in usbOpened
  /\ UsbEvent
  /\ usbPlugged' = usbPlugged \ {d}
  /\ usbOpened' = usbOpened \ {d}
  /\ usbMarked' = Unmarked(d)
  /\ usbFreed' = usbFreed \cup {d}
  /\ usbPosted' = TRUE
  /\ usbUpgraded' = TRUE
  /\ UNCHANGED <<usbKnown, usbWanted, usbAccepted, usbTimer, usbStale, usbFailed>>

UsbNext ==
  \/ \E d \in UsbDevices : \/ UsbPlug(d) \/ UsbUnplug(d) \/ UsbLost(d)
                           \/ UsbUpgradeEnds(d) \/ UsbFree(d)
  \/ UsbTimer \/ UsbPosted \/ UsbAccept

\* Timers expire, posted handlers run, and the read of a device that is gone
\* fails.
UsbFair ==
  /\ WF_usbVars(UsbTimer) /\ WF_usbVars(UsbPosted) /\ WF_usbVars(UsbAccept)
  /\ \A d \in UsbDevices : WF_usbVars(UsbLost(d)) /\ WF_usbVars(UsbFree(d))

UsbSpec == UsbInit /\ [][UsbNext]_usbVars /\ UsbFair

-----------------------------------------------------------------------------
Outage(d) == d \in usbStale \cup usbFailed

\* A robot that is plugged in becomes available in the end: the acceptance
\* procedure's "disconnect/reconnect USB and confirm the device becomes
\* available again".  A device whose open failed, or that got the address of
\* one still on the list of known devices, is left out.
UsbReconnects ==
  \A d \in UsbDevices :
    []<>(d \in usbPlugged => d \in usbOpened \/ Outage(d))

\* The same as long as no firmware upgrade has ended: whatever the order of
\* plugging, unplugging and failed opens, the enumeration comes back to every
\* device, also when it stopped before reaching it.
UsbServedInTheEnd ==
  \A d \in UsbDevices :
    []<>(d \in usbPlugged => d \in usbOpened \/ Outage(d) \/ usbUpgraded)

\* A device never has two endpoints: what the server is about to open is marked
\* as open and has no endpoint yet, and every endpoint's device is marked, so
\* that no enumeration offers it again, although the list of known devices
\* forgets devices that are in use.
UsbOffersFree ==
  /\ usbAccepted # NoDevice => usbAccepted \in usbMarked \ usbOpened
  /\ usbOpened \subseteq usbMarked
=============================================================================
