------------------------------ MODULE MCRobots ------------------------------
(***************************************************************************)
(* One instance of each module about a robot's link, its node and the      *)
(* messages to a client.  A behaviour runs one of them, chosen at the      *)
(* start; the others stay in their initial states.                         *)
(***************************************************************************)
EXTENDS NodeDiscovery, NodeDebugger, NodeVariables, SerialPorts, UsbPorts, TcpContacts,
        FirmwareUpgrade, FirmwareService, UsbTransfers, AppSession, EndpointWriter, NodeHealth

VARIABLE part

robotsVars == <<part, discoveryVars, debuggerVars, variablesVars, portsVars, usbVars, contactsVars,
                upgradeVars, firmwareVars, transferVars, sessionVars, writerVars, healthVars>>

-----------------------------------------------------------------------------
(* The values of the constants. *)

MCDescribed == [variables |-> <<"v1", "v2">>, events |-> <<"e1">>, functions |-> <<"f1">>]

\* The line of each word: five words of event table, then two lines of code.
MCCode == [none |-> <<>>, broken |-> <<>>, user |-> <<0, 0, 0, 0, 0, 1, 1, 2>>,
           motors |-> <<0, 0, 0, 0, 0, 1, 2>>]
MCLineSets == {<<>>, <<2>>, <<2, 3>>, <<3, 7>>}

Var(n, at, k) == [name |-> n, start |-> at, size |-> k]
MCLayouts ==
  [description |-> <<Var("_fwversion", 0, 1), Var("b", 1, 2)>>,
   one |-> <<Var("_fwversion", 0, 1), Var("b", 1, 2), Var("c", 3, 1)>>,
   two |-> <<Var("_fwversion", 0, 1), Var("c", 1, 1), Var("b", 2, 2)>>]

MCPortOrder == <<"p", "q">>
MCUsbOrder == <<"d1", "d2">>

Contact(aseba, local, thymio3, port, host) ==
  [aseba |-> aseba, local |-> local, thymio3 |-> thymio3, port |-> port, host |-> host]
MCContacts == {Contact(TRUE, TRUE, FALSE, 1, 0), Contact(TRUE, FALSE, TRUE, 1, 1),
               Contact(TRUE, FALSE, FALSE, 2, 1), Contact(FALSE, TRUE, FALSE, 2, 0)}

MCFwVersion == [r \in FwRobots |-> CASE r = "old" -> 13 [] r = "mid" -> 12 [] OTHER -> 14]

MCPatience == [connected |-> 25, available |-> 5]

-----------------------------------------------------------------------------
RobotsInit ==
  /\ part \in {"discovery", "debugger", "variables", "ports", "usb", "contacts", "upgrade",
               "firmware", "transfers", "session", "writer", "health"}
  /\ DiscoveryInit /\ (part = "discovery" \/ (protocol = 5 /\ ~cable))
  /\ DebuggerInit /\ VariablesInit
  /\ PortsInit /\ (part = "ports" \/ (platform = "osx" /\ plugged = {}))
  /\ UsbInit /\ (part = "usb" \/ usbPlugged = {})
  /\ ContactsInit
  /\ UpgradeInit /\ (part = "upgrade" \/ link = "usb")
  /\ FirmwareInit /\ TransfersInit /\ SessionInit /\ WriterInit
  /\ HealthInit /\ (part = "health" \/ (wirelessLink /\ ~onAir))

RobotsNext ==
  \/ /\ part = "discovery" /\ DiscoveryNext
     /\ UNCHANGED <<part, debuggerVars, variablesVars, portsVars, usbVars, contactsVars, upgradeVars,
                    firmwareVars, transferVars, sessionVars, writerVars, healthVars>>
  \/ /\ part = "debugger" /\ DebuggerNext
     /\ UNCHANGED <<part, discoveryVars, variablesVars, portsVars, usbVars, contactsVars, upgradeVars,
                    firmwareVars, transferVars, sessionVars, writerVars, healthVars>>
  \/ /\ part = "variables" /\ VariablesNext
     /\ UNCHANGED <<part, discoveryVars, debuggerVars, portsVars, usbVars, contactsVars, upgradeVars,
                    firmwareVars, transferVars, sessionVars, writerVars, healthVars>>
  \/ /\ part = "ports" /\ PortsNext
     /\ UNCHANGED <<part, discoveryVars, debuggerVars, variablesVars, usbVars, contactsVars,
                    upgradeVars, firmwareVars, transferVars, sessionVars, writerVars, healthVars>>
  \/ /\ part = "usb" /\ UsbNext
     /\ UNCHANGED <<part, discoveryVars, debuggerVars, variablesVars, portsVars, contactsVars,
                    upgradeVars, firmwareVars, transferVars, sessionVars, writerVars, healthVars>>
  \/ /\ part = "contacts" /\ ContactsNext
     /\ UNCHANGED <<part, discoveryVars, debuggerVars, variablesVars, portsVars, usbVars, upgradeVars,
                    firmwareVars, transferVars, sessionVars, writerVars, healthVars>>
  \/ /\ part = "upgrade" /\ UpgradeNext
     /\ UNCHANGED <<part, discoveryVars, debuggerVars, variablesVars, portsVars, usbVars,
                    contactsVars, firmwareVars, transferVars, sessionVars, writerVars, healthVars>>
  \/ /\ part = "firmware" /\ FirmwareNext
     /\ UNCHANGED <<part, discoveryVars, debuggerVars, variablesVars, portsVars, usbVars,
                    contactsVars, upgradeVars, transferVars, sessionVars, writerVars, healthVars>>
  \/ /\ part = "transfers" /\ TransfersNext
     /\ UNCHANGED <<part, discoveryVars, debuggerVars, variablesVars, portsVars, usbVars,
                    contactsVars, upgradeVars, firmwareVars, sessionVars, writerVars, healthVars>>
  \/ /\ part = "session" /\ SessionNext
     /\ UNCHANGED <<part, discoveryVars, debuggerVars, variablesVars, portsVars, usbVars,
                    contactsVars, upgradeVars, firmwareVars, transferVars, writerVars, healthVars>>
  \/ /\ part = "writer" /\ WriterNext
     /\ UNCHANGED <<part, discoveryVars, debuggerVars, variablesVars, portsVars, usbVars,
                    contactsVars, upgradeVars, firmwareVars, transferVars, sessionVars, healthVars>>
  \/ /\ part = "health" /\ HealthNext
     /\ UNCHANGED <<part, discoveryVars, debuggerVars, variablesVars, portsVars, usbVars,
                    contactsVars, upgradeVars, firmwareVars, transferVars, sessionVars, writerVars>>

\* What goes on by itself in each part: a timer that is set expires, a handler
\* that is posted runs, a transfer, a request and a thread's step end, and a
\* robot answers what reaches it.
RobotsFair ==
  /\ WF_discoveryVars(part = "discovery" /\ ResendExpires)
  /\ WF_discoveryVars(part = "discovery" /\ (RobotAnswers \/ HandleDeviceInfo \/ HandleDescription))
  /\ WF_debuggerVars(part = "debugger" /\ MessageWritten)
  /\ WF_debuggerVars(part = "debugger" /\ (OnExecutionState \/ OnRuntimeError \/ OnBreakpointSetResult))
  /\ WF_debuggerVars(part = "debugger" /\ StatusTimer)
  /\ WF_debuggerVars(part = "debugger" /\ DestroyNode)
  /\ WF_variablesVars(part = "variables" /\ VariablesTimer)
  /\ WF_variablesVars(part = "variables" /\ RobotServes)
  /\ WF_variablesVars(part = "variables" /\ OnVariables)
  /\ WF_portsVars(part = "ports" /\ PostedEnumeration)
  /\ WF_portsVars(part = "ports" /\ ActiveTimer)
  /\ WF_portsVars(part = "ports" /\ AcceptHandler)
  /\ \A p \in Ports : /\ WF_portsVars(part = "ports" /\ PortLost(p))
                       /\ WF_portsVars(part = "ports" /\ UpgradeEnds(p))
                       /\ WF_portsVars(part = "ports" /\ FreeDevice(p))
  /\ WF_usbVars(part = "usb" /\ UsbTimer)
  /\ WF_usbVars(part = "usb" /\ UsbPosted)
  /\ WF_usbVars(part = "usb" /\ UsbAccept)
  /\ \A d \in UsbDevices : /\ WF_usbVars(part = "usb" /\ UsbLost(d))
                            /\ WF_usbVars(part = "usb" /\ UsbFree(d))
  /\ WF_contactsVars(part = "contacts" /\ AnnouncePosted)
  /\ WF_contactsVars(part = "contacts" /\ DoAccept)
  /\ WF_upgradeVars(part = "upgrade" /\ (OpenDevice \/ SendPage \/ ReadAck \/ AckTimeout))
  /\ WF_upgradeVars(part = "upgrade" /\ Bootloader)
  /\ WF_firmwareVars(part = "firmware" /\ InfoAnswered)
  /\ WF_firmwareVars(part = "firmware" /\ DataAnswered)
  /\ \A r \in FwRobots : WF_firmwareVars(part = "firmware" /\ VersionPosted(r))
  /\ WF_transferVars(part = "transfers" /\ (ListTransfer \/ SubmitAgain \/ TransferCancelled
                                              \/ ReadHandler))
  /\ WF_sessionVars(part = "session" /\ HandleWrite)
  /\ WF_writerVars(part = "writer" /\ (EndpointHandleWrite \/ HandleWriteError))
  /\ WF_healthVars(part = "health" /\ (Second \/ SendPing \/ HealthCheck))
  /\ WF_healthVars(part = "health" /\ NodeAnswers)

RobotsSpec == RobotsInit /\ [][RobotsNext]_robotsVars /\ RobotsFair
=============================================================================
