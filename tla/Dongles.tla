-------------------------------- MODULE Dongles --------------------------------
(****************************************************************************)
(* Configuring wireless dongles (wireless_configurator_service) and pairing *)
(* robots with them (app_endpoint).  In pairing mode every wireless         *)
(* endpoint is closed and the dongles it used are listed for the clients; a *)
(* pairing request writes the radio settings into a dongle, reads them      *)
(* back, and sends them to the robot.                                       *)
(****************************************************************************)
EXTENDS Integers, FiniteSets

CONSTANTS DongleKeys,       \* USB devices of the dongles
          DongleIds,        \* identifiers generated for listed dongles
          PairClients, PairRobots,
          RobotProtocol,    \* robot -> protocol version of its firmware
          Networks, Channels,
          MaxDongleEvents   \* bound: requests, plugs and unplugs

ASSUME DonglesOK ==
  /\ RobotProtocol \in [PairRobots -> Nat]
  /\ Networks \subseteq Nat /\ Channels \subseteq 0..255
  /\ MaxDongleEvents \in Nat

VARIABLES pairingOn,      \* m_enabled
          present,        \* dongles plugged in
          wireless,       \* dongles some endpoint is running on
          listed,         \* m_dongles: key -> {} or {[id, network, channel]}
          flash,          \* the settings in a dongle's memory
          radio,          \* the settings in a robot's memory
          subscribers,    \* connections to wireless_dongles_changed: client -> number
          unplugSeen,     \* device_unplugged is connected
          clients,        \* connected clients
          shown,          \* client -> the list it was last sent in this pairing mode
          paired,         \* dongle and robot a client was told are paired
          mistaken,       \* dongles whose recorded network was refused half way
          dangling,       \* the signal called an application that is gone
          dongleEvents

donglesVars == <<pairingOn, present, wireless, listed, flash, radio, subscribers, unplugSeen,
                 clients, shown, paired, mistaken, dangling, dongleEvents>>

\* data.channel as it is sent to the dongle and read back from it.
ToDongle(channel) == 15 + 5 * channel
FromDongle(channel) == (channel - 15) \div 5

AllListed(l) == UNION {l[k] : k \in DongleKeys}

\* wireless_dongles_changed: every connected application sends the list.
DonglesChanged(l) ==
  /\ shown' = [c \in PairClients |->
                 IF subscribers[c] > 0 /\ c \in clients THEN AllListed(l) ELSE shown[c]]
  /\ dangling' = (dangling \/ \E c \in PairClients \ clients : subscribers[c] > 0)

DongleEvent == dongleEvents < MaxDongleEvents /\ ~dangling /\ dongleEvents' = dongleEvents + 1

DonglesInit ==
  /\ pairingOn = FALSE
  /\ present = {} /\ wireless = {} /\ paired = {} /\ mistaken = {}
  /\ listed = [k \in DongleKeys |-> {}]
  /\ flash = [k \in DongleKeys |-> [network |-> 0, channel |-> ToDongle(0)]]
  /\ radio = [r \in PairRobots |-> [network |-> 0, channel |-> 0]]
  /\ subscribers = [c \in PairClients |-> 0]
  /\ unplugSeen = FALSE /\ dangling = FALSE
  /\ clients = PairClients
  /\ shown = [c \in PairClients |-> {}]
  /\ dongleEvents = 0

-----------------------------------------------------------------------------
\* EnableThymio2PairingMode: ignored when the mode is on already, also for an
\* application that is not connected to the signal.
EnablePairing(c) ==
  /\ c \in clients /\ DongleEvent
  /\ IF pairingOn
       THEN UNCHANGED <<pairingOn, subscribers, unplugSeen, wireless, shown>>
       ELSE /\ pairingOn' = TRUE
            /\ subscribers' = [subscribers EXCEPT ![c] = @ + 1]
            /\ unplugSeen' = TRUE
            /\ wireless' = {}
            /\ shown' = [d \in PairClients |-> {}]
  /\ UNCHANGED <<present, listed, flash, radio, clients, paired, mistaken, dangling>>

DisablePairing(c) ==
  /\ c \in clients /\ DongleEvent
  /\ pairingOn' = FALSE
  /\ IF pairingOn THEN /\ listed' = [k \in DongleKeys |-> {}]
                       /\ wireless' = {} /\ mistaken' = {}
                  ELSE UNCHANGED <<listed, wireless, mistaken>>
  /\ UNCHANGED <<present, flash, radio, subscribers, unplugSeen, clients, shown, paired,
                 dangling>>

ClientGone(c) ==
  /\ c \in clients /\ DongleEvent
  /\ clients' = clients \ {c}
  /\ UNCHANGED <<pairingOn, present, wireless, listed, flash, radio, subscribers, unplugSeen,
                 shown, paired, mistaken, dangling>>

\* A dongle is offered to the server: outside pairing mode an endpoint starts on
\* it, in pairing mode its settings are read (sync) and it is listed; when that
\* fails the device is released and nothing changes.
DongleAccepted(k) ==
  /\ ~dangling
  /\ k \in present \ wireless /\ listed[k] = {}
  /\ IF ~pairingOn
       THEN /\ wireless' = wireless \cup {k}
            /\ UNCHANGED <<listed, shown, dangling>>
       ELSE \E id \in DongleIds \ {d.id : d \in AllListed(listed)} :
              /\ listed' = [listed EXCEPT ![k] =
                   {[id |-> id, network |-> flash[k].network,
                     channel |-> FromDongle(flash[k].channel)]}]
              /\ DonglesChanged(listed')
              /\ UNCHANGED wireless
  /\ UNCHANGED <<pairingOn, present, flash, radio, subscribers, unplugSeen, clients, paired,
                 mistaken, dongleEvents>>

DonglePlugged(k) ==
  /\ k \notin present /\ DongleEvent
  /\ present' = present \cup {k}
  /\ UNCHANGED <<pairingOn, wireless, listed, flash, radio, subscribers, unplugSeen, clients,
                 shown, paired, mistaken, dangling>>

Forgotten_Silently(k) ==
  IF unplugSeen /\ listed[k] # {}
    THEN /\ listed' = [listed EXCEPT ![k] = {}]
         /\ UNCHANGED <<shown, dangling>>
    ELSE UNCHANGED <<listed, shown, dangling>>

\* device_unplugged.
Forgotten(k) ==
  IF unplugSeen /\ listed[k] # {}
    THEN /\ listed' = [listed EXCEPT ![k] = {}]
         /\ DonglesChanged(listed')
    ELSE UNCHANGED <<listed, shown, dangling>>

DongleUnplugged(k) ==
  /\ k \in present /\ DongleEvent
  /\ present' = present \ {k}
  /\ wireless' = wireless \ {k}
  /\ mistaken' = mistaken \ {k}
  /\ Forgotten(k)
  /\ UNCHANGED <<pairingOn, flash, radio, subscribers, unplugSeen, clients, paired>>

Verified_Written(k, s) == TRUE

\* The settings read back are those that were asked for.
Verified(k, s) == flash'[k] = s

\* configure_dongle with a channel in range: the settings are written, the
\* dongle keeps them or not, and each of the two exchanges may fail.
WriteDongle(k, network, channel) ==
  LET s == [network |-> network, channel |-> ToDongle(channel)]
  IN  \E keeps, answers \in BOOLEAN :
        /\ flash' = IF keeps THEN [flash EXCEPT ![k] = s] ELSE flash
        /\ LET done == answers /\ Verified(k, s)
           IN  /\ listed' = [listed EXCEPT ![k] =
                    IF done THEN {[d EXCEPT !.network = network, !.channel = channel] : d \in @}
                            ELSE {}]
               /\ mistaken' = mistaken \ {k}
               /\ DonglesChanged(listed')

\* ... out of range: refused, with the new network already recorded.
RefuseChannel(k, network) ==
  /\ listed' = [listed EXCEPT ![k] = {[d EXCEPT !.network = network] : d \in @}]
  /\ mistaken' = mistaken \cup {k}
  /\ UNCHANGED <<flash, shown, dangling>>

\* set_rf_settings: a firmware that does not know the request refuses it.
SetRfSettings(r, s) == [radio EXCEPT ![r] = IF RobotProtocol[r] < 9 THEN @ ELSE s]

\* pair_thymio2_and_dongle.
PairRequest(c, r, k, network, channel) ==
  /\ c \in clients /\ listed[k] # {} /\ DongleEvent
  /\ IF channel > 2
       THEN /\ RefuseChannel(k, network)
            /\ UNCHANGED <<radio, paired>>
       ELSE /\ WriteDongle(k, network, channel)
            /\ LET s == [network |-> network, channel |-> channel]
                   others == {p \in paired : p[1] # k /\ p[2] # r}
               IN  IF listed'[k] = {}
                     THEN /\ paired' = {p \in paired : p[1] # k}
                          /\ UNCHANGED radio
                     ELSE /\ radio' = SetRfSettings(r, s)
                          /\ paired' = IF RobotProtocol[r] < 9
                                         THEN {p \in paired : p[1] # k}
                                         ELSE others \cup {<<k, r>>}
  /\ UNCHANGED <<pairingOn, present, wireless, subscribers, unplugSeen, clients>>

DonglesNext ==
  \/ \E c \in PairClients : EnablePairing(c) \/ DisablePairing(c) \/ ClientGone(c)
  \/ \E k \in DongleKeys : DongleAccepted(k) \/ DonglePlugged(k) \/ DongleUnplugged(k)
  \/ \E c \in PairClients, r \in PairRobots, k \in DongleKeys, n \in Networks, h \in Channels :
       PairRequest(c, r, k, n, h)

-----------------------------------------------------------------------------
\* A client that was told that a robot and a dongle are paired was told the
\* truth: the settings in the memory of the two are the same, until one of the
\* two is configured again, even if the dongle ignored what was written.
PairedAgree ==
  \A p \in paired : radio[p[2]] = [network |-> flash[p[1]].network,
                                   channel |-> FromDongle(flash[p[1]].channel)]

\* A connected client that switched the pairing mode on sees the dongles that
\* are plugged in with the settings they have, after every plug, unplug and
\* pairing, except for a network recorded with a refused channel.
DonglesShown ==
  ~dangling /\ pairingOn =>
    /\ \A k \in DongleKeys \ mistaken, d \in AllListed(listed) : d \in listed[k] =>
         /\ k \in present
         /\ d.network = flash[k].network /\ d.channel = FromDongle(flash[k].channel)
    /\ mistaken = {} =>
         \A c \in clients : subscribers[c] > 0 => shown[c] = AllListed(listed)
=============================================================================
