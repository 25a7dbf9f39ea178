--------------------------- MODULE MCDeviceManager ---------------------------
(* Instances of DeviceManager for TLC. *)
EXTENDS DeviceManager, TLC

CONSTANTS n1, n2, n3, dongle, cable, a1, a2, u1, u2, t1, t2, t3

\* One robot seen twice: through the dongle, then through a cable.
MovedEndpointOf == n1 :> dongle @@ n2 :> cable
MovedStored     == n1 :> u1 @@ n2 :> u1

\* A robot that has a uuid, and one that has none.
CableEndpointOf == n1 :> cable
CableStored     == n1 :> u1
BlankStored     == n1 :> Nil

\* Two robots on a dongle, one of which is then plugged in; the other has a
\* uuid, or is not asked for one.
PairEndpointOf == n1 :> dongle @@ n2 :> dongle @@ n3 :> cable
PairStored     == n1 :> u1 @@ n2 :> u2 @@ n3 :> u1
PairSilent     == n1 :> u1 @@ n2 :> Silent @@ n3 :> u1

Handshake  == [op |-> "handshake", id |-> Nil]
OnlyHandshake == {Handshake}
LockUnlock(S) == {Handshake} \cup [op : {"lock", "unlock"}, id : S]
AskRobot   == LockUnlock({u1})
AskBlank   == LockUnlock({t1, t2, t3})
AskUpgrade == AskRobot \cup [op : {"upgrade"}, id : {u1}]

AppSymmetry   == Permutations({a1, a2})
Symmetry      == AppSymmetry \cup Permutations({t1, t2})
BlankSymmetry == AppSymmetry \cup Permutations({t1, t2, t3})
=============================================================================
