----------------------------- MODULE MCClientView -----------------------------
(* An instance of ClientView for TLC: one robot on a cable, two clients. *)
EXTENDS ClientView, TLC

CONSTANTS n1, cable, a1, a2, u1, t1

CableEndpointOf == n1 :> cable
CableStored     == n1 :> u1

AskUpgrade == [op : {"handshake", "list"}, id : {Nil}]
              \cup [op : {"lock", "unlock", "upgrade"}, id : {u1}]
=============================================================================
