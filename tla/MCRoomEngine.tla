---------------------------- MODULE MCRoomEngine -----------------------------
(***************************************************************************)
(* Instances of RoomEngine for TLC: h is the host, p and q are peers.  The *)
(* names sort p, h, q, except where p and q use the same display name.     *)
(***************************************************************************)
EXTENDS RoomProperties

CONSTANTS h, p, q

MCNameOf == [s \in Session |-> IF s = h THEN 2 ELSE IF s = p THEN 1 ELSE 3]
MCSameName == [s \in Session |-> IF s = h THEN 2 ELSE 1]
=============================================================================
