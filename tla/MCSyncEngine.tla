---------------------------- MODULE MCSyncEngine ----------------------------
(***************************************************************************)
(* Instances of SyncEngine: one device, and the server's own routes with   *)
(* a clock of their own.                                                   *)
(***************************************************************************)
EXTENDS SyncEngine, TLC

CONSTANTS d1, server

OneDevice == d1 :> {3, 5, 6} @@ server :> {2, 4}

NoReferences == [k \in Keys |-> 0]
DocumentRows == <<0, 1, 1>>
=============================================================================
