---------------------------- MODULE MCNearSector ----------------------------
(***************************************************************************)
(* Three by three sectors, with edges that fall between whole units.       *)
(***************************************************************************)
EXTENDS NearSector
=============================================================================
