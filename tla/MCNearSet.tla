------------------------------ MODULE MCNearSet ------------------------------
(***************************************************************************)
(* Two players, three spots and two sectors.  Neighbours see each other,   *)
(* but spot 0 scans its own sector only, although it sees into the other   *)
(* one, as a position more than WORLD_SECTOR_LEFT_EDGE away from the       *)
(* border does.                                                            *)
(***************************************************************************)
EXTENDS NearSet, TLC

MCSpots == 0 .. 2
MCSectorOf == [s \in MCSpots |-> IF s = 0 THEN "left" ELSE "right"]
MCScans ==
    [s \in MCSpots |->
        CASE s = 0 -> <<"left">>
          [] s = 1 -> <<"left", "right">>
          [] s = 2 -> <<"right">>]

Symmetry == Permutations(Players)

=============================================================================
