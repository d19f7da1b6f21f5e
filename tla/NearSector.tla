----------------------------- MODULE NearSector -----------------------------
(***************************************************************************)
(* Which sectors a scan visits.  A position is cut to whole units, and the *)
(* neighbours of its sector are scanned on those sides whose border is     *)
(* close.  Positions are fixed-point numbers, Unit to the whole.           *)
(***************************************************************************)
EXTENDS Integers

CONSTANTS
    Unit,           \* fractions of a whole unit
    ViewW, ViewH,   \* PLAYER_VIEW_SIZE_*, in fractions
    MapW, MapH,     \* WORLD_MAP_SIZE_*, in whole units
    Reach           \* how far one move takes a player

\* WORLD_SECTOR_*_SIZE: four views, in whole units
SectorSize(view) == (4 * view) \div Unit

\* WORLD_SECTOR_NUM_*
NumSectors(map, view) == map \div SectorSize(view)

Fits(map, view) ==
    /\ view \in Nat /\ view >= Unit
    /\ map \in Nat \ {0} /\ map % SectorSize(view) = 0

ASSUME UnitAssumption == Unit \in Nat \ {0}
ASSUME ViewAssumption == Fits(MapW, ViewW) /\ Fits(MapH, ViewH)
ASSUME ReachAssumption == Reach \in Nat

VARIABLES
    x, y,   \* Object::x, Object::y of a player
    found   \* what Get_near_sector returned for them

scanVars == <<x, y, found>>

\* Terrain_Manager::Can_move
OnMap(px, py) == px \in 0 .. (MapW - 1) * Unit /\ py \in 0 .. (MapH - 1) * Unit

\* The column or row of a position, of which Get_Sector makes an index.
Cell(p, view) == (p \div Unit) \div SectorSize(view)

Index(cx, cy) == cx + cy * NumSectors(MapW, ViewW)
Get_Sector(px, py) == Index(Cell(px, ViewW), Cell(py, ViewH))

InLowEdge(off, view) == off * Unit < view
InHighEdge(off, view) == SectorSize(view) * Unit - view < off * Unit

\* The columns, or the rows, that are scanned: the left or top edge is tested
\* first, and at the border of the world there is nothing to add.
Cells(p, view, map) ==
    LET cell == Cell(p, view)
        off == (p \div Unit) % SectorSize(view)
        side == IF InLowEdge(off, view) THEN {cell - 1}
                ELSE IF InHighEdge(off, view) THEN {cell + 1} ELSE {}
    IN  {cell} \cup (side \cap 0 .. NumSectors(map, view) - 1)

\* Bug variant: the sector across the corner is left out.
Get_near_sectorCross(px, py) ==
    {Index(cx, Cell(py, ViewH)) : cx \in Cells(px, ViewW, MapW)} \cup
    {Index(Cell(px, ViewW), cy) : cy \in Cells(py, ViewH, MapH)}

Get_near_sector(px, py) ==
    {Index(cx, cy) : cx \in Cells(px, ViewW, MapW), cy \in Cells(py, ViewH, MapH)}

\* A player is created at a whole position; the accept handler scans there.
ScanInit ==
    /\ \E i \in 0 .. MapW - 1, j \in 0 .. MapH - 1 : x = i * Unit /\ y = j * Unit
    /\ found = Get_near_sector(x, y)

\* Player::Move: Can_move refuses what is off the map, and the player is put
\* back; Get_Objects__Update_Near_set scans around the new position.
ScanMove(nx, ny) ==
    /\ OnMap(nx, ny)
    /\ x' = nx /\ y' = ny
    /\ found' = Get_near_sector(nx, ny)

ScanNext == \E nx \in x - Reach .. x + Reach, ny \in y - Reach .. y + Reach : ScanMove(nx, ny)

ScanSpec == ScanInit /\ [][ScanNext]_scanVars

-----------------------------------------------------------------------------
(* Property *)

\* Close by: no farther than the view to the left and up, and than the view
\* less one whole unit to the right and down, where cutting the position
\* loses up to one.
CloseBy(p, view) == p - view .. p + view - Unit

\* A scan visits the sector of every object that is close.  The objects that
\* is_near accepts reach farther, and some of those are not met.
FindsClose ==
    \A ox \in CloseBy(x, ViewW), oy \in CloseBy(y, ViewH) :
        OnMap(ox, oy) => Get_Sector(ox, oy) \in found

=============================================================================
