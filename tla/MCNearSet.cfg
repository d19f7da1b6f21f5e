SPECIFICATION Spec
CONSTANTS
    Players = {p, q}
    Spots <- MCSpots
    View = 1
    Reach = 2
    SectorOf <- MCSectorOf
    Scans <- MCScans
SYMMETRY Symmetry
INVARIANT NullNeedsLogout
INVARIANT EntryTracked
CHECK_DEADLOCK FALSE
