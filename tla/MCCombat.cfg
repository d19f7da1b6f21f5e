SPECIFICATION Spec
CONSTANTS
    Attackers = {a1, a2}
    InitHp = 4
    Str = 1
    Unseen = Unseen
SYMMETRY Symmetry
INVARIANT BlowsAddUp
INVARIANT KillTold
INVARIANT ShownHp
INVARIANT SightKept
CHECK_DEADLOCK FALSE
