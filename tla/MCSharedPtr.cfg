SPECIFICATION Spec
CONSTANTS
    t1 = t1
    t2 = t2
    b1 = b1
    b2 = b2
    p1 = p1
    p2 = p2
    p3 = p3
    s1 = s1
    s2 = s2
    k1 = k1
    k2 = k2
    Null = Null
    Threads <- TwoThreads
    Slots <- TwoSlots
    Copies <- TwoCopies
    Blocks <- TwoBlocks
    Players <- ThreePlayers
SYMMETRY Symmetry
INVARIANT TypeOK
INVARIANT CountsReferences
INVARIANT ReferencesAlive
INVARIANT PlayerNotForgotten
PROPERTY KeepsOwnership
PROPERTY RecyclesOnce
CHECK_DEADLOCK FALSE
