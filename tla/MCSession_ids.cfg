SPECIFICATION Spec
CONSTANTS
    t1 = t1
    t2 = t2
    c1 = c1
    c2 = c2
    c3 = c3
    i1 = i1
    i2 = i2
    NoConn = NoConn
    NoId = NoId
    NoSector = NoSector
    Threads <- TwoThreads
    Conns <- ThreeConns
    Ids <- TwoIds
    IdQueue <- TwoIdQueue
    Sectors = {s1}
SYMMETRY Symmetry
INVARIANT TypeOK
INVARIANT IdHeldOnce
INVARIANT IdNotForgotten
INVARIANT HandlerServesItsPlayer
INVARIANT AcceptedOnce
INVARIANT TablesAgree
INVARIANT HealthyKickNeedsReuse
PROPERTY SlotNeverReplaced
CHECK_DEADLOCK FALSE
