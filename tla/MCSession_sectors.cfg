SPECIFICATION Spec
CONSTANTS
    t1 = t1
    t2 = t2
    c1 = c1
    c2 = c2
    c3 = c3
    i1 = i1
    i2 = i2
    NoConn = NoConn
    NoId = NoId
    NoSector = NoSector
    Threads <- TwoThreads
    Conns <- TwoConns
    Ids <- OneId
    IdQueue <- OneIdQueue
    Sectors = {s1, s2}
SYMMETRY Symmetry
INVARIANT SectorsFollowPlayers
CHECK_DEADLOCK FALSE
