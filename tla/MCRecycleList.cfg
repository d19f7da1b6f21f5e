SPECIFICATION FairSpec
CONSTANTS
    Threads = {t1, t2, t3}
    Blocks = {b1, b2, b3}
    NoBlock = NoBlock
INVARIANT TypeOK
INVARIANT BlockInOnePlace
PROPERTY KeepsPromise
PROPERTY CallReturns
CHECK_DEADLOCK FALSE
