SPECIFICATION FairSpec
CONSTANTS
    Threads = {t1, t2}
    Players = {p1, p2}
    NoPlayer = NoPlayer
    MaxChains = 2
INVARIANT AwakeHasChain
INVARIANT SecondChainNeedsWalker
PROPERTY AwakeIsServed
CHECK_DEADLOCK FALSE
