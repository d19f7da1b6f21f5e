SPECIFICATION ScanSpec
CONSTANTS
    Unit = 4
    ViewW = 10
    ViewH = 5
    MapW = 30
    MapH = 15
    Reach = 3
INVARIANT FindsClose
