SPECIFICATION Spec
CONSTANTS
    Half = 65536
    MyIdCoins = 255
    CoinOwners = 254
    Tables = {0, 1, 4}
    MaxReport = 3
    MaxRuns = 2
    Tree <- SmallSerials
CHECK_DEADLOCK FALSE
INVARIANTS
    TypeOK
    OpensReportedFile
    WritesOpenedFile
