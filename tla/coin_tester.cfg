SPECIFICATION LiveSpec
CONSTANTS
    Raidas = 5
    FirstFree = 3
    WatchedMax = 8
    KeyFiles <- AnyKey
INVARIANTS
    TypeOK
    SuccessIsFromAsked
PROPERTIES
    FailMeansSilence
    SweepEnds
CHECK_DEADLOCK FALSE
