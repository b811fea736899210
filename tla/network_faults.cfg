CONSTANTS
    f1 = f1  f2 = f2  f3 = f3
    Header = Header  EndMark = EndMark
    Files <- TwoFiles
    Creatable <- TwoFiles
    Lengths = {2}
    AgentFramesMax = 2
    Faults <- NetworkFaults
    FilesCountMax = 2
    IdsPerFrame = 1
    TzShifts <- Utc
    MaxVersion = 2
    Removals = TRUE
    MaxRuns = 1
    RunsForever = FALSE
    MaxTime = 1
    Timely = FALSE
    QuietRuns = FALSE
SPECIFICATION FairSpec
INVARIANTS TypeOK
PROPERTIES AgentTerminates
CHECK_DEADLOCK FALSE
