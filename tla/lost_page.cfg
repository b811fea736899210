CONSTANTS
    f1 = f1  f2 = f2  f3 = f3
    Header = Header  EndMark = EndMark
    Files <- TwoFiles
    Creatable <- TwoFiles
    Lengths = {1}
    AgentFramesMax = 1
    Faults <- OneLoss
    FilesCountMax = 2
    IdsPerFrame = 2
    TzShifts <- Utc
    MaxVersion = 1
    Removals = FALSE
    MaxRuns = 2
    RunsForever = FALSE
    MaxTime = 2
    Timely = TRUE
    QuietRuns = TRUE
SPECIFICATION Spec
PROPERTIES NoChangesMeansSynchronized
CHECK_DEADLOCK FALSE
