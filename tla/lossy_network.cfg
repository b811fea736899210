CONSTANTS
    f1 = f1  f2 = f2  f3 = f3
    Header = Header  EndMark = EndMark
    Files <- TwoFiles
    Creatable <- TwoFiles
    Lengths = {1, 3}
    AgentFramesMax = 3
    Faults <- LossAndKill
    FilesCountMax = 2
    IdsPerFrame = 2
    TzShifts <- Utc
    MaxVersion = 2
    Removals = FALSE
    MaxRuns = 2
    RunsForever = FALSE
    MaxTime = 2
    Timely = FALSE
    QuietRuns = FALSE
SPECIFICATION Spec
INVARIANTS FileIntegrity
PROPERTIES ImplementsReplica UpToDateIsKept
CHECK_DEADLOCK FALSE
SYMMETRY FilesSymmetry
