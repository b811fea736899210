CONSTANTS
    f1 = f1  f2 = f2  f3 = f3
    Header = Header  EndMark = EndMark
    Files <- ThreeFiles
    Creatable <- ThreeFiles
    Lengths = {1, 2, 3}
    AgentFramesMax = 3
    Faults <- LossAndFullDisk
    FilesCountMax = 3
    IdsPerFrame = 3
    TzShifts <- Utc
    MaxVersion = 1
    Removals = FALSE
    MaxRuns = 2
    RunsForever = FALSE
    MaxTime = 2
    Timely = TRUE
    QuietRuns = TRUE
SPECIFICATION Spec
INVARIANTS LossCostsOneFile
PROPERTIES WrittenFileIsWhole
CHECK_DEADLOCK FALSE
SYMMETRY FilesSymmetry
