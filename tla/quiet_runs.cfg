\* Reliable and timely network, the mirror changes between runs only.
CONSTANTS
    f1 = f1  f2 = f2  f3 = f3
    Header = Header  EndMark = EndMark
    Files <- TwoFiles
    Creatable <- TwoFiles
    Lengths = {0, 1, 2}
    AgentFramesMax = 2
    Faults <- NoFaults
    FilesCountMax = 2
    IdsPerFrame = 1
    TzShifts <- Utc
    MaxVersion = 2
    Removals = FALSE
    MaxRuns = 2
    RunsForever = TRUE
    MaxTime = 3
    Timely = TRUE
    QuietRuns = TRUE
SPECIFICATION RestartedSpec
INVARIANTS ReportedFilesSynchronized
PROPERTIES NoChangesMeansSynchronized EventuallySynchronized
