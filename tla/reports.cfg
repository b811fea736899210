CONSTANTS
    data = data  coin_0 = coin_0  coin_1 = coin_1  ANs = ANs
    note = note  a = a  b = b  c = c  d = d
    Root = data
    Entries <- Tree
    Under <- FilesUnder
    Depth <- Levels
    DepthMax = 3
    ResponseSizeMax = 14
    HeaderLen = 2
    IdLen = 3
    EndLen = 2
    MaxLine = 4
    AgentFramesMax = 4
    FilesCountMax = 3
    StreamsMax = 6
    Sizes = {0, 1, 2, 3, 7}
    FilesChange = TRUE
SPECIFICATION Spec
INVARIANTS TypeOK ResponseFits FramesAddUp AgentTakesIt ReportIsComplete
PROPERTIES OnlyCutOffLeaks
CHECK_DEADLOCK FALSE
