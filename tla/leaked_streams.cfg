CONSTANTS
    data = data  coin_0 = coin_0  coin_1 = coin_1  ANs = ANs
    note = note  a = a  b = b  c = c  d = d
    Root = data
    Entries <- Tree
    Under <- FilesUnder
    Depth <- Levels
    DepthMax = 3
    ResponseSizeMax = 8
    HeaderLen = 2
    IdLen = 3
    EndLen = 2
    MaxLine = 4
    AgentFramesMax = 2
    FilesCountMax = 1
    StreamsMax = 3
    Sizes = {0, 1}
    FilesChange = FALSE
SPECIFICATION Spec
INVARIANTS NoChangesMeansNoneNewer
CHECK_DEADLOCK FALSE
