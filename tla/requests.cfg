SPECIFICATION LiveSpec
CONSTANTS
    Clients = {"a", "b", "c"}
    Hosts = {"a", "c"}
    HostOf <- OneHost
    FramesMax = 2
    Kinds <- AnyRequest
    MaxRequests = 1
    MaxFaults = 1
CHECK_DEADLOCK FALSE
INVARIANTS
    TypeOK
    RequestOfOneHost
    AnswersGoHome
    OnlyWholeRequestsExecuted
PROPERTIES
    ComesBack
