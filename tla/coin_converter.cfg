SPECIFICATION ConverterSpec
CONSTANTS
    Clients = {"a", "b"}
    Hosts = {"a", "b"}
    HostOf <- OneEach
    FramesMax = 2
    Kinds <- Requests
    Encrypted <- Ciphers
    ConnectionsMax = 1
    MaxRequests = 2
    MaxFaults = 1
CHECK_DEADLOCK FALSE
INVARIANTS
    ConverterTypeOK
    TicketIsAsSent
    AnswerIsReadable
PROPERTIES
    OnlyUnknownTicketsLeak
