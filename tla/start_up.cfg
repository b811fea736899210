SPECIFICATION LiveSpec
CONSTANTS
    Hosts = {"mirror"}
    NumberFiles <- Numbers
    ConfigFiles <- Configs
INVARIANTS
    TypeOK
    OnlyConfiguredServe
    ServedByOwnNumber
PROPERTIES
    WellConfiguredIsServed
CHECK_DEADLOCK FALSE
