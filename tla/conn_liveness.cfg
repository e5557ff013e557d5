SPECIFICATION FairSpec
CONSTANTS
    a1 = a1
    a2 = a2
    Alerts <- OneAlert
    JoinSnapshot = TRUE
    BackoffMaxFailures = 1
    NoReply = NoReply
    MaxTransitions = 3
PROPERTIES
    KeepsReconnecting
    RevokedAsksToPair
    DashboardEndsUpTrue
CHECK_DEADLOCK FALSE
