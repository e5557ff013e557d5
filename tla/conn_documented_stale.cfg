SPECIFICATION Spec
CONSTANTS
    a1 = a1
    a2 = a2
    Alerts <- OneAlert
    JoinSnapshot = FALSE
    BackoffMaxFailures = 1
    NoReply = NoReply
    MaxTransitions = 3
INVARIANT
    QuietBoardIsCurrent
CHECK_DEADLOCK FALSE
