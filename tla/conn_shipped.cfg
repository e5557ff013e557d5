SPECIFICATION Spec
CONSTANTS
    a1 = a1
    a2 = a2
    Alerts <- TwoAlerts
    JoinSnapshot = TRUE
    BackoffMaxFailures = 1
    NoReply = NoReply
    MaxTransitions = 3
SYMMETRY AlertSymmetry
CONSTRAINT FewTransitions
INVARIANTS
    TypeOK
    ConnectedMeansListening
    PublishedIsCurrent
    StaleOnlyInTheGap
    HeardInOrder
    NothingLostOnALiveSocket
    EventsSeeTheirEffect
    RefusedNeverRetries
    DescriptionTellsWhy
PROPERTIES
    NothingAfterStop
    ImplementsFeed
    ImplementsTask
CHECK_DEADLOCK FALSE
