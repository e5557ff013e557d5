SPECIFICATION FairSpec
CONSTANTS
    g1 = g1
    g2 = g2
    Platforms = {"sensor", "event"}
    Connections <- TwoConnections
    None = None
    MaxPairings = 2
INVARIANTS
    TypeOK
    OneSocketPerEntry
    HeardIsFired
    KeptEntryListens
    UnloadedIsSilent
    DownloadTellsWhy
PROPERTIES
    RemovalCompletes
    NewTokenTaken
    ConnectionsAreTasks
