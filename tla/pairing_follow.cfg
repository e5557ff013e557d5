SPECIFICATION FollowSpec
CONSTANTS
    studio = studio
    workshop = workshop
    x1 = x1
    x2 = x2
    d1 = d1
    d2 = d2
    m1 = m1
    m2 = m2
    r1 = r1
    Stations <- TwoStations
    Addresses <- TwoAddresses
    Discoveries <- TwoDiscoveries
    Manuals <- OneManual
    Reauths <- NoFlow
    Ignoring = FALSE
    None = None
    MaxPairings = 2
    MaxVersion = 1
    PairingAttempts = 1
PROPERTIES
    EntryFollowsStation
    VersionFollows
    EntrySettles
