SPECIFICATION Spec
CONSTANTS
    studio = studio
    workshop = workshop
    x1 = x1
    x2 = x2
    d1 = d1
    d2 = d2
    m1 = m1
    m2 = m2
    r1 = r1
    Stations <- OneStation
    Addresses <- TwoAddresses
    Discoveries <- TwoDiscoveries
    Manuals <- NoFlow
    Reauths <- OneReauth
    Ignoring = TRUE
    None = None
    MaxPairings = 3
    MaxVersion = 1
    PairingAttempts = 3
SYMMETRY AddressSymmetry
INVARIANTS
    TypeOK
    OneEntryPerStation
