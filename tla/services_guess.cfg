SPECIFICATION Spec
CONSTANTS
    studio = studio
    workshop = workshop
    c1 = c1
    c2 = c2
    c3 = c3
    Stations <- TwoStations
    Calls <- OneCall
    Keys = {"garage"}
    NoKey = NoKey
    None = None
    MaxAlerts = 1
    MaxPairings = 1
INVARIANT
    NeverGuesses
