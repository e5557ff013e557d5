SPECIFICATION Spec
CONSTANTS
    studio = studio
    workshop = workshop
    c1 = c1
    c2 = c2
    c3 = c3
    Stations <- OneStation
    Calls <- ThreeCalls
    Keys = {"garage"}
    NoKey = NoKey
    None = None
    MaxAlerts = 2
    MaxPairings = 2
SYMMETRY CallSymmetry
CONSTRAINT Implied
INVARIANTS
    TypeOK
    RetriesAreSafe
    ResolvesWhatItNamed
    SuccessIsReal
    UnauthorisedAsksToPair
