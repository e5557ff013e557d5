SPECIFICATION Spec
CONSTANTS
    Start = 2
    Maximum = 120
    MaxFailures = 6
    Power <- PowersOfTwo
    Durations <- SomeDurations
    Never = Never
INVARIANTS
    TypeOK
    DelaysDouble
    AttemptsAreApart
