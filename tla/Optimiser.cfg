CONSTANTS
    WordBytes = 2
    ByteBits = 2
    MaxReach = 3
    Fuel = 80
    Hash <- MCHash
    Program <- Programs
    JoinKnowledge = {TRUE, FALSE}
    Scenario <- MCScenario
    Env <- MCEnv
SPECIFICATION Spec
INVARIANTS
    OptimisedProgramEquivalent
    NoAssertionFailure
PROPERTY
    OptimiseEnds
