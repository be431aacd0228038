CONSTANTS
    WordBytes = 2
    ByteBits = 2
    MaxReach = 3
    Fuel = 80
    Hash <- MCHash
    Program <- Programs
    JoinKnowledge = {FALSE}
    Scenario <- MCScenario
    Env <- MCEnv
SPECIFICATION Spec
INVARIANT
    PredecessorsPresent
