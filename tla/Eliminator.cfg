CONSTANTS
    WordBytes = 2
    ByteBits = 2
    MaxReach = 3
    MaxPhrases = 4
    Hash <- MCHash
    Phrase <- WholeWords
    Scenario <- MCScenario
    Env <- MCEnv
SPECIFICATION Spec
INVARIANTS
    KnowledgeSound
    OptimisedCodeEquivalent
    NoOptimizerFailure
CHECK_DEADLOCK FALSE
