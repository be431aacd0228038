CONSTANTS
    WordBytes = 3
    ByteBits = 2
    MaxReach = 16
    AddressBytes = 2
    AddressWidth = 2
    Hash <- MCHash
    LinearizedBaseContracts <- MCBases
SPECIFICATION Spec
INVARIANTS
    RulesSound
    AssembledReferences
    LinkedEverywhere
    ConversionsKeepValue
CHECK_DEADLOCK FALSE
