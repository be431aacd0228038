CONSTANTS
    WordBytes = 15
    ByteBits = 2
    MaxReach = 16
    Hash <- MCHash
    Constants <- MCConstants
    Params <- MCParams
    MaxPushes = 2
SPECIFICATION Spec
INVARIANT ConstantsPreserved
CHECK_DEADLOCK FALSE
