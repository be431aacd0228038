CONSTANTS
    WordBytes = 2
    ByteBits = 4
    MaxReach = 16
    Hash <- MCHash
    SelectorOf <- MCSelectorOf
    SelectorBytes = 1
    Topics = {"twice"}
SPECIFICATION Spec
INVARIANT ModifiersEvaluatedInOrder
CHECK_DEADLOCK FALSE
