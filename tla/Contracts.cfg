CONSTANTS
    WordBytes = 2
    ByteBits = 4
    MaxReach = 16
    Hash <- MCHash
    SelectorOf <- MCSelectorOf
    SelectorBytes = 1
    Topics = {"statements", "expressions", "modifiers", "calls", "creation"}
SPECIFICATION Spec
INVARIANTS CallsBehave CreationBehaves
CHECK_DEADLOCK FALSE
