CONSTANTS
    NumPaths = 3
    Queried = {}
    LibraryFlags = {FALSE, TRUE}
    MaxContracts = 3
    MaxParses = 1
    Text <- AllText
    Unit <- AllUnit
    Name <- MCName
    Remapping <- MCRemapping
    Resolve <- AllResolve
SPECIFICATION BoundedSpec
INVARIANTS
    TopologicalOrder
    ConcreteContractsCompiled
PROPERTIES
    ParseVerdict
    CallsReturn
