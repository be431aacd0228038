CONSTANTS
    NumPaths = 2
    Queried = {"A"}
    LibraryFlags = {FALSE}
    MaxContracts = 3
    MaxParses = 2
    Text <- CodegenText
    Unit <- MCUnit
    Name <- MCName
    Remapping <- OneRemapping
    Resolve <- MCResolve
SPECIFICATION Spec
INVARIANTS
    TypeOK
    OrderedSourcesParsed
    ContractsLive
    DependenciesAcyclic
    ObjectOfUniqueContract
    MetadataOfContract
PROPERTIES
    ImplementsInterface
