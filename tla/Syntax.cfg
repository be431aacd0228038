CONSTANTS
    UnsignedSize = 64
    VersionString <- MCVersion
    Topics = {"program", "statement", "text", "pragma", "hierarchy", "names"}
    Globals <- MCGlobals
    Pieces <- MCPieces
    MaxText = 5
SPECIFICATION Spec
INVARIANTS
    LocationsHoldText
    PrecedenceRespected
    JsonMirrorsTree
    IndentationIsDepth
    SyntaxErrorsExact
    TextIsTokens
    PragmaAllowsVersions
    LinearisationSuitsBases
    NamesReferToNearest
CHECK_DEADLOCK FALSE
