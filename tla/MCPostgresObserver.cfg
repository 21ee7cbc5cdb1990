CONSTANTS
    Null = Null
    Star = Star
    Resource <- mcResource
    Endpoint <- mcEndpoint
    Column <- mcColumn
    Columns <- mcColumns
    InputName <- mcInputName
    Scalar <- mcScalar
    Alike = {}
    DbAlike = {}
    Inexact = {}
    TypeOf <- mcTypeOf
    ScopeColumn <- mcScopeColumn
    IdentityColumns <- mcIdentityColumns
    Certified <- mcCertified
    EndpointOrder <- mcEndpointOrder
    Queries <- mcQueries
    Reads <- CompileManifest
    AnswerOf <- Answer
    Encoded <- mcEncoded
    NonScalar = {"object"}
    Row <- mcRow
    InitialDb <- mcInitialDb
    Scope = {"u1"}
    Input <- mcInput
    SelectorLimit = 2
    ImpactBudget = 16
    MaxFacts = 2
    MaxFactSize = 18
    SummarySize = 7
    MaxStatements = 3
SPECIFICATION Spec
INVARIANTS TypeOK Oracle EveryChangeObserved NeverRefused
CHECK_DEADLOCK FALSE
