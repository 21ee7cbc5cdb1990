CONSTANTS
    Null = Null
    Star = Star
    Resource <- mcResource
    Endpoint <- mcEndpoint
    Column <- mcColumn
    Columns <- mcColumns
    InputName <- mcInputName
    Scalar <- mcScalar
    Alike <- mcAlike
    DbAlike <- mcAlike
    Inexact = {}
    TypeOf <- mcTypeOf
    ScopeColumn <- mcScopeColumn
    KeyColumn <- mcKeyColumn
    ForeignKeys <- mcForeignKeys
    EndpointOrder <- mcEndpointOrder
    Queries <- mcQueries
    Reads <- CompileManifest
    AnswerOf <- Answer
    Encoded <- mcEncoded
    NonFinite = {"s"}
    Row <- mcRow
    InitialDb <- mcInitialDb
    Scope = {"u1"}
    Input <- mcInput
    SelectorLimit = 2
    ImpactBudget = 16
    MaxFacts = 2
    MaxFactSize = 30
    SummarySize = 8
    ConflictRollback = TRUE
    MaxStatements = 2
    MaxSavepoints = 1
    MaxOutside = 1
SPECIFICATION Spec
INVARIANTS TypeOK Oracle OnlyOwnEffectsReported NothingUnobserved
CHECK_DEADLOCK FALSE
