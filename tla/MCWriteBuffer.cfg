CONSTANTS
    Null = Null
    Star = Star
    Resource <- mcResource
    Endpoint <- mcEndpoint
    Column <- mcColumn
    InputName <- mcInputName
    Scalar <- mcScalar
    Alike <- mcAlike
    Inexact <- mcInexact
    TypeOf <- mcTypeOf
    ScopeColumn <- mcScopeColumn
    Reads <- mcReads
    SelectorLimit = 2
    ImpactBudget = 9
    MaxFacts = 2
    MaxFactSize = 19
    SummarySize = 8
    Fact <- mcFact
    Scope = {"u1", "u2"}
    Input <- mcInput
    MaxAdds = 3
    MaxSavepoints = 1
SPECIFICATION Spec
INVARIANTS TypeOK CoverageKept VerifiedIsExact NoForeignValues
PROPERTY CoverageGrows
CHECK_DEADLOCK FALSE
