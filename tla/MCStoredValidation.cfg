CONSTANTS
    Adapter = {"a", "b"}
    Artifact = {"x"}
    ArtifactOf <- mcArtifactOf
    FixedView = {"a"}
    Call <- mcRacing
    AdapterOf <- mcRacingAdapterOf
    KindOf <- mcRacingKind
    Follows <- mcRacingOrder
    NoCall = NoCall
    NoArtifact = NoArtifact
    Attempts = 1
    MaxVersion = 2
SPECIFICATION Spec
INVARIANTS TypeOK RecordedIsExact GatedIsCurrent OneRecorder FailureIsForgotten
PROPERTIES RowAdvances CallsSettle
CHECK_DEADLOCK FALSE
