CONSTANTS
    Adapter = {"a", "b"}
    Artifact = {"x"}
    ArtifactOf <- mcArtifactOf
    FixedView = {"a", "b"}
    Call <- mcLate
    AdapterOf <- mcLateAdapterOf
    KindOf <- mcLateKind
    Follows <- mcLateOrder
    NoCall = NoCall
    NoArtifact = NoArtifact
    Attempts = 1
    MaxVersion = 2
SPECIFICATION Spec
INVARIANT DdlIsDetected
CHECK_DEADLOCK FALSE
