CONSTANTS
    MaxCalls = 3
    MaxRequests = 2
SPECIFICATION Spec
INVARIANTS TypeOK QuietOnceSettled OneScopeAtATime PassedMeansDone
PROPERTY CallbacksSettle
CHECK_DEADLOCK FALSE
