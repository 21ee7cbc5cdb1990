CONSTANTS
    Engine <- mcEngine
    Table <- mcTable
    Registered <- mcRegistered
    Position <- mcPosition
    Missing = {}
    Caller <- mcCaller
    EngineOf <- mcEngineOf
    NoEngine = NoEngine
SPECIFICATION Spec
INVARIANTS TypeOK OwnObservers OneTransaction
PROPERTY EveryCallSettles
CHECK_DEADLOCK FALSE
