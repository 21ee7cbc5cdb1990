CONSTANTS
    Command = {c1, c2}
    Connection = {k1}
    Table <- mcTable
    View <- mcView
    Direct = {"orders", "totals"}
    FollowUp <- mcFollowUp
    Caught = {"ledger"}
    CanDiscard = TRUE
    LossCodes = {"ECONNRESET", "08006"}
    FiveCharacters = {"23503", "08006", "40003", "EPIPE"}
    NoOne = NoOne
    MaxStatements = 3
    MaxSavepoints = 1
SPECIFICATION Spec
INVARIANTS TypeOK ReturnedIsDurable RejectedIsGone PoolIsClean MigrationAlone
PROPERTIES CommandsSettle MigrationProceeds ImplementsPromise
CHECK_DEADLOCK FALSE
