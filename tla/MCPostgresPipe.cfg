CONSTANTS
    Command = {c1, c2}
    Connection = {k1}
    Table <- mcTable
    View <- mcView
    Direct = {"orders", "totals"}
    FollowUp <- mcFollowUp
    Caught = {}
    CanDiscard = TRUE
    LossCodes = {"EPIPE"}
    FiveCharacters = {"23503", "08006", "40003", "EPIPE"}
    NoOne = NoOne
    MaxStatements = 3
    MaxSavepoints = 1
SPECIFICATION Spec
INVARIANT LostCommitIsUnknown
CHECK_DEADLOCK FALSE
