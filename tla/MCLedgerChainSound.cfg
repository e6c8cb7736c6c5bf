\* Without any outside edit the chain breaks all the same.
CONSTANTS
    Users = {"admin"}
    Recorders = {"admin"}
    Managers = {"admin"}
    Approvers = {"admin"}
    Exempt = {"admin"}
    Accounts = {"cash", "dues"}
    Leaves = {"cash", "dues"}
    DebitNature = {"cash"}
    Controlled = {}
    Names = {}
    Requests <- MCRequests
    LastMonth = 2
    MaxEntries = 3
    MaxEdits = 0
    NoParty = none
    Unknown = unknown
    Nobody = nobody
SPECIFICATION ChainSpec
INVARIANT
    OnlyEditsBreakChain
CHECK_DEADLOCK FALSE
