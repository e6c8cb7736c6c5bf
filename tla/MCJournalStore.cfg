\* Two entries, one stop of the process, one failed call or one outside edit.
CONSTANTS
    Users = {"admin"}
    Recorders = {"admin"}
    Managers = {"admin"}
    Approvers = {}
    Exempt = {"admin"}
    Accounts = {"cash", "dues"}
    Leaves = {"cash", "dues"}
    DebitNature = {"cash"}
    Controlled = {}
    Names = {}
    Requests <- MCRequests
    LastMonth = 1
    MaxEntries = 2
    MaxEdits = 1
    MaxRestarts = 1
    MaxFaults = 1
    MaxCalls = 2
    NoParty = none
    Unknown = unknown
    Nobody = nobody
SPECIFICATION StoreSpec
INVARIANTS
    RowsFollowMemory
    BalancesSinceStart
PROPERTY
    EvidenceStays
CHECK_DEADLOCK FALSE
