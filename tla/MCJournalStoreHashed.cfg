\* Without failures an entry with a hash is missing in the table.
CONSTANTS
    Users = {"admin"}
    Recorders = {"admin"}
    Managers = {"admin"}
    Approvers = {}
    Exempt = {"admin"}
    Accounts = {"cash", "dues"}
    Leaves = {"cash", "dues"}
    DebitNature = {"cash"}
    Controlled = {}
    Names = {}
    Requests <- MCRequests
    LastMonth = 1
    MaxEntries = 2
    MaxEdits = 0
    MaxRestarts = 0
    MaxFaults = 0
    MaxCalls = 2
    NoParty = none
    Unknown = unknown
    Nobody = nobody
SPECIFICATION StoreSpec
INVARIANT
    HashedAreStored
CHECK_DEADLOCK FALSE
