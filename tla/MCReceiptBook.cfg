\* Three entries of one month: by hand or of a receipt, by a clerk, a manager
\* and an exempt manager.
CONSTANTS
    Users <- MCUsers
    Recorders = {"clerk", "cfo"}
    Managers <- MCManagers
    Approvers <- MCManagers
    Exempt = {"admin"}
    Accounts <- MCAccounts
    Leaves <- MCAccounts
    DebitNature <- MCDebitNature
    Controlled = {}
    Names = {"members", "fund", "union"}
    Requests <- MCRequests
    LastMonth = 1
    MaxEntries = 3
    Collectors = {"clerk", "cfo"}
    AutoPosters = {"cfo"}
    Collections <- MCCollections
    DirectAccount = "dues"
    NoParty = none
    Unknown = unknown
    Nobody = nobody
SPECIFICATION ReceiptSpec
CHECK_DEADLOCK FALSE
INVARIANTS
    TypeOK
    HistoryMatchesStatus
    FourEyes
    
