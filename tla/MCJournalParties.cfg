\* Parties, merges, refused and rounded requests, over two months.
CONSTANTS
    amal = amal
    badr = badr
    Users <- MCUsers
    Recorders = {"clerk"}
    Managers = {"admin"}
    Approvers <- MCManagers
    Exempt <- MCExempt
    Accounts <- MCAccounts
    Leaves <- MCLeaves
    DebitNature <- MCDebitNature
    Controlled <- MCControlled
    Names = {amal, badr}
    Requests <- PartyRequests
    LastMonth = 2
    MaxEntries = 2
    NoParty = none
    Unknown = unknown
    Nobody = nobody
SPECIFICATION Spec
CHECK_DEADLOCK FALSE
INVARIANTS
    ReversalsMirror
    BooksAreExplained
PROPERTIES
    ClosedPeriodsFrozen
    SubledgerReconciles
