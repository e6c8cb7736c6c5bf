\* After a reversal the general ledger report leaves the account balances.
CONSTANTS
    amal = amal
    badr = badr
    Users <- MCUsers
    Recorders <- MCRecorders
    Managers <- MCManagers
    Approvers <- MCManagers
    Exempt <- MCExempt
    Accounts <- MCAccounts
    Leaves <- MCLeaves
    DebitNature <- MCDebitNature
    Controlled <- MCControlled
    Names = {amal}
    Requests <- OneRequest
    LastMonth = 1
    MaxEntries = 3
    NoParty = none
    Unknown = unknown
    Nobody = nobody
SPECIFICATION Spec
CHECK_DEADLOCK FALSE
INVARIANT
    ReportMatchesBalances
