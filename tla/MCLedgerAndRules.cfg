\* Postings, reversals, deletions, rebuilds and one outside edit per entry; forms
\* of three fields before and after the month of the budget; four settings of two
\* rules; two documents for the tax authority.
CONSTANTS
    Users = {"admin"}
    Recorders = {"admin"}
    Managers = {"admin"}
    Approvers = {}
    Exempt = {"admin"}
    Accounts = {"cash", "dues"}
    Leaves = {"cash", "dues"}
    DebitNature = {"cash"}
    Controlled = {}
    Names = {}
    Requests <- MCRequests
    LastMonth = 1
    MaxEntries = 3
    MaxEdits = 1
    NoParty = none
    Unknown = unknown
    Nobody = nobody

    StatuteFields <- MCStatuteFields
    StatuteNumbers <- MCStatuteNumbers
    StatuteWords <- MCStatuteWords
    StartMonths = {10, 11}
    MaxEntered = 3

    LiveRules = {"cash_ceiling", "limit"}
    MaxSettings = 4
    MaxSettingFailures = 1
    MaxSettingStarts = 1

    Pays <- MCPays
    Insurances = {0, 4999, 100000}
    Payments <- MCPayments

    Documents = {"d1", "d2"}
    NoDocument = noDocument
    Clients = {"c1", "c2"}
    MaxOutages = 1

SPECIFICATION LedgerSpec

INVARIANTS
    PostedAreSealed
    RulesAndTaxesAgree
    AnsweredSettingsStay
    EtaSound
PROPERTIES
    EditsStayVisible
    RebuildReportsTruly
    BreaksAreExplained
    VerdictOnlyHardens

CHECK_DEADLOCK FALSE
