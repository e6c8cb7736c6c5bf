\* One worker, two months and two advances; a month of three days; three drafts and
\* one restart; two dictated drafts; four files, three starts and two uploads
\* after each; four entries of sheets and a restart;
\* two works on the chart. The services stop at their bounds.
CONSTANTS
    Workers = {"w1"}
    Salary <- MCSalary
    Contracts <- MCContracts
    AffairForms <- MCAffairForms
    CashAmounts = {1000}
    PayMonths = {1, 2}
    MaxAdvances = 2

    LastDay = 3
    Weekends <- MCWeekends
    DefaultWeekend <- MCDefaultWeekend
    Leaves <- MCLeaves
    Open = 9
    PatternAbsent = {3}
    MaxCorrections = 1
    MaxFileLosses = 1
    MaxStarts = 1

    DraftUsers = {"clerk", "admin"}
    SelfPosting = {"admin"}
    MaxRecords = 1
    Ttl = 2
    MaxDrafts = 3
    MaxClock = 4
    MaxSessions = 1

    Speakers = {"clerk", "admin"}
    Reviewers = {"head", "admin"}
    OwnApproval = {"admin"}
    Balanced = {"a", "b"}
    Unusable = {"none"}
    MaxVoiceDrafts = 2
    MaxVoiceEntries = 2

    FileOrder <- MCFileOrder
    Contents <- MCContents
    MaxUploads = 2
    MaxBoots = 3

    Batches <- MCBatches
    Granted <- MCGranted
    MaxImported = 4
    MaxRestarted = 1

    Codes = {"2101", "3002"}
    CashCodes = {"1101"}
    AccountTypes = {"EQUITY", "OTHER"}
    Files <- MCFiles
    FirstFile <- MCFirstFile
    Moments <- MCMoments
    MaxWork = 2
    Parents <- MCParents
    LedgerRequests <- MCLedgerRequests

SPECIFICATION Spec
CHECK_DEADLOCK FALSE

INVARIANTS
    PeopleTypeOK
    PayrollReconciles
    AttendanceSound
    AssistedEntriesOnce
    ImportsSound

PROPERTIES
    ImplementsOnce
    
