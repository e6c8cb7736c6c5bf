\* Four entries of the core; a reader of the cache; two tasks of two sessions; two
\* requests to Jules. The services stop at their bounds.
CONSTANTS
    CoreAccounts = {"cash", "dues", "fees"}
    CoreDebit = {"cash"}
    Treasury = {"cash"}
    CoreRequests <- MCCoreRequests
    CashCeiling = 2000
    Enforcing = TRUE
    PartyNames = {"amal"}
    MaxCore = 4
    MaxReferences = 5

    Readers = {"r1"}
    Ttls <- MCTtls
    Latency = 1
    MaxWrites = 2
    MaxFailures = 1

    Tools = {"entries", "document", "rag", "events", "chain"}
    Verifiers = {"events", "chain"}
    ChainCheck = "chain"
    Fallback <- MCFallback
    Sessions = {"auditor", "clerk"}
    Permitted <- MCPermitted
    Selections <- MCSelections
    MaxReplans = 1
    MaxTasksInMemory = 1
    MaxTasks = 2
    MaxAttempts = 3

    Windows = {"a"}
    Texts = {x, y}
    KeepFor = 1
    MaxEntries = 1
    MaxOperations = 2
    MaxJulesClock = 1
    MaxJulesRestarts = 1

SPECIFICATION Spec
SYMMETRY TextSymmetry
CHECK_DEADLOCK FALSE

INVARIANTS
    ServicesTypeOK
    
    CacheStaysFresh
    PlansSettle
    OncePerWindow
    ApprovedAsReviewed
