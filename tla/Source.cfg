SPECIFICATION FairSpec
CONSTANTS
    Orders = orders
    Refunds = refunds
    Bot = bot
    Browser = browser
    Callers <- Threads
    Tables <- AllTables
    Declared <- BotDeclares
    Scoped <- Bots
    Statements <- Sent
    AuditFaults = TRUE
    MaxAccesses = 2
\* The bound on accesses stops the callers.
CHECK_DEADLOCK FALSE
INVARIANTS
    TypeOK
    BackendReadsInScope
    BackendIsExclusive
PROPERTIES
    ImplementsAuditedReads
    AccessEnds
