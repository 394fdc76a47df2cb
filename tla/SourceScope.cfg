SPECIFICATION Spec
CONSTANTS
    Orders = orders
    Refunds = refunds
    Bot = bot
    Browser = browser
    Callers <- Threads
    Tables <- AllTables
    Declared <- BotDeclares
    Scoped <- Bots
    Statements <- Sent
    AuditFaults = FALSE
    MaxAccesses = 1
\* The bound on accesses stops the callers.
CHECK_DEADLOCK FALSE
INVARIANTS
    ScopeIsEnforced
