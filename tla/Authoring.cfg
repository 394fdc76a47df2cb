SPECIFICATION FairSpec
CONSTANTS
    Authors = {agent, caller}
    Callers = {caller}
    Proposals = {p, q, wrong, mutating, template}
    Template = template
    Valid = {p, q}
    Refused = {mutating}
    Torn = torn
    MaxSteps = 2
    MaxToolCalls = 1
    MaxLoads = 1
\* Every session and every load ends.
CHECK_DEADLOCK FALSE
INVARIANTS
    TypeOK
    OnlyValidated
    ValidMeansWritten
    LoadedIsOneProposal
PROPERTIES
    SessionsEnd
