SPECIFICATION Spec
CONSTANTS
    Clients = {alice, bob}
    Paths <- Files
    Docs <- Documents
    Inodes <- InodesEnough
    Empty = empty
    Torn = torn
    Approvers = {alice, bob}
    Rulesets = {"initial", "tight"}
    Invalid = {}
    Initial = "initial"
    MaxCalls = 3
\* The bound on calls stops the reviewers.
CHECK_DEADLOCK FALSE
INVARIANTS
    LiveIsWhole
