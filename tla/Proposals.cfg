SPECIFICATION BotSpec
CONSTANTS
    Clients = {alice, bob}
    Paths <- Files
    Docs <- AllDocuments
    Inodes <- InodesEnough
    Empty = empty
    Torn = torn
    Approvers = {alice}
    Rulesets <- AllRulesets
    Invalid <- InvalidRulesets
    Initial <- Initially
    MaxCalls = 3
    IdField = "host"
    Within <- TextsWithin
    Tables <- Queries
INVARIANTS
    BotTypeOK
    LiveIsReviewed
    RunsFindAValidRuleset
    ReportedNeverEmits
    NothingLost
PROPERTIES
    ImplementsLiveRuleset
    ApprovedBeforeGone
