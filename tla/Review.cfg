SPECIFICATION Spec
CONSTANTS
    Runs = {1, 2}
    Bot = bot
    Bots <- OneBot
    BotOf <- BotOfRun
    Stamps = {1}
    NoScore = noscore
    Reviewers = {ann}
    Results <- SomeResults
    Numbers = {1, 2, 3}
    Limit = 1
    Wishes <- SomeWishes
    MaxSaves = 3
    MaxReads = 2
\* The bounds on decisions and reads stop everyone.
CHECK_DEADLOCK FALSE
INVARIANTS
    TypeOK
    DecisionsHaveCases
    LabelsMatchRecords
    QuietTuningIsComplete
    TallyMatchesCases
    RecommendationIsSound
    RecommendationCarriesOver
