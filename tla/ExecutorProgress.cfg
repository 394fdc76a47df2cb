SPECIFICATION FairSpec
CONSTANTS
    Runs = {1, 2}
    OpenRuns = {}
    Bot = bot
    OpenBot = open
    Bots <- TwoBots
    BotOf <- BotOfRun
    Undeclared <- OpenBots
    Clients = {c}
    Hooks = {sink, h1}
    ManifestHook = sink
    ManifestHooks <- DeclaredSinks
    Stamps = {1}
    MaxQueue = 2
    Via = {"api", "cli"}
    BotEnds = {"result", "raises"}
    StoreFaults = FALSE
    ThreadFaults = {"delivery"}
    MaxEmits = 0
    MaxCrashes = 0
INVARIANTS
    HooksFollowRecord
    HooksAccounted
PROPERTIES
    NoHookForgotten
    RunsFinish
    HooksTried
    OutcomeReachesReader
