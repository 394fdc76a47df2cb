SPECIFICATION Spec
CONSTANTS
    Runs = {1}
    OpenRuns = {}
    Bot = bot
    OpenBot = open
    Bots <- TwoBots
    BotOf <- BotOfRun
    Undeclared <- OpenBots
    Clients = {c}
    Hooks = {}
    ManifestHook = sink
    ManifestHooks <- NoSinks
    Stamps = {1}
    MaxQueue = 2
    Via = {"api"}
    BotEnds = {"result", "unstorable", "raises"}
    StoreFaults = FALSE
    ThreadFaults = {}
    MaxEmits = 0
    MaxCrashes = 0
INVARIANTS
    NeverStuckRunning
