SPECIFICATION Spec
CONSTANTS
    Runs = {1, 2, 3}
    OpenRuns = {3}
    Bot = bot
    OpenBot = open
    Bots <- TwoBots
    BotOf <- BotOfRun
    Undeclared <- OpenBots
    Clients = {c}
    Hooks = {}
    ManifestHook = sink
    ManifestHooks <- NoSinks
    Stamps = {1, 2}
    MaxQueue = 2
    Via = {"api", "schedule"}
    BotEnds = {"result", "unstorable", "raises", "exits"}
    StoreFaults = TRUE
    ThreadFaults = {"run"}
    MaxEmits = 1
    MaxCrashes = 1
INVARIANTS
    TypeOK
    EventsReflectStore
    CompletedIsVisible
PROPERTIES
    OutcomeIsFinal
    Implements
