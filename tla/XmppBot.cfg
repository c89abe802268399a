SPECIFICATION BotSpec
CONSTANTS
    Off = {"docker"}
    MaxMessages = 2
    MaxFaults = 1
INVARIANTS
    CompletionIsOwn
    NothingStranded
    SubscriptionsKept
CHECK_DEADLOCK FALSE
