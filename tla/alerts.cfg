\* One poller that can have two ticks under way, with checks that depend on each other.
SPECIFICATION BotSpec
CONSTANTS
    Pollers = {"rpc"}
    Ticks = {1, 2}
    COOLDOWN = 1
INVARIANTS
    BotTypeOK
PROPERTIES
    QuietWithinCooldown
    RecoveryAnswersFailure
    LastingFailureIsPosted
CHECK_DEADLOCK FALSE
