SPECIFICATION Spec
CONSTANTS
    MaxCalls = 2
    Keys = {"k"}
    NoKey = "none"
    CACHE_DURATION = 1
    MAX_STALENESS = 2
    KEY_LIFE = 3
    Balances = {"little", "none"}
    MaxChecks = 1
INVARIANTS
    TypeOK
    PriceFresh
    RepeatGetsOne
PROPERTIES
    LevelFollows
    CallAnswered
