CONSTANTS
    a = a
    b = b
    c = c
    Requests = {a, b, c}
    Keys = {"quote"}
    KeyOf <- MCKeyOf
    FallbackKeys = {}
    MaxRetries = 1
    FailureThreshold = 2
    RecoveryTimeout = 1
    ProbeSuccesses = 1
SPECIFICATION QFairSpec
PROPERTIES FollowersGoOn
CHECK_DEADLOCK FALSE
