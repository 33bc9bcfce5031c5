CONSTANTS
    a = a
    b = b
    c = c
    p1 = p1
    p2 = p2
    r1 = r1
    r2 = r2
    Requests = {a, b, c}
    Keys = {"quote", "quotes"}
    KeyOf <- MCKeyOf
    FallbackKeys = {"quotes"}
    MaxRetries = 1
    FailureThreshold = 2
    RecoveryTimeout = 2
    ProbeSuccesses = 2
    MaxSeq = 5
    Quotes = {1, 2}
    SecondLen = 2
    MinuteLen = 1
    BatchSize = 2
    BufferCap = 1
    MaxInstant = 2
    MaxTicks = 4
    Providers = {p1, p2}
    NoProvider = NoProvider
    Restarters = {r1, r2}
SPECIFICATION Spec
INVARIANTS InfraTypeOK SingleFlight NoSilentLoss BarsMatchStore OneUpstream
PROPERTIES AnsweredUnlessAbandoned BreakerRecovers FeedResumes
CHECK_DEADLOCK FALSE
