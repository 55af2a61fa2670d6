SPECIFICATION FairLimiterSpec
CONSTANTS
    w1 = w1  w2 = w2
    Workers = {w1, w2}
    MaxRequests = 2
    Window = 2
    Ttl = 5
    MaxWait = 3
    Latency = 1
    Crashes = TRUE
INVARIANTS OvershootIsBounded WaitIsCapped
PROPERTIES OnlyIdleBucketsExpire AcquireEnds
