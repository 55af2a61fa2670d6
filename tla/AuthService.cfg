SPECIFICATION FairSpec
CONSTANTS
    Callers = {"a", "b"}
    MaxTokens = 3
    MaxVersion = 1
    MaxLinks = 1
    MaxRequests = 1
    CallsFail = TRUE
INVARIANTS OneTokenPerSession
PROPERTIES RevokedStayRevoked LimitsLapse
