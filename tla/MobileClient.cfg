SPECIFICATION FairAppSpec
CONSTANTS
    Requests = {"r1", "r2"}
    MaxPairs = 2
    Loses = TRUE
INVARIANTS StoresAgree
PROPERTIES PresentedOnce ReplayedOrGaveUp
