SPECIFICATION Spec
CONSTANTS
    s1 = s1  s2 = s2  c1 = c1  c2 = c2  q1 = q1  q2 = q2
    Splits = {s1, s2}
    NoAction = {s2}
    ExDay <- MCExDay
    Days = {0, 1, 2, 3}
    History = 2
    Calls = {c1, c2}
    Indicators <- MCIndicators
    EnoughAt <- MCEnoughAt
    Requests = {q1, q2}
    TTL = 1
    Slow = 1
    MaxClock = 3
    MaxStored = 1
INVARIANTS AppliedOnce AnswersAreOfOneVersion StalenessIsBounded
PROPERTIES SplitsAreAtomic
CHECK_DEADLOCK FALSE
SYMMETRY MCSymmetry
