\* Kinds of request, each over the same engines.
CONSTANTS
    Null = Null
    r1 = r1  q1 = q1  q2 = q2  n1 = n1  n2 = n2
    w1 = w1  w2 = w2  c1 = c1  c2 = c2  us = us  in = in  gb = gb
    al = al  ze = ze
    Lots = {us, in, gb}
    Book <- MCBook
    Books <- MCBooks
    Bases = {"USD", "INR"}
    Scale = 6
    MaxDay = 1
    RateOn <- MCRateOn
    Refreshers = {w1, w2}
    Readers = {r1}
    Returns = {20}
    Period = 1
    Portfolios <- MCPortfolios
    Links = {c1, c2}
    Visitors = {q1, q2}
    MaxHour = 2
    HealthTTL = 1
    StaleHours = 0
    VeryStaleHours = 1
    Callers = {n1, n2}
    Articles <- MCArticles
    Macros <- MCMacros
    DailyBudget = 1
    LastDay = 1
    MaxRequests = 3
    Seekers = {q1, q2}
    Symbols <- MCSymbols
    Reports <- MCReports
    Infos <- MCInfos
    Prices = {Null, 60}
    Readings <- MCReadings
    Filed <- MCFiled
    Feelings <- MCFeelings
    Hazards <- MCHazards
    AiAnswers <- MCAiAnswers
    Ages = {0, 6, 24}
    Settings <- MCSettings
    MaxTime = 24
    MaxAdvice = 1
    MaxTasks = 1
    Tokens = {al, ze}
    BrokerOf <- MCBrokerOf
    DayHours = 4
    CutHour = 1
    LastClock = 10
SPECIFICATION Spec
INVARIANTS    AiNeverReversesAdvice NewsStaysInBudget 
PROPERTIES RatesOnlyAdvance
CHECK_DEADLOCK FALSE
