SPECIFICATION Spec
CONSTANTS
    u1 = u1  u2 = u2  i1 = i1  i2 = i2
    Nobody = Nobody
    Users = {u1, u2}
    ActiveUsers = {u2}
    Instruments = {i1, i2}
    Rows <- MCRows
    Lookback = 2
    Multiplier = 2
    Histories <- MCHistories
    EarningsIn <- MCEarningsIn
    DaysAhead = 5
    Series <- MCSeries
    Moves <- MCMoves
    Threshold = 10
    Runs = {"r1"}
    Devices = {"d1"}
    Tickets = {"t1"}
    Sockets = {"s1", "s2"}
INVARIANTS RunsTellEveryHolder  PushesFollowDevices OneSocketPerTicket
