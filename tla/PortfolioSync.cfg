SPECIFICATION Spec
CONSTANTS
    r1 = r1  r2 = r2  c1 = c1  c2 = c2  o1 = o1  o2 = o2  o3 = o3
    sX = sX  sY = sY  iX = iX
    OrderPage = 10
    NoRequest = NoRequest
    Requests = {r1, r2}
    Connections = {c1, c2}
    LegacyStub = {c2}
    Orders = {o1, o2, o3}
    Symbols = {sX, sY}
    Instruments = {iX}
    SymbolOf <- MCSymbolOf
    SideOf <- MCSideOf
    InstrumentOf <- MCInstrumentOf
    ErrorCodes = {"NETWORK_TIMEOUT"}
    SlowSync = FALSE
    RedisFails = FALSE
SYMMETRY Handlers
INVARIANTS SyncsExclude
PROPERTIES CommitMirrorsBroker AuditCountsTheDiff OrdersNeverRegress 
