SPECIFICATION Spec
CONSTANTS
    Null = Null
    Listings <- MCListings
    Txs = {"c1", "c2"}
    Handlers = {"h1"}
    MaxRows = 5
    Conns = {"c1", "c2"}
    Owner <- MCOwner
    Accounts = {"a1", "a2"}
    Lists <- MCLists
    Home <- MCHome
    Currencies = {"USD", "INR"}
INVARIANTS OneInstrumentPerKey 
CHECK_DEADLOCK FALSE
