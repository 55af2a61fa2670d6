--------------------------- MODULE PortfolioSync ---------------------------
(***************************************************************************)
(* POST /api/portfolio/sync: the route (backend/app/api/portfolio.py) and  *)
(* the service it drives (backend/app/services/portfolio_sync.py), for the *)
(* connections of ONE user, which is the scope of the Redis lock.          *)
(*                                                                         *)
(* A request is a sequence of awaits over three parties that share no      *)
(* transaction: Redis (the lock), the broker (two reads) and Postgres (one *)
(* READ COMMITTED transaction). Each await is an action.                   *)
(*                                                                         *)
(* The broker account is external: it holds orders that are placed, filled *)
(* or cancelled at any time, and its positions are the net of the filled   *)
(* ones. All connections of the user reach the same account, which is what *)
(* linking an account again produces (connecting only ever inserts a row). *)
(***************************************************************************)
EXTENDS Naturals, FiniteSets

CONSTANTS
    Requests,      \* concurrent POST /sync handlers (any worker of the API)
    Connections,   \* broker_connections rows the user may come to own
    LegacyStub,    \* the ones whose stored credentials _build_adapter refuses
    Orders,        \* broker orders, one unit each
    Symbols,       \* broker symbols
    Instruments,   \* canonical instruments
    SymbolOf,      \* the symbol of an order
    SideOf,        \* "buy" or "sell"
    InstrumentOf,  \* what normalize_symbol resolves a symbol to; a symbol
                   \* outside its domain raises SymbolNotMappedError
    ErrorCodes,    \* the BrokerErrorCodes a read may fail with
    OrderPage,     \* how many orders get_orders asks for (500)
    NoRequest,     \* no one holds the lock
    SlowSync,      \* can a sync outlive _SYNC_LOCK_TTL?
    RedisFails     \* can a Redis command raise?

ASSUME OrdersAssumption ==
    /\ SymbolOf \in [Orders -> Symbols]
    /\ SideOf \in [Orders -> {"buy", "sell"}]
    /\ DOMAIN InstrumentOf \subseteq Symbols
    /\ InstrumentOf \in [DOMAIN InstrumentOf -> Instruments]
    /\ IsFiniteSet(Orders) /\ IsFiniteSet(Symbols) /\ IsFiniteSet(Instruments)
    /\ OrderPage \in Nat \ {0}

ASSUME ActorsAssumption ==
    /\ NoRequest \notin Requests
    /\ Connections # {} /\ LegacyStub \subseteq Connections
    /\ SlowSync \in BOOLEAN /\ RedisFails \in BOOLEAN

VARIABLES
    book,       \* broker: the status of each order, "none" before it is placed
    lock,       \* Redis: who set portfolio:sync:lock:{user}. The code stores "1"
                \* for everyone; who set it is history, and only LockExpires,
                \* which speaks of the age of the key, looks at it.
    status,     \* Postgres: broker_connections.status, "absent" before insertion
    positions,  \* Postgres: per connection, the committed rows of positions as a
                \* function from the instruments that have a row to quantities
    orders,     \* Postgres: likewise, from the orders that have a row to statuses
    audit,      \* Postgres: the newest audit_log row of a sync
    req         \* what each request has in hand (see RequestState)

dbVars == <<status, positions, orders, audit>>
vars   == <<book, lock, dbVars, req>>

Steps == {"idle", "acquire", "build", "fetchPositions", "loadPositions",
          "flushPositions", "fetchOrders", "loadOrders", "flushOrders",
          "commit", "release"}

(* The steps between taking the lock and giving it back, and the part of   *)
(* them that runs inside the transaction.                                  *)
GuardedSteps == Steps \ {"idle", "acquire"}

-----------------------------------------------------------------------------
(* The broker.                                                             *)

Units(filled, s, side) ==
    Cardinality({o \in filled : SymbolOf[o] = s /\ SideOf[o] = side})

(* get_positions: the quantity of a symbol, given the filled orders.       *)
Holding(filled, s) ==
    IF Units(filled, s, "buy") > Units(filled, s, "sell")
    THEN Units(filled, s, "buy") - Units(filled, s, "sell")
    ELSE 0

Filled(b) == {o \in Orders : b[o] = "filled"}
Placed(b) == {o \in Orders : b[o] # "none"}

(* The symbols of the response that resolve to an instrument.              *)
Listed(filled, i) ==
    {s \in DOMAIN InstrumentOf : InstrumentOf[s] = i /\ Holding(filled, s) > 0}
Unresolved(filled) ==
    {s \in Symbols \ DOMAIN InstrumentOf : Holding(filled, s) > 0}

(* Mutant of DbStatus: the broker's word is stored as it came.             *)
DbStatusVerbatim(s) == s

(* _ORDER_STATUS_TO_DB, with "pending" for a status it does not list.      *)
DbStatus(s) ==
    CASE s = "new"              -> "submitted"
      [] s = "partially_filled" -> "partial"
      [] s \in {"filled", "rejected"} -> s
      [] s \in {"canceled", "expired"} -> "cancelled"
      [] OTHER                  -> "pending"

DbStatuses == {"pending", "submitted", "partial", "filled", "cancelled", "rejected"}

BrokerMoves ==
    \E o \in Orders :
        /\ \/ book[o] = "none" /\ book' = [book EXCEPT ![o] = "new"]
           \/ book[o] = "new" /\ \E s \in {"filled", "canceled"} :
                /\ s = "filled" /\ SideOf[o] = "sell"
                     => Holding(Filled(book), SymbolOf[o]) > 0
                /\ book' = [book EXCEPT ![o] = s]
        /\ UNCHANGED <<lock, dbVars, req>>

-----------------------------------------------------------------------------
(* The requests.                                                           *)

Rows(D, V) == UNION {[E -> V] : E \in SUBSET D}
NoRows == [x \in {} |-> 0]
Overwritten(rows, written) ==
    [x \in DOMAIN rows \union DOMAIN written |->
        IF x \in DOMAIN written THEN written[x] ELSE rows[x]]
Quantities == 0 .. Cardinality(Orders)
Warnings == {"positions", "orders"} \X ErrorCodes
AuditRows == [conn : Connections, upserted : Nat, closed : Nat, skipped : Nat,
              warnings : SUBSET Warnings]
NoAudit == [conn |-> NoRequest]

RequestState ==
    [pc       : Steps,                        \* the next await
     conn     : Connections,                  \* the connection it selected
     warnings : SUBSET Warnings,              \* the broker reads that failed
     held     : SUBSET Orders,                \* the fills behind broker_positions
     listed   : Rows(Orders, {"new", "filled", "canceled"}),  \* broker_orders
     loaded   : Rows(Instruments, Quantities),  \* existing_by_instrument
     known    : Rows(Orders, DbStatuses),       \* by_broker_id
     locked   : SUBSET Instruments,           \* rows its transaction wrote
     wpos     : Rows(Instruments, Quantities),  \* quantities it wrote to them
     word     : Rows(Orders, DbStatuses),       \* order rows it wrote
     upserted : Nat, closed : Nat, skipped : Nat]

Idle ==
    [pc |-> "idle", conn |-> CHOOSE c \in Connections : TRUE, warnings |-> {},
     held |-> {}, listed |-> NoRows, loaded |-> NoRows, known |-> NoRows,
     locked |-> {}, wpos |-> NoRows, word |-> NoRows,
     upserted |-> 0, closed |-> 0, skipped |-> 0]

At(r, s) == req[r].pc = s
Guarded(r) == req[r].pc \in GuardedSteps

(* An exception or a lost database connection: Postgres drops everything   *)
(* the transaction wrote, and the finally block is what runs next.         *)
RolledBack(q) ==
    [q EXCEPT !.pc = "release", !.locked = {}, !.wpos = NoRows, !.word = NoRows]

Init ==
    /\ book = [o \in Orders |-> "none"]
    /\ lock = NoRequest
    /\ status = [c \in Connections |->
                    IF c \in LegacyStub THEN "active" ELSE "absent"]
    /\ positions = [c \in Connections |-> NoRows]
    /\ orders = [c \in Connections |-> NoRows]
    /\ audit = NoAudit
    /\ req = [r \in Requests |-> Idle]

(* POST /alpaca/credentials: a verified account becomes one more row. (The *)
(* stub rows are older than this route.)                                   *)
Connect(c) ==
    /\ c \notin LegacyStub /\ status[c] = "absent"
    /\ status' = [status EXCEPT ![c] = "active"]
    /\ UNCHANGED <<book, lock, positions, orders, audit, req>>

(* The handler starts and selects an active connection, LIMIT 1 and no     *)
(* ORDER BY. With none active it answers 404 and nothing happens.          *)
Start(r) ==
    /\ At(r, "idle")
    /\ \E c \in Connections :
        /\ status[c] = "active"
        /\ req' = [req EXCEPT ![r].pc = "acquire", ![r].conn = c]
    /\ UNCHANGED <<book, lock, dbVars>>

(* Mutant of Acquire: SET EX without NX.                                   *)
AcquireWithoutNX(r) ==
    /\ At(r, "acquire")
    /\ lock' = r
    /\ req' = [req EXCEPT ![r].pc = "build"]
    /\ UNCHANGED <<book, dbVars>>

(* Mutant of Acquire: the 409 path runs the finally block's DEL as well.   *)
AcquireReleasingOnConflict(r) ==
    /\ At(r, "acquire")
    /\ \/ /\ lock = NoRequest /\ lock' = r
          /\ req' = [req EXCEPT ![r].pc = "build"]
       \/ /\ lock # NoRequest /\ lock' = NoRequest
          /\ req' = [req EXCEPT ![r] = Idle]
    /\ UNCHANGED <<book, dbVars>>

(* SET NX EX. Taken: 409, and the finally block leaves the key alone. When *)
(* the command raises, the handler goes on as if it held the lock; whether *)
(* Redis executed the command before it failed is not known.               *)
Acquire(r) ==
    /\ At(r, "acquire")
    /\ \/ /\ lock = NoRequest /\ lock' = r
          /\ req' = [req EXCEPT ![r].pc = "build"]
       \/ /\ lock # NoRequest /\ lock' = lock
          /\ req' = [req EXCEPT ![r] = Idle]
       \/ /\ RedisFails
          /\ lock' \in (IF lock = NoRequest THEN {NoRequest, r} ELSE {lock})
          /\ req' = [req EXCEPT ![r].pc = "build"]
    /\ UNCHANGED <<book, dbVars>>

(* _build_adapter; a stub row is marked expired at once, in a commit of    *)
(* its own, and the request ends in 409.                                   *)
Build(r) ==
    /\ At(r, "build")
    /\ \/ /\ req[r].conn \notin LegacyStub
          /\ req' = [req EXCEPT ![r].pc = "fetchPositions"]
          /\ UNCHANGED status
       \/ /\ req[r].conn \in LegacyStub
          /\ status' = [status EXCEPT ![req[r].conn] = "expired"]
          /\ req' = [req EXCEPT ![r].pc = "release"]
    /\ UNCHANGED <<book, lock, positions, orders, audit>>

(* get_positions. A BrokerAPIError of any code becomes a warning and an    *)
(* empty list, and the sync goes on.                                       *)
FetchPositions(r) ==
    /\ At(r, "fetchPositions")
    /\ \/ req' = [req EXCEPT ![r].pc = "loadPositions", ![r].held = Filled(book)]
       \/ \E e \in ErrorCodes :
            req' = [req EXCEPT ![r].pc = "loadPositions",
                               ![r].warnings = {<<"positions", e>>}]
    /\ UNCHANGED <<book, lock, dbVars>>

(* The SELECT of _sync_positions: committed rows only.                     *)
LoadPositions(r) ==
    /\ At(r, "loadPositions")
    /\ req' = [req EXCEPT ![r].pc = "flushPositions",
                          ![r].loaded = positions[req[r].conn]]
    /\ UNCHANGED <<book, lock, dbVars>>

(* The rows existing_by_instrument does not have and the response does.    *)
Inserted(q) == {i \in Instruments : Listed(q.held, i) # {}} \ DOMAIN q.loaded

(* The values _sync_positions leaves in its rows: the last listed symbol   *)
(* of an instrument wins, a row that is not listed becomes 0.              *)
Targets(q) ==
    LET listed == {i \in Instruments : Listed(q.held, i) # {}}
    IN  {t \in [DOMAIN q.loaded \union listed -> Quantities] :
            \A i \in DOMAIN t :
                IF i \in listed
                THEN \E s \in Listed(q.held, i) : t[i] = Holding(q.held, s)
                ELSE t[i] = 0}

(* The unique constraint uq_positions_conn_instrument refuses the inserts: *)
(* another transaction has committed the row since the SELECT, or two      *)
(* listed symbols of one instrument each added a row of their own (the     *)
(* dictionary is not told about rows that the loop adds).                  *)
PositionConflict(q) ==
    \E i \in Inserted(q) :
        i \in DOMAIN positions[q.conn] \/ Cardinality(Listed(q.held, i)) > 1

(* Mutant of PositionsWritten: rows that are closed already are counted.   *)
PositionsWrittenCountingAll(q, t) ==
    LET changed == {i \in DOMAIN t : i \in DOMAIN q.loaded => t[i] # q.loaded[i]}
    IN  [q EXCEPT !.pc = "fetchOrders",
                  !.locked = DOMAIN t,
                  !.wpos = [i \in changed |-> t[i]],
                  !.upserted = Cardinality({s \in DOMAIN InstrumentOf : Holding(q.held, s) > 0}),
                  !.closed = Cardinality({i \in DOMAIN q.loaded : Listed(q.held, i) = {}}),
                  !.skipped = Cardinality(Unresolved(q.held))]

(* What _sync_positions hands to the flush. Every row gets a new as_of and *)
(* is written, hence locked; its quantity is part of the UPDATE only when  *)
(* it differs from the one loaded.                                         *)
PositionsWritten(q, t) ==
    LET changed == {i \in DOMAIN t : i \in DOMAIN q.loaded => t[i] # q.loaded[i]}
        listed  == {s \in DOMAIN InstrumentOf : Holding(q.held, s) > 0}
        closed  == {i \in DOMAIN q.loaded : Listed(q.held, i) = {} /\ q.loaded[i] # 0}
    IN  [q EXCEPT !.pc = "fetchOrders",
                  !.locked = DOMAIN t,
                  !.wpos = [i \in changed |-> t[i]],
                  !.upserted = Cardinality(listed),
                  !.closed = Cardinality(closed),
                  !.skipped = Cardinality(Unresolved(q.held))]

(* Mutant of FlushPositions: the same rows are sent again after an         *)
(* IntegrityError.                                                         *)
FlushPositionsRetrying(r) ==
    LET q == req[r] IN
    /\ At(r, "flushPositions") /\ ~PositionConflict(q)
    /\ \A u \in Requests \ {r} :
        req[u].conn = q.conn =>
            req[u].locked \intersect (DOMAIN q.loaded \union Inserted(q)) = {}
    /\ \E t \in Targets(q) : req' = [req EXCEPT ![r] = PositionsWritten(q, t)]
    /\ UNCHANGED <<book, lock, dbVars>>

(* The flush waits for any other transaction that wrote one of the rows.   *)
FlushPositions(r) ==
    LET q == req[r] IN
    /\ At(r, "flushPositions")
    /\ \A u \in Requests \ {r} :
        req[u].conn = q.conn =>
            req[u].locked \intersect (DOMAIN q.loaded \union Inserted(q)) = {}
    /\ IF PositionConflict(q)
       THEN req' = [req EXCEPT ![r] = RolledBack(q)]
       ELSE \E t \in Targets(q) : req' = [req EXCEPT ![r] = PositionsWritten(q, t)]
    /\ UNCHANGED <<book, lock, dbVars>>

(* One page of the orders of the account: all of them if they fit. Which   *)
(* ones it shows otherwise is the broker's choice.                         *)
Pages ==
    {page \in SUBSET Placed(book) :
        \/ page = Placed(book) /\ Cardinality(page) <= OrderPage
        \/ Cardinality(page) = OrderPage}

(* get_orders(open_only=False): there is no second page. A failure leaves  *)
(* an empty list.                                                          *)
FetchOrders(r) ==
    /\ At(r, "fetchOrders")
    /\ \/ \E page \in Pages :
            req' = [req EXCEPT ![r].pc = "loadOrders",
                               ![r].listed = [o \in page |-> book[o]]]
       \/ \E e \in ErrorCodes :
            req' = [req EXCEPT ![r].pc = "loadOrders",
                               ![r].warnings = @ \union {<<"orders", e>>}]
    /\ UNCHANGED <<book, lock, dbVars>>

(* The SELECT of _sync_orders.                                             *)
LoadOrders(r) ==
    /\ At(r, "loadOrders")
    /\ req' = [req EXCEPT ![r].pc = "flushOrders", ![r].known = orders[req[r].conn]]
    /\ UNCHANGED <<book, lock, dbVars>>

(* Mutant of OrdersWritten: known orders are left alone.                   *)
OrdersWrittenOnce(q) ==
    LET resolved == {o \in DOMAIN q.listed : SymbolOf[o] \in DOMAIN InstrumentOf}
    IN  [o \in resolved \ DOMAIN q.known |-> DbStatus(q.listed[o])]

(* The order rows _sync_orders writes: new ones, and those whose status is *)
(* not the one it loaded. Orders of an unresolved symbol are skipped.      *)
OrdersWritten(q) ==
    LET resolved == {o \in DOMAIN q.listed : SymbolOf[o] \in DOMAIN InstrumentOf}
        changed  == {o \in resolved :
                        o \in DOMAIN q.known => q.known[o] # DbStatus(q.listed[o])}
    IN  [o \in changed |-> DbStatus(q.listed[o])]

(* idempotency_key is unique, so the insert of an order that another       *)
(* transaction has committed since the SELECT is refused.                  *)
OrderConflict(q) ==
    \E o \in DOMAIN OrdersWritten(q) :
        o \notin DOMAIN q.known /\ o \in DOMAIN orders[q.conn]

FlushOrders(r) ==
    LET q == req[r] IN
    /\ At(r, "flushOrders")
    /\ \A u \in Requests \ {r} :
        req[u].conn = q.conn =>
            DOMAIN req[u].word \intersect DOMAIN OrdersWritten(q) = {}
    /\ req' = [req EXCEPT ![r] =
                IF OrderConflict(q) THEN RolledBack(q)
                ELSE [q EXCEPT !.pc = "commit", !.word = OrdersWritten(q)]]
    /\ UNCHANGED <<book, lock, dbVars>>

(* The audit row joins the transaction, and the route commits it.          *)
Commit(r) ==
    LET q == req[r] IN
    /\ At(r, "commit")
    /\ positions' = [positions EXCEPT ![q.conn] = Overwritten(@, q.wpos)]
    /\ orders' = [orders EXCEPT ![q.conn] = Overwritten(@, q.word)]
    /\ audit' = [conn |-> q.conn, upserted |-> q.upserted, closed |-> q.closed,
                 skipped |-> q.skipped, warnings |-> q.warnings]
    /\ req' = [req EXCEPT ![r].pc = "release", ![r].locked = {},
                          ![r].wpos = NoRows, ![r].word = NoRows]
    /\ UNCHANGED <<book, lock, status>>

(* Anything else that goes wrong between the lock and the commit: a broker *)
(* the route does not support, a payload the adapter cannot parse, a lost  *)
(* database connection, a cancelled handler.                               *)
Raise(r) ==
    /\ Guarded(r) /\ ~At(r, "release")
    /\ req' = [req EXCEPT ![r] = RolledBack(@)]
    /\ UNCHANGED <<book, lock, dbVars>>

(* The finally block deletes the key, whoever set it. An error is          *)
(* suppressed, and the key then waits for its TTL.                         *)
Release(r) ==
    /\ At(r, "release")
    /\ \/ lock' = NoRequest
       \/ RedisFails /\ UNCHANGED lock
    /\ req' = [req EXCEPT ![r] = Idle]
    /\ UNCHANGED <<book, dbVars>>

(* The worker dies: Postgres rolls back, the key stays.                    *)
Crash(r) ==
    /\ ~At(r, "idle")
    /\ req' = [req EXCEPT ![r] = Idle]
    /\ UNCHANGED <<book, lock, dbVars>>

(* Mutant of LockExpires: the key was set without EX.                      *)
LockNeverExpires == FALSE /\ UNCHANGED vars

(* The TTL of the key. Without SlowSync no handler is still between the    *)
(* lock and its release when the key it set turns 60 seconds old.          *)
LockExpires ==
    /\ lock # NoRequest
    /\ SlowSync \/ ~Guarded(lock)
    /\ lock' = NoRequest
    /\ UNCHANGED <<book, dbVars, req>>

Handle(r) ==
    \/ Acquire(r) \/ Build(r)
    \/ FetchPositions(r) \/ LoadPositions(r) \/ FlushPositions(r)
    \/ FetchOrders(r) \/ LoadOrders(r) \/ FlushOrders(r)
    \/ Commit(r) \/ Release(r)

Next ==
    \/ BrokerMoves
    \/ \E c \in Connections : Connect(c)
    \/ \E r \in Requests : Start(r) \/ Handle(r) \/ Raise(r) \/ Crash(r)
    \/ LockExpires

Spec == Init /\ [][Next]_vars

(* Handlers keep running, and a transaction that waits for a row lock gets *)
(* it in turn, because Postgres queues the waiters: hence strong fairness  *)
(* of the two flushes. Redis removes expired keys.                         *)
Fairness ==
    /\ \A r \in Requests :
        /\ WF_vars(Handle(r))
        /\ SF_vars(FlushPositions(r)) /\ SF_vars(FlushOrders(r))
    /\ WF_vars(LockExpires)

FairSpec == Spec /\ Fairness

-----------------------------------------------------------------------------
(* Every row, lock, audit row and handler has the shape its table or its step in *)
(* api/portfolio.py gives it: no status outside the vocabulary of the database.  *)
TypeOK ==
    /\ book \in [Orders -> {"none", "new", "filled", "canceled"}]
    /\ lock \in Requests \union {NoRequest}
    /\ status \in [Connections -> {"absent", "active", "expired"}]
    /\ positions \in [Connections -> Rows(Instruments, Quantities)]
    /\ orders \in [Connections -> Rows(Orders, DbStatuses)]
    /\ audit \in AuditRows \union {NoAudit}
    /\ req \in [Requests -> RequestState]

(* "Sync is guarded by a per-user Redis lock so two concurrent triggers    *)
(* for the same user don't race" (api/portfolio.py): at most one request   *)
(* of the user is between taking the lock and giving it back.              *)
SyncsExclude ==
    \A r, u \in Requests : Guarded(r) /\ Guarded(u) => r = u

(* What Postgres holds after a sync whose position read succeeded is what  *)
(* the broker held when it was asked: listed instruments at a listed       *)
(* quantity, every other row at 0. The SELECT, the UPDATE of only what     *)
(* changed and the commit are apart, so this needs the lock.               *)
CommitMirrorsBroker ==
    [][\A r \in Requests : LET q == req[r] IN
        Commit(r) /\ (\A e \in q.warnings : e[1] # "positions") =>
            \A i \in Instruments :
                LET row == positions'[q.conn] IN
                IF Listed(q.held, i) # {}
                THEN /\ i \in DOMAIN row
                     /\ \E s \in Listed(q.held, i) : row[i] = Holding(q.held, s)
                ELSE i \in DOMAIN row => row[i] = 0]_vars

(* "every sync call writes an audit_log entry with summary counts so we    *)
(* can diff syncs forensically": the number of closed positions in the     *)
(* audit row is the number of rows that the commit takes to 0.             *)
AuditCountsTheDiff ==
    [][\A r \in Requests : LET c == req[r].conn IN
        Commit(r) =>
            audit'.closed = Cardinality({i \in DOMAIN positions[c] :
                                positions[c][i] # 0 /\ positions'[c][i] = 0})]_vars

(* "Never delete orders": a committed order row stays, and one that the    *)
(* broker has finished with is never reopened by an older answer.          *)
OrdersNeverRegress ==
    [][\A c \in Connections : \A o \in DOMAIN orders[c] :
        /\ o \in DOMAIN orders'[c]
        /\ orders[c][o] \in {"filled", "cancelled"} => orders'[c][o] = orders[c][o]]_vars

(* Positions are read before orders, so a sync in which both reads worked  *)
(* never stores a holding whose order it does not show as filled, as long  *)
(* as the orders of the account fit in one page (base.py: get_orders       *)
(* returns "orders (open + historical)").                                  *)
HoldingsHaveTheirOrders ==
    [][\A r \in Requests : LET q == req[r] IN
        Commit(r) /\ q.warnings = {} =>
            \A o \in q.held : SymbolOf[o] \in DOMAIN InstrumentOf =>
                o \in DOMAIN orders'[q.conn] /\ orders'[q.conn][o] = "filled"]_vars

(* "a position previously present but absent from the broker response is   *)
(* updated to quantity=0": a position is closed only by a sync to which    *)
(* the broker did respond.                                                 *)
ClosedOnlyOnAResponse ==
    [][\A r \in Requests : LET c == req[r].conn IN
        Commit(r) /\ (\E i \in DOMAIN positions[c] :
                        positions[c][i] # 0 /\ positions'[c][i] = 0)
            => \A e \in req[r].warnings : e[1] # "positions"]_vars

(* Every request ends, also when two of them wait for each other's rows.   *)
SyncFinishes == \A r \in Requests : ~At(r, "idle") ~> At(r, "idle")

(* "Guards against stuck locks if the process dies mid-sync": the lock     *)
(* never stays with anyone.                                                *)
LockIsFreed == lock # NoRequest ~> lock = NoRequest
=============================================================================
