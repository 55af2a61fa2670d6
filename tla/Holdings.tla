----------------------------- MODULE Holdings -----------------------------
(***************************************************************************)
(* Whose positions a user's portfolio is made of: accounts are linked      *)
(* (api/broker_auth.py), a sync turns what the adapter lists               *)
(* (brokers/zerodha.py) into positions (services/portfolio_sync.py,        *)
(* abstracted to the lookups of SymbolMapping and the commit), and the     *)
(* summary adds up the positions of all of the user's connections          *)
(* (services/portfolio_summary.py), here in their native currencies.       *)
(***************************************************************************)
EXTENDS SymbolMapping, SequencesExt

CONSTANTS
    Conns,      \* broker_connections.id; a connection's syncs are a Txs
    Owner,      \* the user of a connection
    Accounts,
    Lists,      \* an account: [broker, held, net, orders], see Listed
    Currencies,
    Home        \* the currency of an exchange

Rows == [symbol : STRING, exchange : STRING, qty : Int]

ASSUME HoldingsAssumption ==
    /\ Conns = Txs /\ IsFiniteSet(Conns) /\ DOMAIN Owner = Conns
    /\ Null \notin STRING
    /\ \A a \in Accounts : /\ Lists[a].held \in Seq(Rows) /\ Lists[a].net \in Seq(Rows)
                         /\ Lists[a].orders \in Seq(STRING)

VARIABLES
    conn,       \* broker_connections: the account, Null before it is linked
    position,   \* positions: [instrument -> quantity] of each connection
    skipped     \* history: did the last sync of a connection skip a symbol?

vars == <<mapVars, conn, position, skipped>>

NoHolding == [i \in Listings |-> 0]

-----------------------------------------------------------------------------
(* What an adapter answers. ZerodhaAdapter lists what is held, then the    *)
(* net positions that are not flat and not listed yet: of two products of  *)
(* one symbol, the first.                                                  *)

Lot(symbol, exchange, qty) == [symbol |-> symbol, exchange |-> exchange, qty |-> qty]
SameLot(x, y) == x.symbol = y.symbol /\ x.exchange = y.exchange

(* Mutant of Listed: flat rows are listed, and rows of what is held.       *)
ListedAll(a) == Lists[a].held \o Lists[a].net

Listed(a) ==
    LET add(seen, x) == IF x.qty = 0 \/ \E n \in DOMAIN seen : SameLot(x, seen[n]) THEN seen
                        ELSE Append(seen, x)
    IN  FoldLeft(add, Lists[a].held, Lists[a].net)

(* The symbols a sync looks up: of the positions, then of the orders.      *)
Wants(a) == Listed(a) \o [n \in DOMAIN Lists[a].orders |-> Lot(Lists[a].orders[n], Null, 0)]

Init ==
    /\ InitMappings
    /\ conn = [c \in Conns |-> Null]
    /\ position = [c \in Conns |-> NoHolding]
    /\ skipped = [c \in Conns |-> TRUE]

-----------------------------------------------------------------------------
(* connect_alpaca_credentials: the account was verified. The row is new,   *)
(* whether or not the account is linked already.                           *)
Connect(c, a) ==
    /\ conn[c] = Null
    /\ conn' = [conn EXCEPT ![c] = a]
    /\ UNCHANGED <<mapVars, position, skipped>>

(* A sync of the connection, under the lock of its user.                   *)
StartSync(c) ==
    /\ conn[c] # Null
    /\ \A o \in Conns : Owner[o] = Owner[c] => ~Active(o)
    /\ Begin(c, Lists[conn[c]].broker, Wants(conn[c]))
    /\ UNCHANGED <<conn, position, skipped>>

LookUp(c) ==
    /\ SelectMapping(c) \/ Infer(c) \/ Insert(c) \/ AbortMappings(c)
    /\ UNCHANGED <<conn, position, skipped>>

(* The positions a sync writes: of two lots of one instrument the later    *)
(* one overwrites; what the broker no longer lists becomes 0.              *)
Synced(c) ==
    LET lots == Listed(conn[c])
        of(i) == {n \in DOMAIN lots : tx[c].got[n] = i}
    IN  [i \in Listings |-> IF of(i) = {} THEN 0
                            ELSE lots[CHOOSE n \in of(i) : \A k \in of(i) : k <= n].qty]

(* Two lots of an instrument without a row are two rows for it.            *)
Collides(c) ==
    \E m, n \in DOMAIN Listed(conn[c]) :
        m # n /\ tx[c].got[m] # Null /\ tx[c].got[m] = tx[c].got[n]
              /\ position[c][tx[c].got[m]] = 0

CommitSync(c) ==
    /\ CommitMappings(c) /\ ~Collides(c)
    /\ position' = [position EXCEPT ![c] = Synced(c)]
    /\ skipped' = [skipped EXCEPT ![c] =
            \E n \in DOMAIN Listed(conn[c]) : tx[c].got[n] = Null]
    /\ UNCHANGED conn

SeedInstrument(i) == Seed(i) /\ UNCHANGED <<conn, position, skipped>>

ResolveInstrument(h) ==
    /\ EndResolve(h) \/ \E i \in Listings : Resolve(h, i)
    /\ UNCHANGED <<conn, position, skipped>>

Sync(c) == StartSync(c) \/ LookUp(c) \/ CommitSync(c)

Next ==
    \/ \E c \in Conns : Sync(c) \/ \E a \in Accounts : Connect(c, a)
    \/ \E i \in Listings : SeedInstrument(i)
    \/ \E h \in Handlers : ResolveInstrument(h)

Spec == Init /\ [][Next]_vars

-----------------------------------------------------------------------------
(* The summary, before it converts the currencies.                         *)

(* The positions of all connections of a user, in one currency.            *)
Native(u, cur) ==
    SumFunctionOnSet([x \in Conns \X Listings |-> position[x[1]][x[2]]],
        {x \in Conns \X Listings : Owner[x[1]] = u /\ Home[x[2].exchange] = cur})

-----------------------------------------------------------------------------
(* Every variable keeps its type.                                          *)
TypeOK ==
    /\ instruments \subseteq Listings
    /\ conn \in [Conns -> Accounts \union {Null}]
    /\ position \in [Conns -> [Listings -> Int]]
    /\ \A t \in Txs : /\ tx[t].pc \in {"closed", "select", "infer", "insert", "done", "failed"}
                      /\ tx[t].pc # "closed" => conn[t] # Null
                      /\ \A r \in tx[t].own : r.inst \in instruments

AmountHeld(a, cur) ==
    LET lots == Listed(a)
    IN  SumFunctionOnSet([n \in DOMAIN lots |-> lots[n].qty],
                         {n \in DOMAIN lots : Home[Canonical(lots[n].exchange)] = cur})

(* While no account is linked twice and nothing was skipped, the summary   *)
(* is worth what the brokers list: no lot is lost in, or counted under,    *)
(* another one's instrument, whatever races the mappings were made in.     *)
TotalsMirrorAccounts ==
    \A u \in {Owner[c] : c \in Conns} :
        LET mine == {c \in Conns : Owner[c] = u /\ conn[c] # Null}
        IN  /\ \A c \in mine : ~skipped[c]
            /\ \A c, d \in mine : c # d => conn[c] # conn[d]
            => \A cur \in Currencies :
                  Native(u, cur) =
                      SumFunctionOnSet([c \in mine |-> AmountHeld(conn[c], cur)], mine)

(* The one account is counted once: false, a second link is a second row.  *)
CountedOnce ==
    \A c, d \in Conns : c # d /\ Owner[c] = Owner[d] /\ conn[c] # Null => conn[c] # conn[d]
=============================================================================
