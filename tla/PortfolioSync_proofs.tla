------------------------ MODULE PortfolioSync_proofs ------------------------
(* Theorems about PortfolioSync, for any number of handlers, connections,   *)
(* orders, symbols and instruments.                                         *)
EXTENDS PortfolioSync, FiniteSetTheorems, TLAPS

-----------------------------------------------------------------------------
(* The operators the types rest on.                                         *)

(* A transaction starts with no row of its own. *)
LEMMA NoRowsType == ASSUME NEW D, NEW V PROVE NoRows \in Rows(D, V)
  <1>1. NoRows \in [{} -> V]
    BY DEF NoRows
  <1>2. {} \in SUBSET D
    OBVIOUS
  <1> QED BY <1>1, <1>2 DEF Rows

(* How a transaction's rows are put together ... *)
LEMMA RowsMember ==
  ASSUME NEW D, NEW V, NEW E \in SUBSET D, NEW f \in [E -> V]
  PROVE  f \in Rows(D, V)
  BY DEF Rows

(* ... and taken apart. *)
LEMMA RowsElim ==
  ASSUME NEW D, NEW V, NEW f \in Rows(D, V)
  PROVE  DOMAIN f \in SUBSET D /\ f \in [DOMAIN f -> V]
  BY DEF Rows

(* A commit (`session.commit`) lays its rows over those of the table. *)
LEMMA RowsOverwritten ==
  ASSUME NEW D, NEW V, NEW f \in Rows(D, V), NEW g \in Rows(D, V)
  PROVE  Overwritten(f, g) \in Rows(D, V)
  <1>1. f \in [DOMAIN f -> V] /\ g \in [DOMAIN g -> V]
    BY RowsElim
  <1>2. Overwritten(f, g) \in [DOMAIN f \union DOMAIN g -> V]
    BY <1>1 DEF Overwritten
  <1>3. DOMAIN f \union DOMAIN g \in SUBSET D
    BY RowsElim
  <1> QED BY <1>2, <1>3, RowsMember

(* The audit row counts at most as many positions as there are instruments. *)
LEMMA SubsetCount ==
  ASSUME NEW S, NEW T, IsFiniteSet(S), T \subseteq S PROVE Cardinality(T) \in Nat
  BY FS_Subset, FS_CardinalityType

(* The state a handler is created with has its type. *)
LEMMA IdleType == Idle \in RequestState
  <1>1. (CHOOSE c \in Connections : TRUE) \in Connections
    BY ActorsAssumption
  <1> QED
    BY <1>1, NoRowsType, SMTT(30) DEF Idle, RequestState, Steps

(* And so has what a rollback leaves. *)
LEMMA RolledBackType ==
  ASSUME NEW q \in RequestState PROVE RolledBack(q) \in RequestState
  <1>1. NoRows \in Rows(Instruments, Quantities) /\ NoRows \in Rows(Orders, DbStatuses)
    BY NoRowsType
  <1>2. "release" \in Steps
    BY DEF Steps
  <1> QED BY <1>1, <1>2 DEF RolledBack, RequestState

(* What the status table answers is a status of the database. *)
LEMMA DbStatusType == ASSUME NEW s PROVE DbStatus(s) \in DbStatuses
  BY DEF DbStatus, DbStatuses

(* sync_orders writes an order row for every order of the account, and no other. *)
LEMMA OrdersWrittenType ==
  ASSUME NEW q \in RequestState PROVE OrdersWritten(q) \in Rows(Orders, DbStatuses)
  <1> DEFINE D == {o \in {x \in DOMAIN q.listed : SymbolOf[x] \in DOMAIN InstrumentOf} :
                     o \in DOMAIN q.known => q.known[o] # DbStatus(q.listed[o])}
  <1>1. q.listed \in Rows(Orders, {"new", "filled", "canceled"})
    BY DEF RequestState
  <1>2. DOMAIN q.listed \subseteq Orders
    BY <1>1, RowsElim
  <1>3. D \in SUBSET Orders
    BY <1>2
  <1>4. [o \in D |-> DbStatus(q.listed[o])] \in [D -> DbStatuses]
    BY DbStatusType
  <1>5. OrdersWritten(q) = [o \in D |-> DbStatus(q.listed[o])]
    BY DEF OrdersWritten
  <1> QED BY <1>3, <1>4, <1>5, RowsMember

(* What one step of a request leaves of it has its type. *)
LEMMA StepType ==
  ASSUME NEW q \in RequestState, NEW s \in Steps
  PROVE  /\ \A c \in Connections : [q EXCEPT !.pc = s, !.conn = c] \in RequestState
         /\ \A l \in Rows(Instruments, Quantities) :
               [q EXCEPT !.pc = s, !.loaded = l] \in RequestState
         /\ \A k \in Rows(Orders, DbStatuses) :
               /\ [q EXCEPT !.pc = s, !.known = k] \in RequestState
               /\ [q EXCEPT !.pc = s, !.word = k] \in RequestState
  BY DEF RequestState

(* A flush writes rows of the right types. *)
LEMMA FlushedType ==
  ASSUME NEW q \in RequestState, NEW L \in SUBSET Instruments,
         NEW w \in Rows(Instruments, Quantities),
         NEW m \in Nat, NEW n \in Nat, NEW k \in Nat
  PROVE  [q EXCEPT !.pc = "fetchOrders", !.locked = L, !.wpos = w,
                   !.upserted = m, !.closed = n, !.skipped = k] \in RequestState
  BY DEF RequestState, Steps

(* sync_positions does so for the positions, those it takes to zero included. *)
LEMMA PositionsWrittenType ==
  ASSUME NEW q \in RequestState, NEW t \in Targets(q)
  PROVE  PositionsWritten(q, t) \in RequestState
  <1> DEFINE L == {i \in Instruments : Listed(q.held, i) # {}}
             C == {i \in DOMAIN t : i \in DOMAIN q.loaded => t[i] # q.loaded[i]}
  <1>1. q.loaded \in Rows(Instruments, Quantities)
    BY DEF RequestState
  <1>2. DOMAIN q.loaded \subseteq Instruments
    BY <1>1, RowsElim
  <1>3. t \in [DOMAIN q.loaded \union L -> Quantities]
    BY DEF Targets
  <1>4. DOMAIN t \in SUBSET Instruments
    BY <1>2, <1>3
  <1>5. [i \in C |-> t[i]] \in [C -> Quantities]
    BY <1>3
  <1>6. [i \in C |-> t[i]] \in Rows(Instruments, Quantities)
    BY <1>4, <1>5, RowsMember
  <1>7. Cardinality({s \in DOMAIN InstrumentOf : Holding(q.held, s) > 0}) \in Nat
    BY OrdersAssumption, SubsetCount
  <1>8. Cardinality({i \in DOMAIN q.loaded : Listed(q.held, i) = {} /\ q.loaded[i] # 0}) \in Nat
    BY <1>2, OrdersAssumption, SubsetCount
  <1>9. Cardinality(Unresolved(q.held)) \in Nat
    BY OrdersAssumption, SubsetCount DEF Unresolved
  <1> QED
    BY <1>4, <1>6, <1>7, <1>8, <1>9, FlushedType DEF PositionsWritten

-----------------------------------------------------------------------------
(* Type correctness.                                                        *)

(* The type invariant: whatever faults occur, every sync request, row, lock and  *)
(* log line has the shape the handler (api/portfolio.py) and its tables give it. *)
THEOREM TypeCorrect == Spec => []TypeOK
  <1>1. Init => TypeOK
    BY IdleType, NoRowsType DEF Init, TypeOK
  <1>2. TypeOK /\ [Next]_vars => TypeOK'
    <2> SUFFICES ASSUME TypeOK, [Next]_vars PROVE TypeOK'
      OBVIOUS
    <2> USE DEF TypeOK
    <2>1. CASE BrokerMoves
      BY <2>1 DEF BrokerMoves, dbVars
    <2>2. ASSUME NEW c \in Connections, Connect(c) PROVE TypeOK'
      BY <2>2 DEF Connect
    <2>3. ASSUME NEW r \in Requests, Start(r) PROVE TypeOK'
      <3>1. \A c \in Connections :
               [req[r] EXCEPT !.pc = "acquire", !.conn = c] \in RequestState
        BY StepType DEF Steps
      <3>2. PICK c \in Connections :
               req' = [req EXCEPT ![r].pc = "acquire", ![r].conn = c]
        BY <2>3 DEF Start
      <3>3. req' = [req EXCEPT ![r] = [req[r] EXCEPT !.pc = "acquire", !.conn = c]]
        BY <3>2
      <3>4. req' \in [Requests -> RequestState]
        BY <3>1, <3>3
      <3> QED BY <2>3, <3>4 DEF Start, dbVars
    <2>4. ASSUME NEW r \in Requests, Acquire(r) PROVE TypeOK'
      <3>1. [req EXCEPT ![r].pc = "build"] \in [Requests -> RequestState]
        <4>1. [req[r] EXCEPT !.pc = "build"] \in RequestState
          BY DEF RequestState, Steps
        <4> QED BY <4>1
      <3>2. [req EXCEPT ![r] = Idle] \in [Requests -> RequestState]
        BY IdleType
      <3> QED BY <2>4, <3>1, <3>2 DEF Acquire, dbVars
    <2>5. ASSUME NEW r \in Requests, Build(r) PROVE TypeOK'
      BY <2>5 DEF Build, At, RequestState, Steps
    <2>6. ASSUME NEW r \in Requests, FetchPositions(r) PROVE TypeOK'
      BY <2>6 DEF FetchPositions, At, dbVars, RequestState, Steps, Filled, Warnings
    <2>7. ASSUME NEW r \in Requests, LoadPositions(r) PROVE TypeOK'
      <3>1. positions[req[r].conn] \in Rows(Instruments, Quantities)
        BY DEF RequestState
      <3>2. [req[r] EXCEPT !.pc = "flushPositions", !.loaded = positions[req[r].conn]]
               \in RequestState
        BY <3>1, StepType DEF Steps
      <3>3. req' \in [Requests -> RequestState]
        BY <2>7, <3>2 DEF LoadPositions
      <3> QED BY <2>7, <3>3 DEF LoadPositions, dbVars
    <2>8. ASSUME NEW r \in Requests, FlushPositions(r) PROVE TypeOK'
      <3>1. \A t \in Targets(req[r]) : PositionsWritten(req[r], t) \in RequestState
        BY PositionsWrittenType
      <3>2. RolledBack(req[r]) \in RequestState
        BY RolledBackType
      <3>3. req' \in [Requests -> RequestState]
        BY <2>8, <3>1, <3>2 DEF FlushPositions
      <3> QED BY <2>8, <3>3 DEF FlushPositions, dbVars
    <2>9. ASSUME NEW r \in Requests, FetchOrders(r) PROVE TypeOK'
      <3>1. req[r] \in RequestState
        OBVIOUS
      <3>2. ASSUME NEW page \in Pages,
                   req' = [req EXCEPT ![r].pc = "loadOrders", ![r].listed = [o \in page |-> book[o]]]
            PROVE  req' \in [Requests -> RequestState]
        <4> DEFINE list == [o \in page |-> book[o]]
        <4>1. page \in SUBSET Orders /\ \A o \in page : book[o] \in {"new", "filled", "canceled"}
          BY DEF Pages, Placed
        <4>2. list \in [page -> {"new", "filled", "canceled"}]
          BY <4>1
        <4>3. list \in Rows(Orders, {"new", "filled", "canceled"})
          BY <4>1, <4>2, RowsMember
        <4>4. req' = [req EXCEPT ![r] = [req[r] EXCEPT !.pc = "loadOrders", !.listed = list]]
          BY <3>2
        <4> HIDE DEF list
        <4>5. [req[r] EXCEPT !.pc = "loadOrders", !.listed = list] \in RequestState
          BY <3>1, <4>3 DEF RequestState, Steps
        <4> QED
          BY <4>4, <4>5
      <3>3. ASSUME NEW e \in ErrorCodes,
                   req' = [req EXCEPT ![r].pc = "loadOrders",
                                      ![r].warnings = @ \union {<<"orders", e>>}]
            PROVE  req' \in [Requests -> RequestState]
        <4> DEFINE w == req[r].warnings \union {<<"orders", e>>}
        <4>1. w \in SUBSET Warnings
          BY <3>1 DEF RequestState, Warnings
        <4>2. req' = [req EXCEPT ![r] = [req[r] EXCEPT !.pc = "loadOrders", !.warnings = w]]
          BY <3>3
        <4> HIDE DEF w
        <4>3. [req[r] EXCEPT !.pc = "loadOrders", !.warnings = w] \in RequestState
          BY <3>1, <4>1 DEF RequestState, Steps
        <4> QED
          BY <4>2, <4>3
      <3>4. req' \in [Requests -> RequestState]
        BY <2>9, <3>2, <3>3 DEF FetchOrders
      <3> QED
        BY <2>9, <3>4 DEF FetchOrders, dbVars
    <2>10. ASSUME NEW r \in Requests, LoadOrders(r) PROVE TypeOK'
      <3>1. orders[req[r].conn] \in Rows(Orders, DbStatuses)
        BY DEF RequestState
      <3>2. [req[r] EXCEPT !.pc = "flushOrders", !.known = orders[req[r].conn]]
               \in RequestState
        BY <3>1, StepType DEF Steps
      <3>3. req' \in [Requests -> RequestState]
        BY <2>10, <3>2 DEF LoadOrders
      <3> QED BY <2>10, <3>3 DEF LoadOrders, dbVars
    <2>11. ASSUME NEW r \in Requests, FlushOrders(r) PROVE TypeOK'
      <3>1. [req[r] EXCEPT !.pc = "commit", !.word = OrdersWritten(req[r])] \in RequestState
        <4>1. OrdersWritten(req[r]) \in Rows(Orders, DbStatuses)
          BY OrdersWrittenType
        <4> QED BY <4>1, StepType DEF Steps
      <3>2. RolledBack(req[r]) \in RequestState
        BY RolledBackType
      <3>3. req' \in [Requests -> RequestState]
        BY <2>11, <3>1, <3>2 DEF FlushOrders
      <3> QED BY <2>11, <3>3 DEF FlushOrders, dbVars
    <2>12. ASSUME NEW r \in Requests, Commit(r) PROVE TypeOK'
      <3> DEFINE c == req[r].conn
      <3>1. c \in Connections /\ req[r].wpos \in Rows(Instruments, Quantities)
               /\ req[r].word \in Rows(Orders, DbStatuses)
        BY DEF RequestState
      <3>2. Overwritten(positions[c], req[r].wpos) \in Rows(Instruments, Quantities)
        BY <3>1, RowsOverwritten
      <3>3. Overwritten(orders[c], req[r].word) \in Rows(Orders, DbStatuses)
        BY <3>1, RowsOverwritten
      <3>4. positions' \in [Connections -> Rows(Instruments, Quantities)]
        BY <2>12, <3>1, <3>2 DEF Commit
      <3>5. orders' \in [Connections -> Rows(Orders, DbStatuses)]
        BY <2>12, <3>1, <3>3 DEF Commit
      <3>6. audit' \in AuditRows
        BY <2>12 DEF Commit, AuditRows, RequestState
      <3>7. [req[r] EXCEPT !.pc = "release", !.locked = {}, !.wpos = NoRows, !.word = NoRows]
               \in RequestState
        BY RolledBackType DEF RolledBack
      <3>8. req' \in [Requests -> RequestState]
        BY <2>12, <3>7 DEF Commit
      <3> QED BY <2>12, <3>4, <3>5, <3>6, <3>8 DEF Commit
    <2>13. ASSUME NEW r \in Requests, Raise(r) PROVE TypeOK'
      BY <2>13, RolledBackType DEF Raise, dbVars
    <2>14. ASSUME NEW r \in Requests, Release(r) PROVE TypeOK'
      BY <2>14, IdleType DEF Release, dbVars
    <2>15. ASSUME NEW r \in Requests, Crash(r) PROVE TypeOK'
      BY <2>15, IdleType DEF Crash, dbVars
    <2>16. CASE LockExpires
      BY <2>16 DEF LockExpires, dbVars
    <2>17. CASE UNCHANGED vars
      BY <2>17 DEF vars, dbVars
    <2> QED
      BY <2>1, <2>2, <2>3, <2>4, <2>5, <2>6, <2>7, <2>8, <2>9, <2>10, <2>11,
         <2>12, <2>13, <2>14, <2>15, <2>16, <2>17 DEF Next, Handle
  <1> QED BY <1>1, <1>2, PTL DEF Spec

-----------------------------------------------------------------------------
(* When no sync outlives its key and Redis does not fail, the key in Redis  *)
(* is the key of whoever is guarded by it.                                  *)

Reliable == ~SlowSync /\ ~RedisFails

HolderInv == \A r \in Requests : Guarded(r) => lock = r

(* At the start nobody holds the sync lock. *)
LEMMA HolderInitial == Init => HolderInv
  BY DEF Init, HolderInv, Guarded, GuardedSteps, Idle

(* Every step of a handler, and every expiry, keeps the lock with the one handler *)
(* that is past SET NX and before its DEL.                                        *)
LEMMA HolderStep ==
  ASSUME Reliable, TypeOK, HolderInv, [Next]_vars PROVE HolderInv'
  <1> USE DEF HolderInv, Guarded, GuardedSteps, At, TypeOK
  <1> DEFINE Others(r) == \A u \in Requests \ {r} : req'[u] = req[u]
  <1>1. ASSUME NEW r \in Requests, Acquire(r) PROVE HolderInv'
    <2>1. Others(r)
      BY <1>1 DEF Acquire
    <2>2. CASE lock = NoRequest
      BY <1>1, <2>1, <2>2, ActorsAssumption DEF Acquire, Reliable
    <2>3. CASE lock # NoRequest
      <3>1. req'[r] = Idle /\ lock' = lock
        BY <1>1, <2>3 DEF Acquire, Reliable
      <3> QED BY <2>1, <3>1 DEF Idle
    <2> QED BY <2>2, <2>3
  <1>2. ASSUME NEW r \in Requests, Release(r) PROVE HolderInv'
    <2>1. lock = r /\ req'[r] = Idle
      BY <1>2 DEF Release, Steps
    <2>2. Others(r)
      BY <1>2 DEF Release
    <2> QED BY <2>1, <2>2 DEF Idle
  <1>3. ASSUME NEW r \in Requests, Crash(r) PROVE HolderInv'
    BY <1>3 DEF Crash, Idle
  <1>4. ASSUME NEW r \in Requests, Start(r) PROVE HolderInv'
    <2>1. req'[r].pc = "acquire" /\ Others(r) /\ lock' = lock
      BY <1>4 DEF Start, RequestState
    <2> QED BY <2>1
  <1>5. ASSUME NEW r \in Requests,
               Others(r), lock' = lock, Guarded(r)
        PROVE  HolderInv'
    BY <1>5
  <1>6. ASSUME NEW r \in Requests,
               Build(r) \/ FetchPositions(r) \/ LoadPositions(r)
                 \/ FetchOrders(r) \/ LoadOrders(r) \/ FlushOrders(r)
        PROVE  HolderInv'
    <2>1. Others(r) /\ lock' = lock
      BY <1>6 DEF Build, FetchPositions, LoadPositions, FetchOrders, LoadOrders, FlushOrders
    <2>2. Guarded(r)
      BY <1>6 DEF Build, FetchPositions, LoadPositions, FetchOrders, LoadOrders, FlushOrders, Steps
    <2> QED BY <2>1, <2>2, <1>5
  <1>7. ASSUME NEW r \in Requests, FlushPositions(r) \/ Commit(r) \/ Raise(r)
        PROVE  HolderInv'
    <2>1. Others(r) /\ lock' = lock
      BY <1>7 DEF FlushPositions, Commit, Raise
    <2>2. Guarded(r)
      BY <1>7 DEF FlushPositions, Commit, Raise, Steps
    <2> QED BY <2>1, <2>2, <1>5
  <1>8. CASE LockExpires
    BY <1>8 DEF LockExpires, Reliable
  <1>9. CASE BrokerMoves \/ (\E c \in Connections : Connect(c)) \/ UNCHANGED vars
    BY <1>9 DEF BrokerMoves, Connect, vars
  <1> QED
    BY <1>1, <1>2, <1>3, <1>4, <1>6, <1>7, <1>8, <1>9 DEF Next, Handle

(* Two syncs of one user never run at the same time, provided that no sync  *)
(* outlives the TTL of its key and that Redis answers.                      *)
THEOREM ReliableLockExcludes ==
  ASSUME Reliable PROVE Spec => []SyncsExclude
  <1>1. TypeOK /\ HolderInv /\ [Next]_vars => HolderInv'
    BY HolderStep
  <1>2. HolderInv => SyncsExclude
    BY DEF HolderInv, SyncsExclude
  <1> QED
    BY <1>1, <1>2, HolderInitial, TypeCorrect, PTL DEF Spec

-----------------------------------------------------------------------------
(* What a guarded transaction has loaded is still what is committed, so     *)
(* writing only the quantities that differ yields the whole response.       *)

Mirrors(held, row) ==
    \A i \in Instruments :
        IF Listed(held, i) # {}
        THEN i \in DOMAIN row /\ \E s \in Listed(held, i) : row[i] = Holding(held, s)
        ELSE i \in DOMAIN row => row[i] = 0

TakenToZero(old, new) == {i \in DOMAIN old : old[i] # 0 /\ new[i] = 0}

Prepares(rows, held, wpos, closed) ==
    /\ Mirrors(held, Overwritten(rows, wpos))
    /\ closed = Cardinality(TakenToZero(rows, Overwritten(rows, wpos)))

Prepared(q) == Prepares(positions[q.conn], q.held, q.wpos, q.closed)

Flushed == {"fetchOrders", "loadOrders", "flushOrders", "commit"}

FreshInv ==
    \A r \in Requests :
        /\ At(r, "flushPositions") => req[r].loaded = positions[req[r].conn]
        /\ req[r].pc \in Flushed => Prepared(req[r])

(* What a flush writes is the difference between what was read and what the *)
(* broker answered.                                                         *)
LEMMA FlushPrepares ==
  ASSUME NEW q \in RequestState, q.loaded = positions[q.conn], NEW t \in Targets(q)
  PROVE  Prepared(PositionsWritten(q, t))
  <1> DEFINE L == {i \in Instruments : Listed(q.held, i) # {}}
             C == {i \in DOMAIN t : i \in DOMAIN q.loaded => t[i] # q.loaded[i]}
             p == PositionsWritten(q, t)
             new == Overwritten(positions[p.conn], p.wpos)
  <1>1. p.wpos = [i \in C |-> t[i]] /\ p.conn = q.conn /\ p.held = q.held
    BY DEF PositionsWritten, RequestState
  <1>2. p.closed = Cardinality({i \in DOMAIN q.loaded : Listed(q.held, i) = {} /\ q.loaded[i] # 0})
    BY DEF PositionsWritten, RequestState
  <1>3. t \in [DOMAIN q.loaded \union L -> Quantities]
    BY DEF Targets
  <1>4. \A i \in DOMAIN t : IF i \in L THEN \E s \in Listed(q.held, i) : t[i] = Holding(q.held, s)
                                     ELSE t[i] = 0
    BY DEF Targets
  <1>5. DOMAIN q.loaded \subseteq Instruments
    BY RowsElim DEF RequestState
  <1>6. DOMAIN new = DOMAIN t
    BY <1>1, <1>3 DEF Overwritten
  <1>7. \A i \in DOMAIN t : new[i] = t[i]
    BY <1>1, <1>3 DEF Overwritten
  <1>8. Mirrors(p.held, new)
    BY <1>1, <1>3, <1>4, <1>6, <1>7 DEF Mirrors
  <1>9. \A i \in DOMAIN q.loaded : t[i] = 0 <=> Listed(q.held, i) = {}
    <2>1. \A i \in L : t[i] # 0
      <3>1. \A i \in Instruments : \A s \in Listed(q.held, i) : Holding(q.held, s) > 0
        BY DEF Listed
      <3>2. \A i \in L : \E s \in Listed(q.held, i) : t[i] = Holding(q.held, s)
        BY <1>3, <1>4
      <3>3. \A i \in L : t[i] \in Nat
        BY <1>3, OrdersAssumption, FS_CardinalityType DEF Quantities
      <3> QED BY <3>1, <3>2, <3>3
    <2> QED BY <2>1, <1>3, <1>4, <1>5
  <1>10. {i \in DOMAIN q.loaded : Listed(q.held, i) = {} /\ q.loaded[i] # 0}
            = TakenToZero(positions[p.conn], new)
    BY <1>1, <1>3, <1>7, <1>9 DEF TakenToZero
  <1> QED BY <1>2, <1>8, <1>10 DEF Prepared, Prepares

(* A request carries its preparation along while the rows of its connection *)
(* are not committed by anyone else.                                        *)
LEMMA PreparedKept ==
  ASSUME TypeOK, NEW r \in Requests, Prepared(req[r]), positions' = positions,
         req'[r].conn = req[r].conn, req'[r].held = req[r].held,
         req'[r].wpos = req[r].wpos, req'[r].closed = req[r].closed
  PROVE  Prepared(req[r])'
  BY DEF Prepared

(* While the lock excludes the others, what a handler has read stays true of the *)
(* table until it commits.                                                       *)
LEMMA FreshStep ==
  ASSUME Reliable, TypeOK, HolderInv, FreshInv, [Next]_vars PROVE FreshInv'
  <1> DEFINE Others(r) == \A u \in Requests \ {r} : req'[u] = req[u]
             Fresh(r) == /\ At(r, "flushPositions") => req[r].loaded = positions[req[r].conn]
                         /\ req[r].pc \in Flushed => Prepared(req[r])
  <1>1. FreshInv' <=> \A r \in Requests : Fresh(r)'
    BY DEF FreshInv
  <1>2. ASSUME NEW u \in Requests, req'[u] = req[u], positions' = positions
        PROVE  Fresh(u)'
    BY <1>2, PreparedKept DEF FreshInv, At
  <1>3. ASSUME NEW r \in Requests, Others(r), positions' = positions, Fresh(r)'
        PROVE  FreshInv'
    BY <1>1, <1>2, <1>3
  <1>4. ASSUME NEW r \in Requests,
               Start(r) \/ Acquire(r) \/ Build(r) \/ FetchPositions(r)
                 \/ Release(r) \/ Crash(r) \/ Raise(r)
        PROVE  FreshInv'
    <2>1. Others(r) /\ positions' = positions
      BY <1>4 DEF Start, Acquire, Build, FetchPositions, Release, Crash, Raise, dbVars, TypeOK
    <2>2. req'[r].pc \notin Flushed \union {"flushPositions"}
      <3>1. req \in [Requests -> RequestState]
        BY DEF TypeOK
      <3>2. CASE Start(r) \/ Build(r) \/ FetchPositions(r)
        BY <3>1, <3>2 DEF Start, Build, FetchPositions, RequestState, Flushed
      <3>3. CASE Acquire(r) \/ Release(r) \/ Crash(r)
        BY <3>1, <3>3 DEF Acquire, Release, Crash, RequestState, Idle, Flushed
      <3>4. CASE Raise(r)
        BY <3>1, <3>4 DEF Raise, RolledBack, RequestState, Flushed
      <3> QED BY <1>4, <3>2, <3>3, <3>4
    <2>3. Fresh(r)'
      BY <2>2 DEF At
    <2> QED BY <2>1, <2>3, <1>3
  <1>5. ASSUME NEW r \in Requests, LoadPositions(r) PROVE FreshInv'
    <2>1. Others(r) /\ positions' = positions
      BY <1>5 DEF LoadPositions, dbVars, TypeOK
    <2>2. req'[r] = [req[r] EXCEPT !.pc = "flushPositions", !.loaded = positions[req[r].conn]]
      BY <1>5 DEF LoadPositions, TypeOK
    <2>3. /\ req'[r].pc = "flushPositions" /\ req'[r].conn = req[r].conn
          /\ req'[r].loaded = positions[req[r].conn]
      BY <2>2 DEF TypeOK, RequestState
    <2>4. Fresh(r)'
      BY <2>1, <2>3 DEF At, Flushed
    <2> QED BY <2>1, <2>4, <1>3
  <1>6. ASSUME NEW r \in Requests, FlushPositions(r) PROVE FreshInv'
    <2>1. Others(r) /\ positions' = positions
      BY <1>6 DEF FlushPositions, dbVars, TypeOK
    <2>2. req[r] \in RequestState /\ req[r].loaded = positions[req[r].conn]
      BY <1>6 DEF FlushPositions, FreshInv, TypeOK
    <2>3. CASE req' = [req EXCEPT ![r] = RolledBack(req[r])]
      <3>1. req'[r].pc = "release"
        BY <2>2, <2>3 DEF TypeOK, RolledBack, RequestState
      <3> QED BY <2>1, <3>1, <1>3 DEF At, Flushed
    <2>4. ASSUME NEW t \in Targets(req[r]),
                 req' = [req EXCEPT ![r] = PositionsWritten(req[r], t)]
          PROVE  FreshInv'
      <3>1. req'[r] = PositionsWritten(req[r], t)
        BY <2>4 DEF TypeOK
      <3>2. Prepared(PositionsWritten(req[r], t))
        BY <2>2, FlushPrepares
      <3>3. Prepared(req[r])'
        BY <3>1, <3>2, <2>1 DEF Prepared
      <3>4. req'[r].pc = "fetchOrders"
        BY <3>1, <2>2 DEF PositionsWritten, RequestState
      <3>5. Fresh(r)'
        BY <3>3, <3>4 DEF At
      <3> QED BY <2>1, <3>5, <1>3
    <2> QED BY <1>6, <2>3, <2>4 DEF FlushPositions
  <1>7. ASSUME NEW r \in Requests, FetchOrders(r) \/ LoadOrders(r) \/ FlushOrders(r)
        PROVE  FreshInv'
    <2>1. Others(r) /\ positions' = positions
      BY <1>7 DEF FetchOrders, LoadOrders, FlushOrders, dbVars, TypeOK
    <2>2. Prepared(req[r])
      BY <1>7 DEF FetchOrders, LoadOrders, FlushOrders, FreshInv, At, Flushed
    <2>3. req[r] \in RequestState
      BY DEF TypeOK
    <2>4. CASE /\ req'[r].conn = req[r].conn /\ req'[r].held = req[r].held
               /\ req'[r].wpos = req[r].wpos /\ req'[r].closed = req[r].closed
               /\ req'[r].pc \in Flushed
      <3>1. Prepared(req[r])'
        BY <2>1, <2>2, <2>4, PreparedKept
      <3> QED BY <2>1, <2>4, <3>1, <1>3 DEF At, Flushed
    <2>5. CASE req'[r].pc = "release"
      BY <2>1, <2>5, <1>3 DEF At, Flushed
    <2>6. CASE FetchOrders(r)
      BY <2>3, <2>4, <2>6 DEF FetchOrders, TypeOK, RequestState, Flushed
    <2>7. CASE LoadOrders(r)
      BY <2>3, <2>4, <2>7 DEF LoadOrders, TypeOK, RequestState, Flushed
    <2>8. CASE FlushOrders(r)
      <3>1. CASE req'[r] = RolledBack(req[r])
        BY <2>3, <2>5, <3>1 DEF RolledBack, RequestState
      <3>2. CASE req'[r] = [req[r] EXCEPT !.pc = "commit", !.word = OrdersWritten(req[r])]
        BY <2>3, <2>4, <3>2 DEF RequestState, Flushed
      <3> QED BY <2>8, <3>1, <3>2 DEF FlushOrders, TypeOK
    <2> QED BY <1>7, <2>6, <2>7, <2>8
  <1>8. ASSUME NEW r \in Requests, Commit(r) PROVE FreshInv'
    <2>1. \A u \in Requests \ {r} : ~Guarded(u) /\ req'[u] = req[u]
      BY <1>8 DEF Commit, HolderInv, Guarded, GuardedSteps, Steps, At, TypeOK
    <2>2. \A u \in Requests \ {r} : req'[u].pc \notin Flushed \union {"flushPositions"}
      BY <2>1 DEF Guarded, GuardedSteps, Steps, Flushed
    <2>3. req'[r].pc = "release"
      BY <1>8 DEF Commit, TypeOK, RequestState
    <2> QED BY <2>2, <2>3, <1>1 DEF At, Flushed
  <1>9. CASE LockExpires \/ BrokerMoves \/ (\E c \in Connections : Connect(c))
               \/ UNCHANGED vars
    <2>1. req' = req /\ positions' = positions
      BY <1>9 DEF LockExpires, BrokerMoves, Connect, vars, dbVars
    <2> QED BY <2>1, <1>1, <1>2
  <1> QED
    BY <1>4, <1>5, <1>6, <1>7, <1>8, <1>9 DEF Next, Handle

(* Hence, with locks that hold, it always does. *)
LEMMA FreshAlways ==
  ASSUME Reliable PROVE Spec => [](TypeOK /\ HolderInv /\ FreshInv)
  <1>1. Init => FreshInv
    BY DEF Init, FreshInv, Idle, At, Flushed
  <1>2. TypeOK /\ HolderInv /\ [Next]_vars => HolderInv'
    BY HolderStep
  <1>3. TypeOK /\ HolderInv /\ FreshInv /\ [Next]_vars => FreshInv'
    BY FreshStep
  <1> QED
    BY <1>1, <1>2, <1>3, HolderInitial, TypeCorrect, PTL DEF Spec

(* Under the same provisions a sync stores exactly what the broker answered: *)
(* what was read before the writes is still there when they are committed.   *)
THEOREM CommitsMirrorTheBroker ==
  ASSUME Reliable PROVE Spec => CommitMirrorsBroker
  <1> DEFINE Good == \A r \in Requests : LET q == req[r] IN
                Commit(r) /\ (\A e \in q.warnings : e[1] # "positions") =>
                    \A i \in Instruments :
                        LET row == positions'[q.conn] IN
                        IF Listed(q.held, i) # {}
                        THEN /\ i \in DOMAIN row
                             /\ \E s \in Listed(q.held, i) : row[i] = Holding(q.held, s)
                        ELSE i \in DOMAIN row => row[i] = 0
  <1>1. TypeOK /\ FreshInv => Good
    <2> SUFFICES ASSUME TypeOK, FreshInv, NEW r \in Requests, Commit(r)
                 PROVE  Mirrors(req[r].held, positions'[req[r].conn])
      BY DEF Mirrors
    <2>1. Prepared(req[r]) /\ req[r].conn \in Connections
      BY DEF Commit, At, FreshInv, Flushed, TypeOK, RequestState
    <2>2. positions'[req[r].conn] = Overwritten(positions[req[r].conn], req[r].wpos)
      BY <2>1 DEF Commit, TypeOK
    <2> QED BY <2>1, <2>2 DEF Prepared, Prepares
  <1> QED
    BY <1>1, FreshAlways, PTL DEF CommitMirrorsBroker

(* And its audit row counts exactly the positions it takes to zero.          *)
THEOREM AuditRowsCountTheDiff ==
  ASSUME Reliable PROVE Spec => AuditCountsTheDiff
  <1> DEFINE Good == \A r \in Requests : LET c == req[r].conn IN
                Commit(r) =>
                    audit'.closed = Cardinality({i \in DOMAIN positions[c] :
                                        positions[c][i] # 0 /\ positions'[c][i] = 0})
  <1>1. TypeOK /\ FreshInv => Good
    <2> SUFFICES ASSUME TypeOK, FreshInv, NEW r \in Requests, Commit(r)
                 PROVE  audit'.closed = Cardinality(
                            TakenToZero(positions[req[r].conn], positions'[req[r].conn]))
      BY DEF TakenToZero
    <2>1. Prepared(req[r]) /\ req[r].conn \in Connections
      BY DEF Commit, At, FreshInv, Flushed, TypeOK, RequestState
    <2>2. positions'[req[r].conn] = Overwritten(positions[req[r].conn], req[r].wpos)
      BY <2>1 DEF Commit, TypeOK
    <2>3. audit'.closed = req[r].closed
      BY DEF Commit
    <2> QED BY <2>1, <2>2, <2>3 DEF Prepared, Prepares
  <1> QED
    BY <1>1, FreshAlways, PTL DEF AuditCountsTheDiff
-----------------------------------------------------------------------------
(* Orders.                                                                  *)

Ended == {"filled", "cancelled"}
Resolves(o) == SymbolOf[o] \in DOMAIN InstrumentOf
OnePage == Cardinality(Orders) <= OrderPage

(* A row that says an order has ended is right, and an answer in hand does  *)
(* not know less than the rows.                                             *)
BookSays(b, o, s) ==
    /\ s = "filled" => b[o] = "filled"
    /\ s = "cancelled" => b[o] = "canceled"
Current(b, rows, o, s) ==
    /\ BookSays(b, o, s)
    /\ o \in DOMAIN rows /\ rows[o] \in Ended => s = rows[o]

(* What a request has in hand of the orders, given the rows of its          *)
(* connection: nothing before it has asked; then an answer that shows every *)
(* fill behind the positions, if both reads worked; then its rows.          *)
BeforeOrders == {"idle", "acquire", "build", "fetchPositions", "loadPositions",
                 "flushPositions", "fetchOrders"}
Answered == {"loadOrders", "flushOrders"}

Honest(q, b, rows) ==
    /\ \A o \in q.held : b[o] = "filled"
    /\ q.pc \in BeforeOrders => q.listed = NoRows
    /\ q.pc \in Answered =>
          /\ \A o \in DOMAIN q.listed : Current(b, rows, o, DbStatus(q.listed[o]))
          /\ OnePage /\ q.warnings = {} =>
                \A o \in q.held : o \in DOMAIN q.listed /\ q.listed[o] = "filled"
    /\ q.pc = "flushOrders" => q.known = rows
    /\ q.pc = "commit" =>
          /\ \A o \in DOMAIN q.word : Current(b, rows, o, q.word[o])
          /\ OnePage /\ q.warnings = {} =>
                \A o \in q.held : Resolves(o) =>
                    IF o \in DOMAIN q.word THEN q.word[o] = "filled"
                    ELSE o \in DOMAIN rows /\ rows[o] = "filled"

OrdersInv ==
    /\ \A c \in Connections : \A o \in DOMAIN orders[c] : BookSays(book, o, orders[c][o])
    /\ \A r \in Requests : Honest(req[r], book, orders[req[r].conn])

(* An idle request has nothing in hand.                                     *)
LEMMA IdleIsHonest == \A b, rows : Honest(Idle, b, rows)
  BY DEF Honest, Idle, BeforeOrders, Answered

(* One request moves on; neither the broker nor the rows do.                *)
LEMMA HonestMove ==
  ASSUME TypeOK, OrdersInv, NEW r \in Requests, NEW q, req' = [req EXCEPT ![r] = q],
         UNCHANGED <<book, orders>>, Honest(q, book, orders[q.conn])
  PROVE  OrdersInv'
  <1>1. \A u \in Requests : req'[u] = IF u = r THEN q ELSE req[u]
    BY DEF TypeOK
  <1> QED
    BY <1>1 DEF OrdersInv

(* What the rows and the answers say of an order that has ended stays true. *)
LEMMA HonestBroker ==
  ASSUME TypeOK, OrdersInv, BrokerMoves PROVE OrdersInv'
  <1>1. UNCHANGED <<orders, req>>
    BY DEF BrokerMoves, dbVars
  <1>2. \A o \in Orders : book[o] \in {"filled", "canceled"} => book'[o] = book[o]
    <2>1. PICK x \in Orders, s \in {"new", "filled", "canceled"} :
            book[x] \in {"none", "new"} /\ book' = [book EXCEPT ![x] = s]
      BY DEF BrokerMoves
    <2> QED
      BY <2>1 DEF TypeOK
  <1>3. \A o \in Orders : \A t : BookSays(book, o, t) => BookSays(book', o, t)
    BY <1>2 DEF BookSays
  <1>4. ASSUME NEW r \in Requests PROVE Honest(req[r], book', orders[req[r].conn])
    <2>1. Honest(req[r], book, orders[req[r].conn])
      BY DEF OrdersInv
    <2>2. /\ req[r].held \subseteq Orders
          /\ req[r].listed \in Rows(Orders, {"new", "filled", "canceled"})
          /\ req[r].word \in Rows(Orders, DbStatuses)
      BY DEF TypeOK, RequestState
    <2>3. DOMAIN req[r].listed \subseteq Orders /\ DOMAIN req[r].word \subseteq Orders
      BY <2>2, RowsElim
    <2> QED
      BY <1>2, <1>3, <2>1, <2>2, <2>3 DEF Honest, Current
  <1>5. ASSUME NEW c \in Connections PROVE DOMAIN orders[c] \subseteq Orders
    <2>1. orders[c] \in Rows(Orders, DbStatuses)
      BY DEF TypeOK
    <2> QED
      BY <2>1, RowsElim
  <1> QED
    BY <1>1, <1>3, <1>4, <1>5 DEF OrdersInv

(* The orders answer what the broker's book says.                           *)
LEMMA HonestFetch ==
  ASSUME TypeOK, OrdersInv, NEW r \in Requests, FetchOrders(r) PROVE OrdersInv'
  <1> DEFINE old == req[r]
             rows == orders[req[r].conn]
  <1>1. /\ old \in RequestState /\ old.conn \in Connections /\ Honest(old, book, rows)
        /\ old.held \subseteq Orders /\ book \in [Orders -> {"none", "new", "filled", "canceled"}]
        /\ old.pc = "fetchOrders" /\ old.listed = NoRows /\ UNCHANGED <<book, orders>>
    BY DEF TypeOK, RequestState, OrdersInv, FetchOrders, At, dbVars, Honest, BeforeOrders
  <1>2. ASSUME NEW page \in Pages,
               req' = [req EXCEPT ![r].pc = "loadOrders", ![r].listed = [o \in page |-> book[o]]]
        PROVE  OrdersInv'
    <2> DEFINE list == [o \in page |-> book[o]]
               q == [old EXCEPT !.pc = "loadOrders", !.listed = list]
    <2>1. /\ q.pc = "loadOrders" /\ q.listed = list /\ q.held = old.held /\ q.conn = old.conn
          /\ q.warnings = old.warnings
      BY <1>1 DEF RequestState
    <2>2. req' = [req EXCEPT ![r] = q]
      BY <1>2
    <2> HIDE DEF q
    <2>3. page \subseteq Placed(book) /\ page \subseteq Orders
      BY DEF Pages, Placed
    <2>4. ASSUME NEW o \in page PROVE Current(book, rows, o, DbStatus(book[o]))
      <3>1. book[o] \in {"new", "filled", "canceled"}
        BY <1>1, <2>3 DEF Placed
      <3>2. o \in DOMAIN rows => BookSays(book, o, rows[o])
        BY <1>1 DEF OrdersInv
      <3> QED
        BY <3>1, <3>2 DEF Current, BookSays, DbStatus, Ended
    <2>5. OnePage => Placed(book) \subseteq page
      <3> SUFFICES ASSUME OnePage, Cardinality(page) = OrderPage PROVE Placed(book) \subseteq page
        BY DEF Pages
      <3>1. IsFiniteSet(Orders) /\ OrderPage \in Nat /\ Cardinality(Orders) \in Nat
        BY OrdersAssumption, FS_CardinalityType
      <3>2. Cardinality(page) <= Cardinality(Orders) /\ (Cardinality(Orders) = Cardinality(page) => Orders = page)
        BY <2>3, <3>1, FS_Subset
      <3>3. Cardinality(Orders) = Cardinality(page)
        BY <3>1, <3>2 DEF OnePage
      <3> QED
        BY <3>2, <3>3 DEF Placed
    <2>6. ASSUME OnePage, NEW o \in old.held PROVE o \in page /\ book[o] = "filled"
      BY <1>1, <2>5, <2>6 DEF Honest, Placed
    <2>7. Honest(q, book, rows)
      BY <1>1, <2>1, <2>4, <2>6 DEF Honest, BeforeOrders, Answered
    <2> QED
      BY <1>1, <2>1, <2>2, <2>7, HonestMove
  <1>3. ASSUME NEW e \in ErrorCodes,
               req' = [req EXCEPT ![r].pc = "loadOrders",
                                  ![r].warnings = @ \union {<<"orders", e>>}]
        PROVE  OrdersInv'
    <2> DEFINE q == [old EXCEPT !.pc = "loadOrders", !.warnings = @ \union {<<"orders", e>>}]
    <2>1. /\ q.pc = "loadOrders" /\ q.listed = NoRows /\ q.held = old.held /\ q.conn = old.conn
          /\ q.warnings # {}
      BY <1>1 DEF RequestState
    <2>2. req' = [req EXCEPT ![r] = q]
      BY <1>3
    <2> HIDE DEF q
    <2>3. DOMAIN NoRows = {}
      BY DEF NoRows
    <2>4. Honest(q, book, rows)
      BY <1>1, <2>1, <2>3 DEF Honest, BeforeOrders, Answered
    <2> QED
      BY <1>1, <2>1, <2>2, <2>4, HonestMove
  <1> QED
    BY <1>2, <1>3 DEF FetchOrders

(* What is written differs from what was loaded, or says the same.          *)
LEMMA HonestFlush ==
  ASSUME TypeOK, OrdersInv, NEW r \in Requests, FlushOrders(r) PROVE OrdersInv'
  <1> DEFINE old == req[r]
             rows == orders[req[r].conn]
  <1>1. /\ old \in RequestState /\ Honest(old, book, rows) /\ old.pc = "flushOrders"
        /\ UNCHANGED <<book, orders>>
    BY DEF TypeOK, OrdersInv, FlushOrders, At, dbVars
  <1>2. CASE req' = [req EXCEPT ![r] = RolledBack(old)]
    <2> DEFINE q == RolledBack(old)
    <2>1. q.pc = "release" /\ q.held = old.held /\ q.conn = old.conn
      BY <1>1 DEF RolledBack, RequestState
    <2> HIDE DEF q
    <2>2. Honest(q, book, rows)
      BY <1>1, <2>1 DEF Honest, BeforeOrders, Answered
    <2> QED
      BY <1>1, <1>2, <2>1, <2>2, HonestMove DEF q
  <1>3. CASE req' = [req EXCEPT ![r] = [old EXCEPT !.pc = "commit", !.word = OrdersWritten(old)]]
    <2> DEFINE q == [old EXCEPT !.pc = "commit", !.word = OrdersWritten(old)]
               D == {o \in DOMAIN old.listed : Resolves(o) /\
                        (o \in DOMAIN old.known => old.known[o] # DbStatus(old.listed[o]))}
    <2>1. /\ q.pc = "commit" /\ q.held = old.held /\ q.conn = old.conn /\ q.warnings = old.warnings
          /\ q.word = OrdersWritten(old)
      BY <1>1 DEF RequestState
    <2>2. q.word = [o \in D |-> DbStatus(old.listed[o])]
      BY <2>1 DEF OrdersWritten, Resolves
    <2> HIDE DEF q
    <2>3. /\ \A o \in DOMAIN old.listed : Current(book, rows, o, DbStatus(old.listed[o]))
          /\ old.known = rows
          /\ OnePage /\ old.warnings = {} =>
                \A o \in old.held : o \in DOMAIN old.listed /\ old.listed[o] = "filled"
      BY <1>1 DEF Honest, Answered
    <2>4. ASSUME OnePage, old.warnings = {}, NEW o \in old.held, Resolves(o), o \notin D
          PROVE  o \in DOMAIN rows /\ rows[o] = "filled"
      BY <2>3, <2>4 DEF DbStatus
    <2>5. ASSUME OnePage, old.warnings = {}, NEW o \in old.held, o \in D
          PROVE  DbStatus(old.listed[o]) = "filled"
      BY <2>3, <2>5 DEF DbStatus
    <2>6. DOMAIN q.word = D /\ \A o \in D : q.word[o] = DbStatus(old.listed[o])
      BY <2>2
    <2>7. D \subseteq DOMAIN old.listed
      OBVIOUS
    <2>8. \A o \in old.held : book[o] = "filled"
      BY <1>1 DEF Honest
    <2> HIDE DEF D
    <2>9. Honest(q, book, rows)
      BY <2>1, <2>3, <2>4, <2>5, <2>6, <2>7, <2>8 DEF Honest, BeforeOrders, Answered
    <2> QED
      BY <1>1, <1>3, <2>1, <2>9, HonestMove DEF q
  <1> QED
    BY <1>2, <1>3 DEF FlushOrders

(* A commit is the only step that changes order rows, and nobody else is    *)
(* in between.                                                              *)
LEMMA HonestCommit ==
  ASSUME TypeOK, HolderInv, OrdersInv, NEW r \in Requests, Commit(r) PROVE OrdersInv'
  <1> DEFINE k == req[r].conn
             w == req[r].word
  <1>1. /\ req[r] \in RequestState /\ k \in Connections /\ Honest(req[r], book, orders[k])
        /\ req[r].pc = "commit" /\ book' = book
        /\ orders' = [orders EXCEPT ![k] = Overwritten(@, w)]
    BY DEF TypeOK, RequestState, OrdersInv, Commit, At
  <1>2. \A u \in Requests \ {r} : ~Guarded(u) /\ req'[u] = req[u]
    BY DEF Commit, HolderInv, Guarded, GuardedSteps, Steps, At, TypeOK
  <1>3. /\ req'[r].pc = "release" /\ req'[r].held = req[r].held /\ req'[r].conn = k
    BY <1>1 DEF Commit, TypeOK, RequestState
  <1>4. \A o \in DOMAIN w : BookSays(book, o, w[o])
    BY <1>1 DEF Honest, Current
  <1>5. ASSUME NEW c \in Connections, NEW o \in DOMAIN orders'[c]
        PROVE  BookSays(book, o, orders'[c][o])
    <2>1. orders'[c] = IF c = k THEN Overwritten(orders[k], w) ELSE orders[c]
      BY <1>1 DEF TypeOK
    <2> QED
      BY <1>1, <1>4, <1>5, <2>1 DEF Overwritten, OrdersInv
  <1>6. ASSUME NEW u \in Requests PROVE Honest(req'[u], book, orders'[req'[u].conn])
    <2>1. CASE u = r
      BY <1>1, <1>3, <2>1 DEF Honest, BeforeOrders, Answered
    <2>2. CASE u # r
      <3>1. req[u].pc \in {"idle", "acquire"} /\ req'[u] = req[u]
        BY <1>2, <2>2 DEF Guarded, GuardedSteps, TypeOK, RequestState
      <3>2. Honest(req[u], book, orders[req[u].conn])
        BY DEF OrdersInv
      <3> QED
        BY <3>1, <3>2 DEF Honest, Answered
    <2> QED
      BY <2>1, <2>2
  <1> QED
    BY <1>1, <1>5, <1>6 DEF OrdersInv

(* Every step keeps it.                                                     *)
LEMMA HonestStep ==
  ASSUME TypeOK, HolderInv, OrdersInv, [Next]_vars PROVE OrdersInv'
  <1>1. ASSUME NEW r \in Requests, Release(r) \/ Crash(r) PROVE OrdersInv'
    <2>1. req' = [req EXCEPT ![r] = Idle] /\ UNCHANGED <<book, orders>>
      BY <1>1 DEF Release, Crash, dbVars
    <2> QED
      BY <2>1, IdleIsHonest, HonestMove
  <1>2. ASSUME NEW r \in Requests, NEW q, req' = [req EXCEPT ![r] = q], UNCHANGED <<book, orders>>,
               req[r].pc \in BeforeOrders, q.pc \in BeforeOrders \union {"release"},
               q.listed = req[r].listed, \A o \in q.held : book[o] = "filled"
        PROVE  OrdersInv'
    <2>1. Honest(req[r], book, orders[req[r].conn])
      BY DEF OrdersInv
    <2>2. Honest(q, book, orders[q.conn])
      BY <1>2, <2>1 DEF Honest, BeforeOrders, Answered
    <2> QED
      BY <1>2, <2>2, HonestMove
  <1>3. \A r \in Requests : req[r] \in RequestState /\ \A o \in req[r].held : book[o] = "filled"
    BY DEF TypeOK, OrdersInv, Honest
  <1>4. ASSUME NEW r \in Requests, Start(r) PROVE OrdersInv'
    <2>1. PICK c \in Connections : req' = [req EXCEPT ![r].pc = "acquire", ![r].conn = c]
      BY <1>4 DEF Start
    <2> DEFINE q == [req[r] EXCEPT !.pc = "acquire", !.conn = c]
    <2>2. q.pc = "acquire" /\ q.listed = req[r].listed /\ q.held = req[r].held
      BY <1>3 DEF RequestState
    <2>3. req' = [req EXCEPT ![r] = q] /\ UNCHANGED <<book, orders>> /\ req[r].pc = "idle"
      BY <1>4, <2>1 DEF Start, At, dbVars
    <2> HIDE DEF q
    <2> QED
      BY <1>2, <1>3, <2>2, <2>3 DEF BeforeOrders
  <1>5. ASSUME NEW r \in Requests, NEW s \in BeforeOrders \union {"release"},
               req' = [req EXCEPT ![r].pc = s], UNCHANGED <<book, orders>>,
               req[r].pc \in BeforeOrders
        PROVE  OrdersInv'
    <2> DEFINE q == [req[r] EXCEPT !.pc = s]
    <2>1. q.pc = s /\ q.listed = req[r].listed /\ q.held = req[r].held
      BY <1>3 DEF RequestState
    <2>2. req' = [req EXCEPT ![r] = q]
      BY <1>5
    <2> HIDE DEF q
    <2>3. /\ q.pc \in BeforeOrders \union {"release"} /\ q.listed = req[r].listed
          /\ \A o \in q.held : book[o] = "filled"
      BY <1>3, <2>1
    <2>4. UNCHANGED <<book, orders>> /\ req[r].pc \in BeforeOrders
      BY <1>5
    <2> QED
      BY <1>2, <2>2, <2>3, <2>4
  <1>6. ASSUME NEW r \in Requests, Acquire(r) \/ Build(r) PROVE OrdersInv'
    <2>1. CASE req' = [req EXCEPT ![r] = Idle]
      <3>1. UNCHANGED <<book, orders>>
        BY <1>6 DEF Acquire, Build, dbVars
      <3> QED
        BY <2>1, <3>1, IdleIsHonest, HonestMove
    <2>2. CASE \E s \in {"build", "fetchPositions", "release"} : req' = [req EXCEPT ![r].pc = s]
      <3>1. UNCHANGED <<book, orders>> /\ req[r].pc \in BeforeOrders
        BY <1>6 DEF Acquire, Build, At, BeforeOrders, dbVars
      <3> QED
        BY <1>5, <2>2, <3>1 DEF BeforeOrders
    <2> QED
      BY <1>6, <2>1, <2>2 DEF Acquire, Build
  <1>7. ASSUME NEW r \in Requests, FetchPositions(r) PROVE OrdersInv'
    <2>1. req[r].pc = "fetchPositions" /\ UNCHANGED <<book, orders>>
      BY <1>7 DEF FetchPositions, At, dbVars
    <2>2. CASE req' = [req EXCEPT ![r].pc = "loadPositions", ![r].held = Filled(book)]
      <3> DEFINE q == [req[r] EXCEPT !.pc = "loadPositions", !.held = Filled(book)]
      <3>1. q.pc = "loadPositions" /\ q.listed = req[r].listed /\ q.held = Filled(book)
        BY <1>3 DEF RequestState
      <3>2. req' = [req EXCEPT ![r] = q] /\ \A o \in Filled(book) : book[o] = "filled"
        BY <2>2 DEF Filled
      <3> HIDE DEF q
      <3> QED
        BY <1>2, <2>1, <3>1, <3>2 DEF BeforeOrders
    <2>3. ASSUME NEW e \in ErrorCodes,
                 req' = [req EXCEPT ![r].pc = "loadPositions", ![r].warnings = {<<"positions", e>>}]
          PROVE  OrdersInv'
      <3> DEFINE q == [req[r] EXCEPT !.pc = "loadPositions", !.warnings = {<<"positions", e>>}]
      <3>1. q.pc = "loadPositions" /\ q.listed = req[r].listed /\ q.held = req[r].held
        BY <1>3 DEF RequestState
      <3>2. req' = [req EXCEPT ![r] = q]
        BY <2>3
      <3> HIDE DEF q
      <3> QED
        BY <1>2, <1>3, <2>1, <3>1, <3>2 DEF BeforeOrders
    <2> QED
      BY <1>7, <2>2, <2>3 DEF FetchPositions
  <1>8. ASSUME NEW r \in Requests, LoadPositions(r) PROVE OrdersInv'
    <2> DEFINE q == [req[r] EXCEPT !.pc = "flushPositions", !.loaded = positions[req[r].conn]]
    <2>1. q.pc = "flushPositions" /\ q.listed = req[r].listed /\ q.held = req[r].held
      BY <1>3 DEF RequestState
    <2>2. req' = [req EXCEPT ![r] = q] /\ UNCHANGED <<book, orders>> /\ req[r].pc = "loadPositions"
      BY <1>8 DEF LoadPositions, At, dbVars
    <2> HIDE DEF q
    <2> QED
      BY <1>2, <1>3, <2>1, <2>2 DEF BeforeOrders
  <1>9. ASSUME NEW r \in Requests, req' = [req EXCEPT ![r] = RolledBack(req[r])],
               UNCHANGED <<book, orders>>
        PROVE  OrdersInv'
    <2> DEFINE q == RolledBack(req[r])
    <2>1. q.pc = "release" /\ q.held = req[r].held
      BY <1>3 DEF RolledBack, RequestState
    <2>2. req' = [req EXCEPT ![r] = q]
      BY <1>9
    <2> HIDE DEF q
    <2>3. Honest(q, book, orders[q.conn])
      BY <1>3, <2>1 DEF Honest, BeforeOrders, Answered
    <2> QED
      BY <1>9, <2>2, <2>3, HonestMove
  <1>10. ASSUME NEW r \in Requests, FlushPositions(r) PROVE OrdersInv'
    <2>1. req[r].pc = "flushPositions" /\ UNCHANGED <<book, orders>>
      BY <1>10 DEF FlushPositions, At, dbVars
    <2>2. ASSUME NEW t \in Targets(req[r]), req' = [req EXCEPT ![r] = PositionsWritten(req[r], t)]
          PROVE  OrdersInv'
      <3> DEFINE q == PositionsWritten(req[r], t)
      <3>1. q.pc = "fetchOrders" /\ q.listed = req[r].listed /\ q.held = req[r].held
        BY <1>3 DEF PositionsWritten, RequestState
      <3>2. req' = [req EXCEPT ![r] = q]
        BY <2>2
      <3> HIDE DEF q
      <3> QED
        BY <1>2, <1>3, <2>1, <3>1, <3>2 DEF BeforeOrders
    <2>3. CASE req' = [req EXCEPT ![r] = RolledBack(req[r])]
      BY <1>9, <2>1, <2>3
    <2>4. \/ req' = [req EXCEPT ![r] = RolledBack(req[r])]
          \/ \E t \in Targets(req[r]) : req' = [req EXCEPT ![r] = PositionsWritten(req[r], t)]
      BY <1>10 DEF FlushPositions
    <2>5. CASE \E t \in Targets(req[r]) : req' = [req EXCEPT ![r] = PositionsWritten(req[r], t)]
      <3>1. PICK t \in Targets(req[r]) : req' = [req EXCEPT ![r] = PositionsWritten(req[r], t)]
        BY <2>5
      <3> QED
        BY <2>2, <3>1
    <2> QED
      BY <2>3, <2>4, <2>5
  <1>11. ASSUME NEW r \in Requests, LoadOrders(r) PROVE OrdersInv'
    <2> DEFINE q == [req[r] EXCEPT !.pc = "flushOrders", !.known = orders[req[r].conn]]
    <2>1. /\ q.pc = "flushOrders" /\ q.listed = req[r].listed /\ q.held = req[r].held
          /\ q.conn = req[r].conn /\ q.warnings = req[r].warnings /\ q.known = orders[req[r].conn]
      BY <1>3 DEF RequestState
    <2>2. req' = [req EXCEPT ![r] = q] /\ UNCHANGED <<book, orders>> /\ req[r].pc = "loadOrders"
      BY <1>11 DEF LoadOrders, At, dbVars
    <2> HIDE DEF q
    <2>3. Honest(req[r], book, orders[req[r].conn])
      BY DEF OrdersInv
    <2>4. Honest(q, book, orders[q.conn])
      BY <2>1, <2>2, <2>3 DEF Honest, BeforeOrders, Answered
    <2> QED
      BY <2>2, <2>4, HonestMove
  <1>12. CASE LockExpires \/ (\E c \in Connections : Connect(c)) \/ UNCHANGED vars
    <2>1. UNCHANGED <<book, orders, req>>
      BY <1>12 DEF LockExpires, Connect, vars, dbVars
    <2> QED
      BY <2>1 DEF OrdersInv
  <1>13. ASSUME NEW r \in Requests, Raise(r) PROVE OrdersInv'
    BY <1>9, <1>13 DEF Raise, dbVars
  <1> QED
    BY <1>1, <1>4, <1>6, <1>7, <1>8, <1>10, <1>11, <1>12, <1>13,
       HonestBroker, HonestFetch, HonestFlush, HonestCommit DEF Next, Handle

(* With locks that hold, it always does.                                    *)
LEMMA HonestAlways ==
  ASSUME Reliable PROVE Spec => [](TypeOK /\ HolderInv /\ OrdersInv)
  <1>1. Init => OrdersInv
    <2> SUFFICES ASSUME Init PROVE OrdersInv
      OBVIOUS
    <2>1. \A c \in Connections : DOMAIN orders[c] = {}
      BY DEF Init, NoRows
    <2>2. \A r \in Requests : req[r] = Idle
      BY DEF Init
    <2> QED
      BY <2>1, <2>2, IdleIsHonest DEF OrdersInv
  <1>2. TypeOK /\ HolderInv /\ [Next]_vars => HolderInv'
    BY HolderStep
  <1>3. TypeOK /\ HolderInv /\ OrdersInv /\ [Next]_vars => OrdersInv'
    BY HonestStep
  <1> QED
    BY <1>1, <1>2, <1>3, HolderInitial, TypeCorrect, PTL DEF Spec

(* "Never delete orders", and never reopen one that has ended, under the    *)
(* same provisions.                                                         *)
THEOREM OrderRowsOnlyAdvance ==
  ASSUME Reliable PROVE Spec => OrdersNeverRegress
  <1> DEFINE Stays == \A c \in Connections : \A o \in DOMAIN orders[c] :
                /\ o \in DOMAIN orders'[c]
                /\ orders[c][o] \in {"filled", "cancelled"} => orders'[c][o] = orders[c][o]
  <1>1. TypeOK /\ OrdersInv /\ [Next]_vars => [Stays]_vars
    <2> SUFFICES ASSUME TypeOK, OrdersInv, [Next]_vars PROVE Stays
      OBVIOUS
    <2>1. ASSUME NEW r \in Requests, Commit(r) PROVE Stays
      <3> DEFINE k == req[r].conn
                 w == req[r].word
      <3>1. orders' = [orders EXCEPT ![k] = Overwritten(@, w)] /\ k \in Connections
        BY <2>1 DEF Commit, TypeOK, RequestState
      <3>2. \A o \in DOMAIN w : Current(book, orders[k], o, w[o])
        BY <2>1 DEF OrdersInv, Honest, Commit, At
      <3> SUFFICES ASSUME NEW c \in Connections, NEW o \in DOMAIN orders[c]
                   PROVE  /\ o \in DOMAIN orders'[c]
                          /\ orders[c][o] \in Ended => orders'[c][o] = orders[c][o]
        BY DEF Ended
      <3>3. orders'[c] = IF c = k THEN Overwritten(orders[k], w) ELSE orders[c]
        BY <3>1 DEF TypeOK
      <3> QED
        BY <3>2, <3>3 DEF Overwritten, Current
    <2>2. CASE orders' = orders
      BY <2>2
    <2> QED
      BY <2>1, <2>2 DEF Next, Handle, BrokerMoves, Connect, Start, Acquire, Build, FetchPositions,
         LoadPositions, FlushPositions, FetchOrders, LoadOrders, FlushOrders, Release, Raise,
         Crash, LockExpires, vars, dbVars
  <1> QED
    BY <1>1, HonestAlways, PTL DEF Spec, OrdersNeverRegress

(* A holding that is stored shows its order as filled: under the same       *)
(* provisions, and if all orders of the account fit in one page.            *)
THEOREM HoldingsShowTheirOrders ==
  ASSUME Reliable, OnePage PROVE Spec => HoldingsHaveTheirOrders
  <1> DEFINE Shown == \A r \in Requests : LET q == req[r] IN
                Commit(r) /\ q.warnings = {} =>
                    \A o \in q.held : SymbolOf[o] \in DOMAIN InstrumentOf =>
                        o \in DOMAIN orders'[q.conn] /\ orders'[q.conn][o] = "filled"
  <1>1. TypeOK /\ OrdersInv => Shown
    <2> SUFFICES ASSUME TypeOK, OrdersInv, NEW r \in Requests, Commit(r), req[r].warnings = {},
                        NEW o \in req[r].held, Resolves(o)
                 PROVE  LET k == req[r].conn
                        IN  o \in DOMAIN orders'[k] /\ orders'[k][o] = "filled"
      BY DEF Resolves
    <2> DEFINE k == req[r].conn
               w == req[r].word
    <2>1. orders'[k] = Overwritten(orders[k], w)
      BY DEF Commit, TypeOK, RequestState
    <2>2. IF o \in DOMAIN w THEN w[o] = "filled"
          ELSE o \in DOMAIN orders[k] /\ orders[k][o] = "filled"
      BY DEF OrdersInv, Honest, Commit, At
    <2> QED
      BY <2>1, <2>2 DEF Overwritten
  <1> QED
    BY <1>1, HonestAlways, PTL DEF HoldingsHaveTheirOrders
=============================================================================
