-------------------------- MODULE Holdings_proofs --------------------------
(* Theorems about the symbol mappings and the positions of Holdings, for    *)
(* any listings, accounts, connections and lookups; and about RateLimiter,  *)
(* through which the adapters that read those connections call their        *)
(* brokers.                                                                 *)
EXTENDS Holdings, RateLimiter, Sums, FiniteSetTheorems, TLAPS

Answers == Listings \union {Null}

TxFields == {"pc", "broker", "wants", "at", "own", "got"}

IsRecord(x) == DOMAIN x = TxFields /\ x = [f \in TxFields |-> x[f]]

(* A transaction is a record, and has one answer for every symbol it has    *)
(* looked up, and for the one it is about to insert.                        *)
IsTx(x) ==
    /\ IsRecord(x)
    /\ x.at \in Nat \ {0} /\ x.got \in Seq(Answers)
    /\ x.pc \in {"select", "infer"} => Len(x.got) = x.at - 1
    /\ x.pc = "insert" => Len(x.got) = x.at

(* Who says that a key means an instrument: a row that is committed, a row  *)
(* that is not, and a transaction that is about to insert one.              *)
RowSays(r, k, i) == r.key = k /\ r.inst = i

TxSays(t, k, i) ==
    \/ \E r \in tx[t].own : RowSays(r, k, i)
    \/ tx[t].pc = "insert" /\ KeyOf(t) = k /\ tx[t].got[tx[t].at] = i

Said(k, i) == (\E r \in mappings : RowSays(r, k, i)) \/ \E t \in Txs : TxSays(t, k, i)

Means(k) ==
    {i \in instruments : /\ i.symbol = k.symbol
                         /\ k.exchange # Null => i.exchange = Canonical(k.exchange)}

(* The inductive invariant: what is said of a key is a candidate of it, and *)
(* nothing else is said of that key. Instruments are never removed, so that *)
(* a candidate stays one; but it need not stay the only one.                *)
MapInv ==
    /\ instruments \subseteq Listings
    /\ tx = [t \in Txs |-> tx[t]] /\ \A t \in Txs : IsTx(tx[t])
    /\ \A k, i : Said(k, i) => i \in Means(k)
    /\ \A k, i, j : Said(k, i) /\ Said(k, j) => i = j

(* A step after which nothing is said that was not said before.             *)
LEMMA NothingNew ==
  ASSUME MapInv, instruments \subseteq instruments', instruments' \subseteq Listings,
         tx' = [t \in Txs |-> tx'[t]], \A t \in Txs : IsTx(tx'[t]),
         \A k, i : Said(k, i)' => Said(k, i)
  PROVE  MapInv'
  <1>1. \A k, i : Said(k, i)' => i \in Means(k)'
    BY DEF MapInv, Means
  <1> QED
    BY <1>1 DEF MapInv

(* One transaction becomes x, which says nothing that it did not say.       *)
LEMMA SaysNoMore ==
  ASSUME MapInv, NEW t \in Txs, NEW x, IsTx(x), tx' = [tx EXCEPT ![t] = x],
         UNCHANGED <<instruments, mappings>>,
         x.pc # "insert", \A r \in x.own : r \in tx[t].own
  PROVE  MapInv'
  <1>1. \A o \in Txs : tx'[o] = IF o = t THEN x ELSE tx[o]
    BY DEF MapInv
  <1>2. \A k, i : \A o \in Txs : TxSays(o, k, i)' => TxSays(o, k, i)
    BY <1>1 DEF TxSays, KeyOf
  <1>3. \A k, i : Said(k, i)' => Said(k, i)
    BY <1>2 DEF Said
  <1>4. instruments \subseteq instruments' /\ instruments' \subseteq Listings
    BY DEF MapInv
  <1>5. tx' = [o \in Txs |-> tx'[o]] /\ \A o \in Txs : IsTx(tx'[o])
    BY <1>1 DEF MapInv
  <1> QED
    BY <1>3, <1>4, <1>5, NothingNew

(* A transaction that is closed has said nothing.                           *)
LEMMA ClosedIsTx == IsTx(Closed) /\ Closed.own = {} /\ Closed.pc = "closed"
  <1>1. IsRecord(Closed)
    BY DEF Closed, TxFields, IsRecord
  <1>2. /\ Closed.pc = "closed" /\ Closed.own = {} /\ Closed.at = 1 /\ Closed.got = <<>>
    BY DEF Closed
  <1> QED
    BY <1>1, <1>2 DEF IsTx

(* At the start nothing is said.                                            *)
LEMMA MapInvInit == Init => MapInv
  <1> SUFFICES ASSUME Init PROVE MapInv
    OBVIOUS
  <1>1. \A t \in Txs : tx[t] = Closed
    BY DEF Init, InitMappings
  <1>2. \A k, i : ~Said(k, i)
    BY <1>1, ClosedIsTx DEF Init, InitMappings, Said, TxSays
  <1> QED
    BY <1>1, <1>2, ClosedIsTx DEF Init, InitMappings, MapInv

(* A transaction that begins, or that is gone.                              *)
LEMMA OpenIsTx ==
  ASSUME NEW b, NEW w
  PROVE  LET x == [Closed EXCEPT !.pc = "select", !.broker = b, !.wants = w]
         IN  IsTx(x) /\ x.pc = "select" /\ x.own = {}
  <1> DEFINE x == [Closed EXCEPT !.pc = "select", !.broker = b, !.wants = w]
  <1>1. IsRecord(Closed)
    BY DEF Closed, TxFields, IsRecord
  <1>2. IsRecord(x)
    BY <1>1 DEF TxFields, IsRecord
  <1>3. /\ x.pc = "select" /\ x.own = Closed.own /\ x.at = Closed.at /\ x.got = Closed.got
    BY <1>1 DEF TxFields, IsRecord
  <1>4. /\ Closed.own = {} /\ Closed.at = 1 /\ Closed.got = <<>>
    BY DEF Closed
  <1>5. IsTx(x) /\ x.pc = "select" /\ x.own = {}
    <2> HIDE DEF x
    <2> QED
      BY <1>2, <1>3, <1>4 DEF IsTx
  <1> QED
    BY <1>5

(* One that has ended says nothing either.                                  *)
LEMMA GoneIsTx ==
  ASSUME NEW p \in {"done", "failed"}
  PROVE  LET x == [Closed EXCEPT !.pc = p]
         IN  IsTx(x) /\ x.pc = p /\ x.own = {}
  <1> DEFINE x == [Closed EXCEPT !.pc = p]
  <1>1. IsRecord(Closed)
    BY DEF Closed, TxFields, IsRecord
  <1>2. IsRecord(x)
    BY <1>1 DEF TxFields, IsRecord
  <1>3. /\ x.pc = p /\ x.own = Closed.own /\ x.at = Closed.at /\ x.got = Closed.got
    BY <1>1 DEF TxFields, IsRecord
  <1>4. /\ Closed.own = {} /\ Closed.at = 1 /\ Closed.got = <<>>
    BY DEF Closed
  <1>5. IsTx(x) /\ x.pc = p /\ x.own = {}
    <2> HIDE DEF x
    <2> QED
      BY <1>2, <1>3, <1>4 DEF IsTx
  <1> QED
    BY <1>5

(* A sequence of answers with one more.                                     *)
LEMMA AppendIs ==
  ASSUME NEW s \in Seq(Answers), NEW i \in Answers
  PROVE  /\ Append(s, i) \in Seq(Answers) /\ Len(Append(s, i)) = Len(s) + 1
         /\ Append(s, i)[Len(s) + 1] = i /\ Len(s) \in Nat
  OBVIOUS

(* A transaction gets the answer to one lookup.                             *)
LEMMA GotIsTx ==
  ASSUME MapInv, NEW t \in Txs, tx[t].pc \in {"select", "infer"}, NEW i \in Answers
  PROVE  LET x == Got(t, i)
         IN  IsTx(x) /\ x.pc = "select" /\ x.own = tx[t].own
  <1> DEFINE x == Got(t, i)
  <1>1. IsTx(tx[t])
    BY DEF MapInv
  <1>2. /\ x.pc = "select" /\ x.at = tx[t].at + 1 /\ x.own = tx[t].own
        /\ x.got = Append(tx[t].got, i)
        /\ IsRecord(x)
    BY <1>1 DEF Got, IsTx, TxFields, IsRecord
  <1>3. x.got \in Seq(Answers) /\ Len(x.got) = tx[t].at /\ x.at \in Nat \ {0}
    BY <1>1, <1>2, AppendIs DEF IsTx
  <1>4. Len(x.got) = x.at - 1
    BY <1>1, <1>2, <1>3 DEF IsTx
  <1>5. IsTx(x) /\ x.pc = "select" /\ x.own = tx[t].own
    <2> HIDE DEF x
    <2> QED
      BY <1>2, <1>3, <1>4 DEF IsTx
  <1> QED
    BY <1>5

(* What a transaction reads of a key was said of it.                        *)
LEMMA RowsAreListed ==
  ASSUME MapInv, NEW t \in Txs, NEW r \in RowsOf(t)
  PROVE  r.inst \in Answers
  <1>1. Said(r.key, r.inst)
    BY DEF RowsOf, Said, TxSays, RowSays
  <1> QED
    BY <1>1 DEF MapInv, Means, Answers

(* A lookup says nothing new.                                               *)
LEMMA MapInvSelect ==
  ASSUME MapInv, NEW t \in Txs, SelectMapping(t)
  PROVE  MapInv'
  <1>1. UNCHANGED <<instruments, mappings, resolving>> /\ tx[t].pc = "select"
    BY DEF SelectMapping, Looking, NoMap
  <1>2. CASE RowsOf(t) = {}
    <2> DEFINE x == [tx[t] EXCEPT !.pc = "infer"]
    <2>1. tx' = [tx EXCEPT ![t] = x] /\ IsTx(tx[t])
      <3>1. Cardinality(RowsOf(t)) # 1
        BY <1>2, FS_EmptySet
      <3>2. x = CASE RowsOf(t) = {} -> [tx[t] EXCEPT !.pc = "infer"]
                  [] Cardinality(RowsOf(t)) = 1 ->
                        Got(t, (CHOOSE r \in RowsOf(t) : TRUE).inst)
                  [] OTHER -> [Closed EXCEPT !.pc = "failed"]
        BY <1>2, <3>1
      <3> QED
        BY <3>2 DEF SelectMapping, MapInv
    <2>2. IsTx(x) /\ x.pc = "infer" /\ x.own = tx[t].own
      BY <1>1, <2>1 DEF IsTx, TxFields, IsRecord
    <2> HIDE DEF x
    <2> QED
      BY <1>1, <2>1, <2>2, SaysNoMore
  <1>3. CASE RowsOf(t) # {} /\ Cardinality(RowsOf(t)) = 1
    <2>1. PICK r \in RowsOf(t) : r = CHOOSE s \in RowsOf(t) : TRUE
      BY <1>3
    <2>2. tx' = [tx EXCEPT ![t] = Got(t, r.inst)]
      BY <1>3, <2>1 DEF SelectMapping
    <2> QED
      BY <1>1, <2>1, <2>2, GotIsTx, RowsAreListed, SaysNoMore
  <1>4. CASE RowsOf(t) # {} /\ Cardinality(RowsOf(t)) # 1
    <2>1. tx' = [tx EXCEPT ![t] = [Closed EXCEPT !.pc = "failed"]]
      BY <1>4 DEF SelectMapping
    <2> QED
      BY <1>1, <2>1, GoneIsTx, SaysNoMore
  <1> QED
    BY <1>2, <1>3, <1>4

(* An inferred instrument is the only candidate: whoever says something     *)
(* else of the key says what is a candidate too.                            *)
LEMMA MapInvInfer ==
  ASSUME MapInv, NEW t \in Txs, Infer(t)
  PROVE  MapInv'
  <1>1. UNCHANGED <<instruments, mappings, resolving>> /\ tx[t].pc = "infer" /\ IsTx(tx[t])
    BY DEF Infer, Looking, NoMap, MapInv
  <1>2. CASE Candidates(t) = {}
    <2>1. tx' = [tx EXCEPT ![t] = Got(t, Null)]
      <3>1. Cardinality(Candidates(t)) # 1
        BY <1>2, FS_EmptySet
      <3>2. Got(t, Null) = CASE Candidates(t) = {} -> Got(t, Null)
                             [] Cardinality(Candidates(t)) = 1 ->
                        [tx[t] EXCEPT !.pc = "insert",
                                      !.got = Append(tx[t].got, CHOOSE i \in Candidates(t) : TRUE)]
                             [] OTHER -> [Closed EXCEPT !.pc = "failed"]
        BY <1>2, <3>1
      <3> QED
        BY <3>2 DEF Infer
    <2> QED
      BY <1>1, <2>1, GotIsTx, SaysNoMore DEF Answers
  <1>3. CASE Candidates(t) # {} /\ Cardinality(Candidates(t)) = 1
    <2>1. IsFiniteSet(Candidates(t)) /\ Candidates(t) \subseteq Listings
      BY MappingAssumption, FS_Subset DEF Candidates, MapInv
    <2>2. PICK n : Candidates(t) = {n}
      BY <1>3, <2>1, FS_Singleton
    <2> DEFINE x == [tx[t] EXCEPT !.pc = "insert", !.got = Append(@, n)]
    <2>3. tx' = [tx EXCEPT ![t] = x]
      <3>1. (CHOOSE i \in Candidates(t) : TRUE) = n
        BY <2>2
      <3>2. x = CASE Candidates(t) = {} -> Got(t, Null)
                  [] Cardinality(Candidates(t)) = 1 ->
                        [tx[t] EXCEPT !.pc = "insert",
                                      !.got = Append(tx[t].got, CHOOSE i \in Candidates(t) : TRUE)]
                  [] OTHER -> [Closed EXCEPT !.pc = "failed"]
        BY <1>3, <3>1
      <3> QED
        BY <3>2 DEF Infer
    <2>4. /\ x.pc = "insert" /\ x.broker = tx[t].broker /\ x.wants = tx[t].wants
          /\ x.at = tx[t].at /\ x.own = tx[t].own /\ x.got = Append(tx[t].got, n)
          /\ IsRecord(x)
      BY <1>1 DEF IsTx, TxFields, IsRecord
    <2>5. n \in Answers /\ x.got \in Seq(Answers) /\ Len(x.got) = x.at /\ x.got[x.at] = n
      BY <1>1, <2>1, <2>2, <2>4 DEF IsTx, Answers
    <2> HIDE DEF x
    <2>6. IsTx(x)
      BY <1>1, <2>4, <2>5 DEF IsTx
    <2>7. \A o \in Txs : tx'[o] = IF o = t THEN x ELSE tx[o]
      BY <2>3 DEF MapInv
    <2> DEFINE k0 == KeyOf(t)
    <2>8. KeyOf(t)' = k0 /\ Means(k0) = {n}
      BY <2>2, <2>4, <2>7 DEF KeyOf, Means, Candidates
    <2>9. ASSUME NEW k, NEW j PROVE Said(k, j)' => Said(k, j) \/ (k = k0 /\ j = n)
      BY <1>1, <2>4, <2>5, <2>7, <2>8 DEF Said, TxSays, KeyOf
    <2> HIDE DEF k0
    <2>10. ASSUME NEW k, NEW j, Said(k, j)' PROVE j \in Means(k)'
      <3>1. Means(k)' = Means(k)
        BY <1>1 DEF Means
      <3> QED
        BY <2>8, <2>9, <2>10, <3>1 DEF MapInv
    <2>11. ASSUME NEW k, NEW j, NEW l, Said(k, j)', Said(k, l)' PROVE j = l
      <3>1. \A m : Said(k0, m) => m = n
        BY <2>8 DEF MapInv
      <3> QED
        BY <2>9, <2>11, <3>1 DEF MapInv
    <2>12. tx' = [o \in Txs |-> tx'[o]] /\ \A o \in Txs : IsTx(tx'[o])
      BY <2>3, <2>6, <2>7 DEF MapInv
    <2> QED
      BY <1>1, <2>10, <2>11, <2>12 DEF MapInv
  <1>4. CASE Candidates(t) # {} /\ Cardinality(Candidates(t)) # 1
    <2>1. tx' = [tx EXCEPT ![t] = [Closed EXCEPT !.pc = "failed"]]
      BY <1>4 DEF Infer
    <2> QED
      BY <1>1, <2>1, GoneIsTx, SaysNoMore
  <1> QED
    BY <1>2, <1>3, <1>4

(* What a transaction inserts it was about to insert.                       *)
LEMMA MapInvInsert ==
  ASSUME MapInv, NEW t \in Txs, Insert(t)
  PROVE  MapInv'
  <1>1. UNCHANGED <<instruments, mappings, resolving>> /\ tx[t].pc = "insert" /\ IsTx(tx[t])
    BY DEF Insert, Looking, NoMap, MapInv
  <1> DEFINE own == IF Compared(KeyOf(t)) /\ RowsOf(t) # {} THEN tx[t].own
                    ELSE tx[t].own \union {NewRow(t)}
             x == [tx[t] EXCEPT !.pc = "select", !.at = @ + 1, !.own = own]
  <1>2. tx' = [tx EXCEPT ![t] = x]
    BY DEF Insert
  <1>3. /\ x.pc = "select" /\ x.at = tx[t].at + 1 /\ x.got = tx[t].got /\ x.own = own
        /\ IsRecord(x)
    BY <1>1 DEF IsTx, TxFields, IsRecord
  <1> HIDE DEF x
  <1>4. IsTx(x)
    BY <1>1, <1>3 DEF IsTx
  <1>5. \A o \in Txs : tx'[o] = IF o = t THEN x ELSE tx[o]
    BY <1>2 DEF MapInv
  <1>6. \A r \in own : r \in tx[t].own \/ r = NewRow(t)
    OBVIOUS
  <1>7. NewRow(t).key = KeyOf(t) /\ NewRow(t).inst = tx[t].got[tx[t].at]
    BY DEF NewRow
  <1>8. \A k, i : \A o \in Txs : TxSays(o, k, i)' => TxSays(o, k, i)
    <2> HIDE DEF own
    <2>1. \A k, i : TxSays(t, k, i)' => TxSays(t, k, i)
      BY <1>1, <1>3, <1>5, <1>6, <1>7 DEF TxSays, RowSays
    <2>2. ASSUME NEW o \in Txs, o # t PROVE \A k, i : TxSays(o, k, i)' => TxSays(o, k, i)
      BY <1>5, <2>2 DEF TxSays, KeyOf
    <2> QED
      BY <2>1, <2>2
  <1>9. \A k, i : Said(k, i)' => Said(k, i)
    BY <1>1, <1>8 DEF Said
  <1>10. tx' = [o \in Txs |-> tx'[o]] /\ \A o \in Txs : IsTx(tx'[o])
    BY <1>2, <1>4, <1>5 DEF MapInv
  <1>11. instruments \subseteq instruments' /\ instruments' \subseteq Listings
    BY <1>1 DEF MapInv
  <1> QED
    BY <1>9, <1>10, <1>11, NothingNew

(* What is committed was said by the transaction that commits it.           *)
LEMMA MapInvCommit ==
  ASSUME MapInv, NEW t \in Txs, CommitMappings(t)
  PROVE  MapInv'
  <1> DEFINE x == [Closed EXCEPT !.pc = "done"]
  <1>1. IsTx(x) /\ x.pc = "done" /\ x.own = {}
    BY GoneIsTx
  <1>2. /\ tx' = [tx EXCEPT ![t] = x] /\ mappings' = mappings \union tx[t].own
        /\ instruments' = instruments
    BY DEF CommitMappings
  <1> HIDE DEF x
  <1>3. \A o \in Txs : tx'[o] = IF o = t THEN x ELSE tx[o]
    BY <1>2 DEF MapInv
  <1>4. \A k, i : \A o \in Txs : TxSays(o, k, i)' => TxSays(o, k, i)
    BY <1>1, <1>3 DEF TxSays, KeyOf
  <1>5. \A k, i : Said(k, i)' => Said(k, i)
    BY <1>2, <1>4 DEF Said, TxSays
  <1>6. tx' = [o \in Txs |-> tx'[o]] /\ \A o \in Txs : IsTx(tx'[o])
    BY <1>1, <1>2, <1>3 DEF MapInv
  <1>7. instruments \subseteq instruments' /\ instruments' \subseteq Listings
    BY <1>2 DEF MapInv
  <1> QED
    BY <1>5, <1>6, <1>7, NothingNew

(* A step that touches no transaction and no row, and removes no instrument.*)
LEMMA MapInvOthers ==
  ASSUME MapInv, UNCHANGED <<tx, mappings>>, instruments \subseteq instruments',
         instruments' \subseteq Listings
  PROVE  MapInv'
  <1>1. \A k, i : Said(k, i)' => Said(k, i)
    BY DEF Said, TxSays, KeyOf
  <1> QED
    BY <1>1, NothingNew DEF MapInv

(* Every step of a sync keeps it.                                           *)
LEMMA MapInvSync ==
  ASSUME MapInv, NEW c \in Conns, Sync(c)
  PROVE  MapInv'
  <1>1. c \in Txs
    BY HoldingsAssumption
  <1>2. CASE StartSync(c)
    <2>1. /\ UNCHANGED <<instruments, mappings, resolving>>
          /\ tx' = [tx EXCEPT ![c] = [Closed EXCEPT !.pc = "select",
                        !.broker = Lists[conn[c]].broker, !.wants = Wants(conn[c])]]
      BY <1>2 DEF StartSync, Begin, NoMap
    <2> QED
      BY <1>1, <2>1, OpenIsTx, SaysNoMore
  <1>3. CASE AbortMappings(c)
    <2>1. /\ UNCHANGED <<instruments, mappings, resolving>>
          /\ tx' = [tx EXCEPT ![c] = [Closed EXCEPT !.pc = "failed"]]
      BY <1>3 DEF AbortMappings, NoMap
    <2> QED
      BY <1>1, <2>1, GoneIsTx, SaysNoMore
  <1> QED
    BY <1>1, <1>2, <1>3, MapInvSelect, MapInvInfer, MapInvInsert, MapInvCommit
       DEF Sync, LookUp, CommitSync

(* Every step keeps it.                                                     *)
LEMMA MapInvStep == MapInv /\ [Next]_vars => MapInv'
  <1> SUFFICES ASSUME MapInv, [Next]_vars PROVE MapInv'
    OBVIOUS
  <1>1. CASE \E c \in Conns : Sync(c)
    BY <1>1, MapInvSync
  <1>2. CASE UNCHANGED mapVars
    BY <1>2, MapInvOthers DEF mapVars, MapInv
  <1>3. CASE \E i \in Listings : SeedInstrument(i)
    BY <1>3, MapInvOthers DEF SeedInstrument, Seed, MapInv
  <1>4. CASE \E h \in Handlers : ResolveInstrument(h)
    BY <1>4, MapInvOthers DEF ResolveInstrument, Resolve, EndResolve, MapInv
  <1>5. (\E c \in Conns : \E a \in Accounts : Connect(c, a)) \/ UNCHANGED vars
            => UNCHANGED mapVars
    BY DEF Connect, vars
  <1> QED
    BY <1>1, <1>2, <1>3, <1>4, <1>5 DEF Next

(* Whatever syncs run beside one another and whatever instruments are added *)
(* in between, all rows of one key name one instrument.                     *)
THEOREM MappingsAgree == Spec => []OneInstrumentPerKey
  <1>1. MapInv => OneInstrumentPerKey
    <2> SUFFICES ASSUME MapInv,
                        NEW r \in mappings \union UNION {tx[t].own : t \in Txs},
                        NEW s \in mappings \union UNION {tx[t].own : t \in Txs},
                        r.key = s.key
                 PROVE  r.inst = s.inst
      BY DEF OneInstrumentPerKey
    <2>1. Said(r.key, r.inst) /\ Said(r.key, s.inst)
      BY DEF Said, TxSays, RowSays
    <2> QED
      BY <2>1 DEF MapInv
  <1> QED
    BY <1>1, MapInvInit, MapInvStep, PTL DEF Spec

-----------------------------------------------------------------------------
(* What an adapter lists.                                                   *)

(* Everything the broker answers about an account.                          *)
RowsIn(a) == {Lists[a].held[n] : n \in DOMAIN Lists[a].held} \union
             {Lists[a].net[n] : n \in DOMAIN Lists[a].net}

(* What the adapter takes for granted: the broker names what is held once,  *)
(* and an exchange in one way.                                              *)
HeldOnce ==
    \A a \in Accounts : \A m, n \in DOMAIN Lists[a].held :
        SameLot(Lists[a].held[m], Lists[a].held[n]) => m = n

OneNaming ==
    \A a \in Accounts : \A x, y \in RowsIn(a) :
        Canonical(x.exchange) = Canonical(y.exchange) => x.exchange = y.exchange

(* One turn of get_positions over the net positions.                        *)
TakeRow(seen, x) ==
    IF x.qty = 0 \/ \E n \in DOMAIN seen : SameLot(x, seen[n]) THEN seen ELSE Append(seen, x)

(* g takes the net positions of each part of D, the last one last.          *)
TakesRows(g, a, D) ==
    g = [s \in SUBSET D |-> IF s = {} THEN Lists[a].held
                            ELSE TakeRow(g[s \ {Max(s)}], Lists[a].net[Max(s)])]

(* If some function does, the fold is one.                                  *)
LEMMA ListedIs ==
  ASSUME NEW a, NEW g, TakesRows(g, a, DOMAIN Lists[a].net)
  PROVE  \E k : TakesRows(k, a, DOMAIN Lists[a].net) /\ Listed(a) = k[DOMAIN Lists[a].net]
  BY DEF TakesRows, TakeRow, Listed, FoldLeft, MapThenFoldSet

(* Some function does, for as many net positions as one likes.              *)
LEMMA TakesRowsExists ==
  ASSUME NEW a, NEW n \in Nat
  PROVE  \E g : TakesRows(g, a, 1 .. n)
  <1> DEFINE Bad == {m \in Nat : ~ \E g : TakesRows(g, a, 1 .. m)}
             net == Lists[a].net
  <1> SUFFICES ASSUME n \in Bad PROVE FALSE
    OBVIOUS
  <1>1. PICK m \in Bad : \A k \in Bad : m <= k
    <2>1. Bad \in SUBSET Nat
      OBVIOUS
    <2> HIDE DEF Bad
    <2> QED
      BY <2>1, LeastExists
  <1>2. m # 0
    <2> DEFINE g == [s \in SUBSET (1 .. 0) |-> Lists[a].held]
    <2>1. TakesRows(g, a, 1 .. 0)
      <3>1. \A s \in SUBSET (1 .. 0) : s = {}
        OBVIOUS
      <3> QED
        BY <3>1 DEF TakesRows
    <2> QED
      BY <2>1
  <1>3. m - 1 \in Nat /\ m - 1 \notin Bad
    BY <1>1, <1>2
  <1>4. PICK g : TakesRows(g, a, 1 .. m - 1)
    BY <1>3
  <1> DEFINE h == [s \in SUBSET (1 .. m) |->
                      IF m \in s THEN TakeRow(g[s \ {m}], net[m]) ELSE g[s]]
  <1>5. ASSUME NEW s \in SUBSET (1 .. m)
        PROVE  h[s] = IF s = {} THEN Lists[a].held ELSE TakeRow(h[s \ {Max(s)}], net[Max(s)])
    <2>1. \A t \in SUBSET (1 .. m) : m \notin t => h[t] = g[t] /\ t \in SUBSET (1 .. m - 1)
      OBVIOUS
    <2>2. CASE m \in s
      <3>1. Max(s) = m
        BY <2>2, MaxIs
      <3>2. h[s \ {m}] = g[s \ {m}]
        <4> HIDE DEF h
        <4> QED
          BY <2>1
      <3>3. h[s] = TakeRow(g[s \ {m}], net[m])
        BY <2>2
      <3> HIDE DEF h
      <3> QED
        BY <2>2, <3>1, <3>2, <3>3
    <2>3. CASE m \notin s
      <3>1. s \in SUBSET (1 .. m - 1) /\ h[s] = g[s]
        BY <2>1, <2>3
      <3>2. g[s] = IF s = {} THEN Lists[a].held ELSE TakeRow(g[s \ {Max(s)}], net[Max(s)])
        BY <1>4, <3>1 DEF TakesRows
      <3>3. h[s \ {Max(s)}] = g[s \ {Max(s)}]
        <4>1. s \ {Max(s)} \in SUBSET (1 .. m) /\ m \notin s \ {Max(s)}
          BY <2>3
        <4> HIDE DEF h
        <4> QED
          BY <2>1, <4>1
      <3> HIDE DEF h
      <3> QED
        BY <3>1, <3>2, <3>3
    <2> QED
      BY <2>2, <2>3
  <1>6. h = [s \in SUBSET (1 .. m) |-> h[s]]
    OBVIOUS
  <1>7. TakesRows(h, a, 1 .. m)
    <2> HIDE DEF h
    <2> QED
      BY <1>5, <1>6, Zenon DEF TakesRows
  <1> QED
    BY <1>7

(* Rows of the account, each of them once.                                  *)
EachOnce(e, a) ==
    /\ e \in Seq(Rows)
    /\ \A n \in DOMAIN e : e[n] \in RowsIn(a)
    /\ \A m, n \in DOMAIN e : SameLot(e[m], e[n]) => m = n

(* One turn keeps it.                                                       *)
LEMMA TakeRowKeeps ==
  ASSUME NEW a, NEW e, EachOnce(e, a), NEW x \in Rows, x \in RowsIn(a)
  PROVE  EachOnce(TakeRow(e, x), a)
  <1>1. CASE x.qty = 0 \/ \E n \in DOMAIN e : SameLot(x, e[n])
    BY <1>1 DEF TakeRow
  <1>2. CASE ~(x.qty = 0 \/ \E n \in DOMAIN e : SameLot(x, e[n]))
    <2> DEFINE f == Append(e, x)
               N == Len(e)
    <2>1. TakeRow(e, x) = f
      BY <1>2 DEF TakeRow
    <2>2. e \in Seq(Rows) /\ N \in Nat /\ DOMAIN e = 1 .. N
      BY DEF EachOnce
    <2>3. /\ f \in Seq(Rows) /\ DOMAIN f = 1 .. N + 1 /\ f[N + 1] = x
          /\ \A n \in 1 .. N : f[n] = e[n]
      BY <2>2
    <2> HIDE DEF f, N
    <2>4. \A n \in 1 .. N + 1 : n \in 1 .. N \/ n = N + 1
      BY <2>2
    <2>5. \A n \in DOMAIN f : f[n] \in RowsIn(a)
      BY <2>2, <2>3, <2>4 DEF EachOnce
    <2>6. ASSUME NEW m \in DOMAIN f, NEW n \in DOMAIN f, SameLot(f[m], f[n]) PROVE m = n
      <3>1. CASE m \in 1 .. N /\ n \in 1 .. N
        BY <2>2, <2>3, <2>6, <3>1 DEF EachOnce
      <3>2. CASE m = N + 1 /\ n \in 1 .. N
        BY <1>2, <2>2, <2>3, <2>6, <3>2 DEF SameLot
      <3>3. CASE m \in 1 .. N /\ n = N + 1
        BY <1>2, <2>2, <2>3, <2>6, <3>3 DEF SameLot
      <3> QED
        BY <2>3, <2>4, <3>1, <3>2, <3>3
    <2> QED
      BY <2>1, <2>3, <2>5, <2>6 DEF EachOnce
  <1> QED
    BY <1>1, <1>2

(* What an adapter lists is a sequence of the account's rows, each once.    *)
LEMMA ListedOnce ==
  ASSUME HeldOnce, NEW a \in Accounts
  PROVE  EachOnce(Listed(a), a)
  <1> DEFINE net == Lists[a].net
             held == Lists[a].held
             N == Len(net)
  <1>1. net \in Seq(Rows) /\ held \in Seq(Rows) /\ N \in Nat /\ DOMAIN net = 1 .. N
    BY HoldingsAssumption
  <1>2. PICK k : TakesRows(k, a, 1 .. N) /\ Listed(a) = k[1 .. N]
    <2>1. PICK g : TakesRows(g, a, 1 .. N)
      BY <1>1, TakesRowsExists
    <2>2. DOMAIN Lists[a].net = 1 .. N
      BY <1>1
    <2>3. TakesRows(g, a, DOMAIN Lists[a].net)
      BY <2>1, <2>2, Zenon
    <2> QED
      BY <2>2, <2>3, ListedIs, Zenon
  <1>3. \A n \in 1 .. N : net[n] \in Rows /\ net[n] \in RowsIn(a)
    BY <1>1 DEF RowsIn
  <1>4. EachOnce(held, a)
    BY <1>1 DEF EachOnce, RowsIn, HeldOnce
  <1> DEFINE Bad == {n \in Nat : n <= N /\ ~EachOnce(k[1 .. n], a)}
  <1> HIDE DEF N, net, held
  <1>5. Bad = {}
    <2> SUFFICES ASSUME Bad # {} PROVE FALSE
      OBVIOUS
    <2>1. PICK n \in Bad : \A m \in Bad : n <= m
      <3>1. Bad \in SUBSET Nat
        OBVIOUS
      <3> HIDE DEF Bad
      <3> QED
        BY <3>1, LeastExists
    <2>2. CASE n = 0
      <3>1. {} \in SUBSET (1 .. N) /\ 1 .. 0 = {}
        OBVIOUS
      <3>2. k[{}] = held
        BY <1>2, <3>1 DEF TakesRows, held
      <3> QED
        BY <1>4, <2>1, <2>2, <3>1, <3>2
    <2>3. CASE n # 0
      <3>1. n \in 1 .. N /\ n - 1 \in Nat /\ n - 1 \notin Bad
        BY <1>1, <2>1, <2>3
      <3>2. EachOnce(k[1 .. n - 1], a)
        BY <1>1, <3>1
      <3>3. Max(1 .. n) = n /\ (1 .. n) \ {n} = 1 .. n - 1
        <4>1. 1 .. n \in SUBSET Int /\ n \in 1 .. n /\ \A x \in 1 .. n : x <= n
          BY <1>1, <3>1
        <4>2. (1 .. n) \ {n} = 1 .. n - 1
          BY <1>1, <3>1
        <4> QED
          BY <4>1, <4>2, MaxIs
      <3>4. k[1 .. n] = TakeRow(k[1 .. n - 1], net[n])
        <4>1. 1 .. n \in SUBSET (1 .. N) /\ 1 .. n # {}
          <5>1. \A x \in 1 .. n : x \in 1 .. N
            BY <3>1, <1>1
          <5>2. n \in 1 .. n
            BY <3>1, <1>1
          <5> QED
            BY <5>1, <5>2
        <4>2. k[1 .. n] = TakeRow(k[(1 .. n) \ {Max(1 .. n)}], net[Max(1 .. n)])
          BY <1>2, <4>1 DEF TakesRows, net
        <4> QED
          BY <3>3, <4>2
      <3>5. EachOnce(k[1 .. n], a)
        BY <1>3, <3>1, <3>2, <3>4, TakeRowKeeps
      <3> QED
        BY <2>1, <3>5
    <2> QED
      BY <2>2, <2>3
  <1> QED
    BY <1>1, <1>2, <1>5

-----------------------------------------------------------------------------
(* What a sync makes of the list.                                           *)

(* An instrument is what a row of the broker names.                         *)
Fits(i, x) == i \in Listings /\ i.symbol = x.symbol /\ i.exchange = Canonical(x.exchange)

(* A connection's positions are those an account's lots name.               *)
Mirrors(p, a) ==
    \E g \in [DOMAIN Listed(a) -> Listings] :
        /\ \A n \in DOMAIN Listed(a) : Fits(g[n], Listed(a)[n]) /\ p[g[n]] = Listed(a)[n].qty
        /\ \A i \in Listings : (\A n \in DOMAIN Listed(a) : g[n] # i) => p[i] = 0

(* What a transaction has been answered of the account's lots.              *)
Knows(x, a) ==
    /\ x.wants = Wants(a)
    /\ \A n \in DOMAIN Listed(a) : n <= Len(x.got) =>
           x.got[n] = Null \/ Fits(x.got[n], Listed(a)[n])

Open(x) == x.pc \in {"select", "infer", "insert"}

(* The inductive invariant.                                                 *)
LotInv ==
    /\ conn \in [Conns -> Accounts \union {Null}]
    /\ position = [c \in Conns |-> position[c]] /\ skipped = [c \in Conns |-> skipped[c]]
    /\ \A c \in Conns :
         /\ conn[c] = Null => ~Open(tx[c]) /\ position[c] = NoHolding /\ skipped[c]
         /\ Open(tx[c]) => Knows(tx[c], conn[c])
         /\ conn[c] # Null /\ ~skipped[c] => Mirrors(position[c], conn[c])

(* One sequence after another.                                              *)
LEMMA ConcatIs ==
  ASSUME NEW S, NEW e \in Seq(S), NEW T, NEW f \in Seq(T)
  PROVE  /\ Len(e \o f) = Len(e) + Len(f) /\ Len(e) \in Nat /\ Len(f) \in Nat
         /\ \A n \in 1 .. Len(e) : (e \o f)[n] = e[n]
  OBVIOUS

(* The lots come first in what a sync looks up.                             *)
LEMMA WantsAre ==
  ASSUME HeldOnce, NEW a \in Accounts
  PROVE  /\ Len(Listed(a)) \in Nat /\ DOMAIN Listed(a) = 1 .. Len(Listed(a))
         /\ Len(Wants(a)) \in Nat /\ Len(Wants(a)) >= Len(Listed(a))
         /\ \A n \in DOMAIN Listed(a) : Wants(a)[n] = Listed(a)[n]
  <1> DEFINE o == Lists[a].orders
             f == [n \in DOMAIN o |-> Lot(o[n], Null, 0)]
             T == {Lot(o[n], Null, 0) : n \in DOMAIN o}
  <1>1. Listed(a) \in Seq(Rows)
    BY ListedOnce DEF EachOnce
  <1>2. f \in Seq(T)
    <2>1. o \in Seq(STRING)
      BY HoldingsAssumption
    <2>2. f \in [DOMAIN o -> T]
      OBVIOUS
    <2>3. DOMAIN o = 1 .. Len(o) /\ Len(o) \in Nat
      BY <2>1
    <2>4. ASSUME NEW m \in Nat, NEW R, NEW g \in [1 .. m -> R] PROVE g \in Seq(R)
      OBVIOUS
    <2> HIDE DEF f, T, o
    <2> QED
      BY <2>2, <2>3, <2>4
  <1>3. Wants(a) = Listed(a) \o f
    BY DEF Wants
  <1>4. DOMAIN Listed(a) = 1 .. Len(Listed(a))
    BY <1>1
  <1> HIDE DEF f, T
  <1> QED
    BY <1>1, <1>2, <1>3, <1>4, ConcatIs

(* A connection's transaction goes on, and the lists stay.                  *)
LEMMA LotInvMoves ==
  ASSUME MapInv, LotInv, NEW c \in Conns, NEW x, tx' = [tx EXCEPT ![c] = x],
         UNCHANGED <<conn, position, skipped>>,
         Open(x) => conn[c] # Null /\ Knows(x, conn[c])
  PROVE  LotInv'
  <1>1. \A o \in Conns : tx'[o] = IF o = c THEN x ELSE tx[o]
    BY HoldingsAssumption DEF MapInv
  <1> QED
    BY <1>1 DEF LotInv

(* A lookup was answered for the lot it is at.                              *)
LEMMA KnowsMore ==
  ASSUME HeldOnce, NEW a \in Accounts, NEW x, Knows(x, a), x.got \in Seq(Answers),
         NEW i \in Answers,
         NEW y, y.wants = x.wants, y.got = Append(x.got, i),
         Len(x.got) + 1 \in DOMAIN Listed(a) =>
             i = Null \/ Fits(i, Listed(a)[Len(x.got) + 1])
  PROVE  Knows(y, a)
  <1> DEFINE N == Len(x.got)
  <1>1. /\ N \in Nat /\ Len(y.got) = N + 1 /\ y.got[N + 1] = i
        /\ \A n \in 1 .. N : y.got[n] = x.got[n]
    OBVIOUS
  <1>2. DOMAIN Listed(a) = 1 .. Len(Listed(a)) /\ Len(Listed(a)) \in Nat
    BY WantsAre
  <1> HIDE DEF N
  <1>3. ASSUME NEW n \in DOMAIN Listed(a), n <= N + 1
        PROVE  y.got[n] = Null \/ Fits(y.got[n], Listed(a)[n])
    <2>1. CASE n = N + 1
      BY <1>1, <2>1 DEF N
    <2>2. CASE n # N + 1
      <3>1. n \in 1 .. N
        BY <1>1, <1>2, <1>3, <2>2
      <3>2. n <= N
        BY <1>1, <3>1
      <3> QED
        BY <1>1, <3>1, <3>2 DEF Knows, N
    <2> QED
      BY <2>1, <2>2
  <1> QED
    BY <1>1, <1>3 DEF Knows

(* What a key means is what its lot names.                                  *)
LEMMA MeansFits ==
  ASSUME HeldOnce, MapInv, LotInv, NEW c \in Conns, Open(tx[c]), tx[c].pc # "insert",
         tx[c].at \in DOMAIN Listed(conn[c]), NEW i \in Means(KeyOf(c))
  PROVE  Fits(i, Listed(conn[c])[Len(tx[c].got) + 1])
  <1> DEFINE a == conn[c]
             lot == Listed(a)[tx[c].at]
  <1>1. a \in Accounts /\ tx[c].wants = Wants(a)
    BY DEF LotInv, Knows
  <1>2. tx[c].wants[tx[c].at] = lot
    BY <1>1, WantsAre
  <1>3. lot \in Rows
    <2>1. Listed(a) \in Seq(Rows)
      BY <1>1, ListedOnce DEF EachOnce
    <2> QED
      BY <2>1
  <1>4. lot.exchange # Null
    BY <1>3, HoldingsAssumption DEF Rows
  <1>5. Len(tx[c].got) + 1 = tx[c].at
    BY HoldingsAssumption DEF MapInv, IsTx, Open
  <1> HIDE DEF lot
  <1>6. i \in Listings /\ i.symbol = lot.symbol /\ i.exchange = Canonical(lot.exchange)
    BY <1>2, <1>4 DEF Means, KeyOf, MapInv
  <1> QED
    BY <1>5, <1>6 DEF Fits, lot

(* The answer to a lookup, in a record of the transaction.                  *)
LEMMA LotInvGot ==
  ASSUME HeldOnce, MapInv, LotInv, NEW c \in Conns, Open(tx[c]), tx[c].pc # "insert",
         NEW i, i = Null \/ i \in Means(KeyOf(c)),
         NEW y, y.wants = tx[c].wants, y.got = Append(tx[c].got, i),
         tx' = [tx EXCEPT ![c] = y], UNCHANGED <<conn, position, skipped>>
  PROVE  LotInv'
  <1>1. conn[c] \in Accounts /\ conn[c] # Null /\ Knows(tx[c], conn[c])
    BY DEF LotInv
  <1>2. i \in Answers
    BY DEF Means, MapInv, Answers
  <1>3. tx[c].got \in Seq(Answers) /\ Len(tx[c].got) + 1 = tx[c].at
    BY HoldingsAssumption DEF MapInv, IsTx, Open
  <1>4. Knows(y, conn[c])
    BY <1>1, <1>2, <1>3, KnowsMore, MeansFits
  <1> QED
    BY <1>1, <1>4, LotInvMoves

(* The SELECT of the mapping.                                               *)
LEMMA LotInvSelect ==
  ASSUME HeldOnce, MapInv, LotInv, NEW c \in Conns, SelectMapping(c),
         UNCHANGED <<conn, position, skipped>>
  PROVE  LotInv'
  <1>1. tx[c].pc = "select" /\ c \in Txs /\ IsTx(tx[c]) /\ Open(tx[c])
    BY HoldingsAssumption DEF SelectMapping, Looking, MapInv, Open
  <1>2. conn[c] # Null /\ Knows(tx[c], conn[c])
    BY <1>1 DEF LotInv
  <1>3. CASE RowsOf(c) = {}
    <2> DEFINE x == [tx[c] EXCEPT !.pc = "infer"]
    <2>1. tx' = [tx EXCEPT ![c] = x]
      <3>1. Cardinality(RowsOf(c)) # 1
        BY <1>3, FS_EmptySet
      <3>2. x = CASE RowsOf(c) = {} -> [tx[c] EXCEPT !.pc = "infer"]
                  [] Cardinality(RowsOf(c)) = 1 ->
                        Got(c, (CHOOSE r \in RowsOf(c) : TRUE).inst)
                  [] OTHER -> [Closed EXCEPT !.pc = "failed"]
        BY <1>3, <3>1
      <3> QED
        BY <3>2, <1>1 DEF SelectMapping, MapInv
    <2>2. x.wants = tx[c].wants /\ x.got = tx[c].got
      BY <1>1 DEF IsTx, TxFields, IsRecord
    <2> HIDE DEF x
    <2>3. Knows(x, conn[c])
      BY <1>2, <2>2 DEF Knows
    <2> QED
      BY <1>2, <2>1, <2>3, LotInvMoves
  <1>4. CASE RowsOf(c) # {} /\ Cardinality(RowsOf(c)) = 1
    <2>1. PICK r \in RowsOf(c) : r = CHOOSE s \in RowsOf(c) : TRUE
      BY <1>4
    <2> DEFINE y == Got(c, r.inst)
    <2>2. tx' = [tx EXCEPT ![c] = y]
      BY <1>4, <2>1 DEF SelectMapping
    <2>3. y.wants = tx[c].wants /\ y.got = Append(tx[c].got, r.inst)
      BY <1>1 DEF Got, IsTx, TxFields, IsRecord
    <2>4. r.inst \in Means(KeyOf(c))
      <3>1. Said(r.key, r.inst) /\ r.key = KeyOf(c)
        BY <1>1 DEF RowsOf, Said, TxSays, RowSays
      <3> QED
        BY <3>1 DEF MapInv
    <2> HIDE DEF y
    <2> QED
      BY <1>1, <2>2, <2>3, <2>4, LotInvGot
  <1>5. CASE RowsOf(c) # {} /\ Cardinality(RowsOf(c)) # 1
    <2>1. tx' = [tx EXCEPT ![c] = [Closed EXCEPT !.pc = "failed"]]
      BY <1>5 DEF SelectMapping
    <2> QED
      BY <2>1, GoneIsTx, LotInvMoves DEF Open
  <1> QED
    BY <1>3, <1>4, <1>5

(* The SELECT of the candidate.                                             *)
LEMMA LotInvInfer ==
  ASSUME HeldOnce, MapInv, LotInv, NEW c \in Conns, Infer(c), UNCHANGED <<conn, position, skipped>>
  PROVE  LotInv'
  <1>1. tx[c].pc = "infer" /\ c \in Txs /\ IsTx(tx[c]) /\ Open(tx[c])
    BY HoldingsAssumption DEF Infer, Looking, MapInv, Open
  <1>2. CASE Candidates(c) = {}
    <2> DEFINE y == Got(c, Null)
    <2>1. tx' = [tx EXCEPT ![c] = y]
      <3>1. Cardinality(Candidates(c)) # 1
        BY <1>2, FS_EmptySet
      <3>2. y = CASE Candidates(c) = {} -> Got(c, Null)
                  [] Cardinality(Candidates(c)) = 1 ->
                        [tx[c] EXCEPT !.pc = "insert",
                                      !.got = Append(tx[c].got, CHOOSE i \in Candidates(c) : TRUE)]
                  [] OTHER -> [Closed EXCEPT !.pc = "failed"]
        BY <1>2, <3>1
      <3> QED
        BY <3>2 DEF Infer
    <2>2. y.wants = tx[c].wants /\ y.got = Append(tx[c].got, Null)
      BY <1>1 DEF Got, IsTx, TxFields, IsRecord
    <2> HIDE DEF y
    <2> QED
      BY <1>1, <2>1, <2>2, LotInvGot
  <1>3. CASE Candidates(c) # {} /\ Cardinality(Candidates(c)) = 1
    <2>1. PICK n \in Candidates(c) : n = CHOOSE i \in Candidates(c) : TRUE
      BY <1>3
    <2> DEFINE y == [tx[c] EXCEPT !.pc = "insert", !.got = Append(tx[c].got, n)]
    <2>2. tx' = [tx EXCEPT ![c] = y]
      <3>1. y = CASE Candidates(c) = {} -> Got(c, Null)
                  [] Cardinality(Candidates(c)) = 1 ->
                        [tx[c] EXCEPT !.pc = "insert",
                                      !.got = Append(tx[c].got, CHOOSE i \in Candidates(c) : TRUE)]
                  [] OTHER -> [Closed EXCEPT !.pc = "failed"]
        BY <1>3, <2>1
      <3> QED
        BY <3>1 DEF Infer
    <2>3. y.wants = tx[c].wants /\ y.got = Append(tx[c].got, n)
      BY <1>1 DEF IsTx, TxFields, IsRecord
    <2>4. n \in Means(KeyOf(c))
      BY DEF Candidates, Means
    <2> HIDE DEF y
    <2> QED
      BY <1>1, <2>2, <2>3, <2>4, LotInvGot
  <1>4. CASE Candidates(c) # {} /\ Cardinality(Candidates(c)) # 1
    <2>1. tx' = [tx EXCEPT ![c] = [Closed EXCEPT !.pc = "failed"]]
      BY <1>4 DEF Infer
    <2> QED
      BY <2>1, GoneIsTx, LotInvMoves DEF Open
  <1> QED
    BY <1>2, <1>3, <1>4

(* The INSERT, which answers nothing.                                       *)
LEMMA LotInvInsert ==
  ASSUME MapInv, LotInv, NEW c \in Conns, Insert(c), UNCHANGED <<conn, position, skipped>>
  PROVE  LotInv'
  <1>1. tx[c].pc = "insert" /\ c \in Txs /\ IsTx(tx[c]) /\ Open(tx[c])
    BY HoldingsAssumption DEF Insert, Looking, MapInv, Open
  <1>2. conn[c] # Null /\ Knows(tx[c], conn[c])
    BY <1>1 DEF LotInv
  <1> DEFINE own == IF Compared(KeyOf(c)) /\ RowsOf(c) # {} THEN tx[c].own
                    ELSE tx[c].own \union {NewRow(c)}
             x == [tx[c] EXCEPT !.pc = "select", !.at = @ + 1, !.own = own]
  <1>3. tx' = [tx EXCEPT ![c] = x]
    BY DEF Insert
  <1>4. x.wants = tx[c].wants /\ x.got = tx[c].got
    BY <1>1 DEF IsTx, TxFields, IsRecord
  <1> HIDE DEF x
  <1>5. Knows(x, conn[c])
    BY <1>2, <1>4 DEF Knows
  <1> QED
    BY <1>2, <1>3, <1>5, LotInvMoves

(* A sync begins, and knows nothing.                                        *)
LEMMA LotInvStart ==
  ASSUME HeldOnce, MapInv, LotInv, NEW c \in Conns, StartSync(c)
  PROVE  LotInv'
  <1> DEFINE x == [Closed EXCEPT !.pc = "select", !.broker = Lists[conn[c]].broker,
                                 !.wants = Wants(conn[c])]
  <1>1. tx' = [tx EXCEPT ![c] = x] /\ UNCHANGED <<conn, position, skipped>> /\ conn[c] # Null
    BY DEF StartSync, Begin
  <1>2. x.wants = Wants(conn[c]) /\ x.got = <<>>
    BY DEF Closed
  <1>3. conn[c] \in Accounts
    BY <1>1 DEF LotInv
  <1> HIDE DEF x
  <1>4. Knows(x, conn[c])
    BY <1>2, <1>3, WantsAre DEF Knows
  <1> QED
    BY <1>1, <1>4, LotInvMoves


(* No two lots of an account name one instrument.                           *)
LEMMA FitsOnce ==
  ASSUME HeldOnce, OneNaming, NEW a \in Accounts, NEW m \in DOMAIN Listed(a),
         NEW n \in DOMAIN Listed(a), NEW i, Fits(i, Listed(a)[m]), Fits(i, Listed(a)[n])
  PROVE  m = n
  <1>1. EachOnce(Listed(a), a)
    BY ListedOnce
  <1>2. SameLot(Listed(a)[m], Listed(a)[n])
    BY <1>1 DEF EachOnce, OneNaming, Fits, SameLot
  <1> QED
    BY <1>1, <1>2 DEF EachOnce

(* If every lot was answered, the positions that are written mirror them.   *)
LEMMA SyncedMirrors ==
  ASSUME HeldOnce, OneNaming, NEW c \in Conns, conn[c] \in Accounts, Knows(tx[c], conn[c]),
         \A n \in DOMAIN Listed(conn[c]) : n <= Len(tx[c].got) /\ tx[c].got[n] # Null
  PROVE  Mirrors(Synced(c), conn[c])
  <1> DEFINE a == conn[c]
             D == DOMAIN Listed(a)
             g == [n \in D |-> tx[c].got[n]]
             of(i) == {n \in D : tx[c].got[n] = i}
             p == Synced(c)
  <1>1. \A n \in D : Fits(g[n], Listed(a)[n])
    BY DEF Knows
  <1>2. g \in [D -> Listings]
    BY <1>1 DEF Fits
  <1>3. D \subseteq Nat
    BY WantsAre
  <1>4. \A i \in Listings : p[i] = IF of(i) = {} THEN 0
                            ELSE Listed(a)[CHOOSE n \in of(i) : \A k \in of(i) : k <= n].qty
    BY DEF Synced
  <1>5. ASSUME NEW n \in D PROVE p[g[n]] = Listed(a)[n].qty
    <2>1. \A m \in of(g[n]) : m = n
      <3>1. ASSUME NEW m \in of(g[n]) PROVE m = n
        <4>1. Fits(g[n], Listed(a)[m])
          BY <1>1
        <4> QED
          BY <1>1, <4>1, FitsOnce
      <3> QED
        BY <3>1
    <2>2. of(g[n]) = {n}
      BY <2>1
    <2>3. (CHOOSE m \in {n} : \A k \in {n} : k <= m) = n
      BY <1>3
    <2>4. g[n] \in Listings
      BY <1>2
    <2> HIDE DEF of, g, p
    <2> QED
      BY <1>4, <2>2, <2>3, <2>4
  <1>6. ASSUME NEW i \in Listings, \A n \in D : g[n] # i PROVE p[i] = 0
    <2>1. of(i) = {}
      BY <1>6
    <2> HIDE DEF of, g, p
    <2> QED
      BY <1>4, <2>1
  <1> HIDE DEF g, p
  <1> QED
    BY <1>1, <1>2, <1>5, <1>6 DEF Mirrors, p

(* The commit.                                                              *)
LEMMA LotInvCommit ==
  ASSUME HeldOnce, OneNaming, MapInv, LotInv, NEW c \in Conns, CommitSync(c)
  PROVE  LotInv'
  <1> DEFINE x == [Closed EXCEPT !.pc = "done"]
             skips == \E n \in DOMAIN Listed(conn[c]) : tx[c].got[n] = Null
  <1>1. /\ tx[c].pc = "select" /\ tx[c].at > Len(tx[c].wants) /\ tx' = [tx EXCEPT ![c] = x]
        /\ position' = [position EXCEPT ![c] = Synced(c)] /\ conn' = conn
        /\ skipped' = [skipped EXCEPT ![c] = skips]
    BY DEF CommitSync, CommitMappings
  <1>2. ~Open(x)
    BY GoneIsTx DEF Open
  <1>3. conn[c] \in Accounts /\ conn[c] # Null /\ Knows(tx[c], conn[c])
    BY <1>1 DEF LotInv, Open
  <1>4. ASSUME ~skips PROVE Mirrors(Synced(c), conn[c])
    <2>1. Len(tx[c].got) = tx[c].at - 1 /\ tx[c].at \in Nat /\ Len(tx[c].got) \in Nat
      BY <1>1, HoldingsAssumption DEF MapInv, IsTx
    <2>2. Len(Wants(conn[c])) \in Nat /\ Len(Wants(conn[c])) >= Len(Listed(conn[c]))
          /\ Len(Listed(conn[c])) \in Nat /\ DOMAIN Listed(conn[c]) = 1 .. Len(Listed(conn[c]))
      BY <1>3, WantsAre
    <2>3. tx[c].at > Len(Wants(conn[c]))
      BY <1>1, <1>3 DEF Knows
    <2>4. \A n \in DOMAIN Listed(conn[c]) : n <= Len(tx[c].got)
      BY <2>1, <2>2, <2>3
    <2> QED
      BY <1>3, <1>4, <2>4, SyncedMirrors
  <1> HIDE DEF x, skips
  <1>5. \A o \in Conns : /\ tx'[o] = IF o = c THEN x ELSE tx[o]
                         /\ position'[o] = IF o = c THEN Synced(c) ELSE position[o]
                         /\ skipped'[o] = IF o = c THEN skips ELSE skipped[o]
    BY <1>1, HoldingsAssumption DEF MapInv, LotInv
  <1>6. /\ position' = [o \in Conns |-> position'[o]] /\ skipped' = [o \in Conns |-> skipped'[o]]
        /\ conn' \in [Conns -> Accounts \union {Null}]
    BY <1>1 DEF LotInv
  <1>7. ASSUME NEW o \in Conns
        PROVE  /\ conn'[o] = Null => ~Open(tx'[o]) /\ position'[o] = NoHolding /\ skipped'[o]
               /\ Open(tx'[o]) => Knows(tx'[o], conn'[o])
               /\ conn'[o] # Null /\ ~skipped'[o] => Mirrors(position'[o], conn'[o])
    <2>1. CASE o = c
      BY <1>1, <1>2, <1>3, <1>4, <1>5, <2>1
    <2>2. CASE o # c
      BY <1>1, <1>5, <2>2 DEF LotInv
    <2> QED
      BY <2>1, <2>2
  <1> QED
    BY <1>6, <1>7 DEF LotInv

(* An account is linked: nothing has been synced yet.                       *)
LEMMA LotInvConnect ==
  ASSUME LotInv, NEW c \in Conns, NEW a \in Accounts, Connect(c, a)
  PROVE  LotInv'
  <1>1. /\ conn[c] = Null /\ conn' = [conn EXCEPT ![c] = a] /\ tx' = tx
        /\ UNCHANGED <<position, skipped>>
    BY DEF Connect, mapVars
  <1>2. \A o \in Conns : conn'[o] = IF o = c THEN a ELSE conn[o]
    BY <1>1 DEF LotInv
  <1>3. conn' \in [Conns -> Accounts \union {Null}]
    BY <1>1 DEF LotInv
  <1>4. ~Open(tx[c]) /\ position[c] = NoHolding /\ skipped[c]
    BY <1>1 DEF LotInv
  <1> QED
    BY <1>1, <1>2, <1>3, <1>4 DEF LotInv

(* At the start nothing is linked.                                          *)
LEMMA LotInvInit == Init => LotInv
  <1> SUFFICES ASSUME Init PROVE LotInv
    OBVIOUS
  <1>1. \A c \in Conns : tx[c] = Closed /\ conn[c] = Null /\ position[c] = NoHolding /\ skipped[c]
    BY HoldingsAssumption DEF Init, InitMappings
  <1>2. ~Open(Closed)
    BY ClosedIsTx DEF Open
  <1>3. /\ conn \in [Conns -> Accounts \union {Null}]
        /\ position = [c \in Conns |-> position[c]] /\ skipped = [c \in Conns |-> skipped[c]]
    BY DEF Init
  <1> QED
    BY <1>1, <1>2, <1>3 DEF LotInv

(* Every step keeps it.                                                     *)
LEMMA LotInvStep ==
  ASSUME HeldOnce, OneNaming, MapInv, LotInv, [Next]_vars
  PROVE  LotInv'
  <1>1. ASSUME NEW c \in Conns, LookUp(c) PROVE LotInv'
    <2>1. UNCHANGED <<conn, position, skipped>>
      BY <1>1 DEF LookUp
    <2>2. CASE AbortMappings(c)
      BY <2>1, <2>2, GoneIsTx, LotInvMoves DEF AbortMappings, Open
    <2> QED
      BY <1>1, <2>1, <2>2, LotInvSelect, LotInvInfer, LotInvInsert DEF LookUp
  <1>2. ASSUME NEW c \in Conns, NEW a \in Accounts, Connect(c, a) PROVE LotInv'
    BY <1>2, LotInvConnect
  <1>3. CASE UNCHANGED <<tx, conn, position, skipped>>
    BY <1>3 DEF LotInv
  <1>4. (\E i \in Listings : SeedInstrument(i)) \/ (\E h \in Handlers : ResolveInstrument(h))
           \/ UNCHANGED vars => UNCHANGED <<tx, conn, position, skipped>>
    BY DEF SeedInstrument, Seed, ResolveInstrument, Resolve, EndResolve, vars, mapVars
  <1> QED
    BY <1>1, <1>2, <1>3, <1>4, LotInvStart, LotInvCommit DEF Next, Sync


(* Positions that mirror an account are worth what it lists, by currency.   *)
LEMMA MirrorsAdd ==
  ASSUME HeldOnce, OneNaming, NEW a \in Accounts, NEW p, Mirrors(p, a), NEW cur
  PROVE  /\ SumFunctionOnSet(p, {i \in Listings : Home[i.exchange] = cur}) = AmountHeld(a, cur)
         /\ \A i \in Listings : p[i] \in Int
  <1> DEFINE D == DOMAIN Listed(a)
             qty == [n \in D |-> Listed(a)[n].qty]
             S == {n \in D : Home[Canonical(Listed(a)[n].exchange)] = cur}
             I == {i \in Listings : Home[i.exchange] = cur}
  <1>1. PICK g \in [D -> Listings] :
            /\ \A n \in D : Fits(g[n], Listed(a)[n]) /\ p[g[n]] = Listed(a)[n].qty
            /\ \A i \in Listings : (\A n \in D : g[n] # i) => p[i] = 0
    BY DEF Mirrors
  <1>2. \A n \in D : qty[n] \in Int /\ qty[n] = p[g[n]]
    <2>1. Listed(a) \in Seq(Rows)
      BY ListedOnce DEF EachOnce
    <2>2. \A n \in D : Listed(a)[n] \in Rows
      BY <2>1
    <2>3. \A n \in D : Listed(a)[n].qty \in Int
      BY <2>2 DEF Rows
    <2> QED
      BY <1>1, <2>3
  <1>3. \A m, n \in D : g[m] = g[n] => m = n
    <2>1. ASSUME NEW m \in D, NEW n \in D, g[m] = g[n] PROVE m = n
      <3>1. Fits(g[m], Listed(a)[m]) /\ Fits(g[m], Listed(a)[n])
        BY <1>1, <2>1
      <3> QED
        BY <3>1, FitsOnce
    <2> QED
      BY <2>1
  <1>4. AmountHeld(a, cur) = SumFunctionOnSet(qty, S)
    BY DEF AmountHeld
  <1>5. IsFiniteSet(S)
    <2>1. D = 1 .. Len(Listed(a)) /\ Len(Listed(a)) \in Int
      BY WantsAre
    <2>2. \A n \in Int : IsFiniteSet(1 .. n)
      BY FS_Interval
    <2>3. IsFiniteSet(D)
      BY <2>1, <2>2
    <2> QED
      BY <2>3, FS_Subset
  <1>6. ASSUME NEW n \in D PROVE n \in S <=> g[n] \in I
    BY <1>1 DEF Fits
  <1>7. \A i \in Listings : p[i] \in Int
    BY <1>1, <1>2
  <1> DEFINE named == {g[n] : n \in S}
  <1>8. SumFunctionOnSet(p, named) = SumFunctionOnSet(qty, S)
    <2>1. S \subseteq D
      OBVIOUS
    <2> HIDE DEF S, D, qty
    <2>2. \A n \in S : qty[n] \in Int /\ qty[n] = p[g[n]]
      BY <1>2, <2>1
    <2>3. \A m, n \in S : g[m] = g[n] => m = n
      BY <1>3, <2>1
    <2> QED
      BY <1>5, <2>2, <2>3, SumRenamed
  <1>9. named \in SUBSET I /\ \A i \in I \ named : p[i] = 0
    <2>1. \A n \in S : n \in D /\ g[n] \in I
      BY <1>6
    <2>2. ASSUME NEW i \in I, i \notin named PROVE p[i] = 0
      <3>1. \A n \in D : g[n] = i => n \in S
        BY <1>6, <2>2
      <3>2. \A n \in D : g[n] # i
        BY <3>1, <2>2
      <3> QED
        BY <1>1, <3>2
    <2> QED
      BY <2>1, <2>2
  <1>10. IsFiniteSet(I) /\ \A i \in I : p[i] \in Int
    BY <1>7, MappingAssumption, FS_Subset
  <1> HIDE DEF named, I, S, qty, D
  <1>11. SumFunctionOnSet(p, I) = SumFunctionOnSet(p, named)
    BY <1>9, <1>10, SumWithoutZeros
  <1> QED
    BY <1>4, <1>7, <1>8, <1>11 DEF I

(* The summary of a user adds up, connection by connection.                 *)
LEMMA NativeByConnection ==
  ASSUME NEW u, NEW cur,
         \A c \in {d \in Conns : Owner[d] = u} : \A i \in Listings : position[c][i] \in Int
  PROVE  Native(u, cur) =
             SumFunctionOnSet([c \in {d \in Conns : Owner[d] = u} |->
                 SumFunctionOnSet(position[c], {i \in Listings : Home[i.exchange] = cur})],
                 {d \in Conns : Owner[d] = u})
  <1> DEFINE C == {d \in Conns : Owner[d] = u}
             f == [x \in Conns \X Listings |-> position[x[1]][x[2]]]
             P == {x \in Conns \X Listings : Owner[x[1]] = u /\ Home[x[2].exchange] = cur}
             I == {i \in Listings : Home[i.exchange] = cur}
             h == [c \in C |-> SumFunctionOnSet(position[c], I)]
  <1>1. Native(u, cur) = SumFunctionOnSet(f, P)
    BY DEF Native
  <1>2. P \in SUBSET (C \X Listings)
    <2>1. ASSUME NEW x \in P PROVE x \in C \X Listings
      <3>1. x = <<x[1], x[2]>> /\ x[1] \in Conns /\ x[2] \in Listings /\ Owner[x[1]] = u
        OBVIOUS
      <3> QED
        BY <3>1
    <2> QED
      BY <2>1
  <1>3. \A x \in P : f[x] \in Int /\ f[x] = position[x[1]][x[2]]
    <2>1. ASSUME NEW x \in P PROVE f[x] \in Int /\ f[x] = position[x[1]][x[2]]
      <3>1. x \in Conns \X Listings /\ x[1] \in C /\ x[2] \in Listings
        OBVIOUS
      <3>2. f[x] = position[x[1]][x[2]]
        BY <3>1
      <3> QED
        BY <3>1, <3>2
    <2> QED
      BY <2>1
  <1>4. \A c \in C : h[c] = SumFunctionOnSet(position[c], InRow(P, c, Listings))
    <2>1. ASSUME NEW c \in C PROVE InRow(P, c, Listings) = I
      BY DEF InRow
    <2> HIDE DEF P, I
    <2> QED
      BY <2>1
  <1>5. IsFiniteSet(C) /\ IsFiniteSet(Listings)
    BY HoldingsAssumption, MappingAssumption, FS_Subset
  <1>6. SumFunctionOnSet(f, P) = SumFunctionOnSet(h, C)
    <2> HIDE DEF f, h, P, C
    <2> QED
      BY <1>2, <1>3, <1>4, <1>5, SumByRows
  <1> QED
    BY <1>1, <1>6

(* Whatever syncs and mappings race, a user's summary is worth what the     *)
(* brokers list, as long as no symbol was skipped and no account is linked  *)
(* twice: if a broker names what is held once, and an exchange in one way.  *)
THEOREM SummariesMirrorAccounts ==
  ASSUME HeldOnce, OneNaming
  PROVE  Spec => []TotalsMirrorAccounts
  <1>1. ASSUME LotInv PROVE TotalsMirrorAccounts
    <2> SUFFICES ASSUME NEW u \in {Owner[c] : c \in Conns}, NEW cur \in Currencies,
                        \A c \in {c \in Conns : Owner[c] = u /\ conn[c] # Null} : ~skipped[c]
                 PROVE  LET mine == {c \in Conns : Owner[c] = u /\ conn[c] # Null}
                        IN  Native(u, cur) =
                              SumFunctionOnSet([c \in mine |-> AmountHeld(conn[c], cur)], mine)
      BY DEF TotalsMirrorAccounts
    <2> DEFINE C == {d \in Conns : Owner[d] = u}
               mine == {c \in Conns : Owner[c] = u /\ conn[c] # Null}
               I == {i \in Listings : Home[i.exchange] = cur}
               h == [c \in C |-> SumFunctionOnSet(position[c], I)]
               k == [c \in mine |-> AmountHeld(conn[c], cur)]
    <2>1. IsFiniteSet(C) /\ IsFiniteSet(mine) /\ mine \in SUBSET C /\ IsFiniteSet(I)
      <3>1. mine \in SUBSET C /\ C \in SUBSET Conns /\ I \in SUBSET Listings
        OBVIOUS
      <3> QED
        BY <3>1, HoldingsAssumption, MappingAssumption, FS_Subset
    <2>2. ASSUME NEW c \in mine
          PROVE  /\ SumFunctionOnSet(position[c], I) = AmountHeld(conn[c], cur)
                 /\ \A i \in Listings : position[c][i] \in Int
      <3>1. conn[c] \in Accounts /\ Mirrors(position[c], conn[c])
        BY <1>1 DEF LotInv
      <3> QED
        BY <3>1, MirrorsAdd
    <2>3. ASSUME NEW c \in C \ mine
          PROVE  /\ SumFunctionOnSet(position[c], I) = 0
                 /\ \A i \in Listings : position[c][i] \in Int
      <3>1. position[c] = NoHolding
        BY <1>1 DEF LotInv
      <3>2. \A i \in Listings : position[c][i] = 0
        BY <3>1 DEF NoHolding
      <3> QED
        BY <2>1, <3>2, SumZero
    <2>4. \A c \in C : \A i \in Listings : position[c][i] \in Int
      BY <2>2, <2>3
    <2>5. Native(u, cur) = SumFunctionOnSet(h, C)
      BY <2>4, NativeByConnection
    <2>6. \A c \in C : h[c] \in Int
      <3>1. ASSUME NEW c \in C PROVE SumFunctionOnSet(position[c], I) \in Int
        <4>1. \A i \in I : position[c][i] \in Int
          BY <2>4
        <4> HIDE DEF I
        <4> QED
          BY <2>1, <4>1, SumInt
      <3> QED
        BY <3>1
    <2>7. \A c \in C \ mine : h[c] = 0
      BY <2>3
    <2>8. \A c \in mine : h[c] = k[c]
      BY <2>1, <2>2
    <2> HIDE DEF h, k, C, mine
    <2>9. SumFunctionOnSet(h, C) = SumFunctionOnSet(h, mine)
      BY <2>1, <2>6, <2>7, SumWithoutZeros
    <2>10. SumFunctionOnSet(h, mine) = SumFunctionOnSet(k, mine)
      BY <2>1, <2>8, SumEqual
    <2>11. Native(u, cur) = SumFunctionOnSet(k, mine)
      BY <2>5, <2>9, <2>10
    <2> QED
      BY <2>11 DEF k, mine
  <1>2. Init => MapInv /\ LotInv
    BY MapInvInit, LotInvInit
  <1>3. MapInv /\ LotInv /\ [Next]_vars => (MapInv /\ LotInv)'
    BY MapInvStep, LotInvStep
  <1> QED
    BY <1>1, <1>2, <1>3, PTL DEF Spec

-----------------------------------------------------------------------------
(* The sliding window of GlobalRateLimiter, through which an adapter calls  *)
(* its broker: theorems about RateLimiter, for any workers, budget, window, *)
(* cap and latency.                                                         *)

(* Where acquire() can be.                                                  *)
Places == {"idle", "trim", "card", "add", "expire", "oldest", "sleep"}

(* What every attempt and every sleep keeps to.                             *)
CallsInv ==
    /\ LimiterTypeOK
    /\ \A w \in Workers : At(w, "sleep") => call[w].age = 0
    /\ WaitIsCapped

(* There are finitely many ages an entry can have.                          *)
LEMMA AgesFinite == ASSUME LimiterAssumption
                    PROVE  OldAge \in Nat /\ IsFiniteSet(Ages)
  BY FS_Interval DEF LimiterAssumption, OldAge, Ages

(* A set with members has an oldest one, and the sleep until it leaves the  *)
(* window is not longer than a window and an attempt.                       *)
LEMMA SleepIsShort ==
  ASSUME LimiterAssumption, LimiterTypeOK, Members(zset) # 0, NEW w \in Workers
  PROVE  SleepFor(w) \in 1 .. OldAge
  <1> DEFINE A == {a \in Ages : zset[a] > 0}
  <1>1. A # {}
    <2>1. DOMAIN zset = Ages /\ \A a \in Ages : zset[a] \in Nat
      BY DEF LimiterTypeOK
    <2>2. \E a \in Ages : zset[a] # 0
      <3>1. Members(zset) = SumFunctionOnSet(zset, Ages)
        BY <2>1 DEF Members, SumFunction
      <3> QED
        BY <3>1, AgesFinite, SumZero
    <2> QED
      BY <2>1, <2>2
  <1>2. PICK m \in A : \A a \in A : a <= m
    <2>1. A \in SUBSET Int /\ OldAge \in Int /\ \A a \in A : a <= OldAge
      BY AgesFinite DEF Ages
    <2> HIDE DEF A
    <2> QED
      BY <1>1, <2>1, GreatestExists
  <1> DEFINE o == CHOOSE a \in Ages :
                    zset[a] > 0 /\ \A b \in Ages : zset[b] > 0 => b <= a
  <1>3. o \in Ages
    BY <1>2
  <1>4. call[w].age \in 0 .. Latency
    BY DEF LimiterTypeOK, CallState
  <1>5. SleepFor(w) = IF o < Window + call[w].age THEN (Window + call[w].age) - o ELSE 1
    BY Zenon DEF SleepFor
  <1> HIDE DEF o
  <1> QED
    BY <1>3, <1>4, <1>5 DEF LimiterAssumption, OldAge, Ages

(* What a call has in hand, after a change of some of its fields.           *)
Moved(c, p) == [c EXCEPT !.pc = p]
Again(c, p) == [c EXCEPT !.pc = p, !.age = 0]
Asleep(c, x) == [c EXCEPT !.pc = "sleep", !.age = 0, !.wait = x]
Older(c, a, e, x) == [c EXCEPT !.age = a, !.elapsed = e, !.wait = x]

(* An attempt that goes on to its next command keeps its type.              *)
LEMMA CallMoves ==
  ASSUME NEW c \in CallState, NEW p \in Places
  PROVE  Moved(c, p) \in CallState /\ Moved(c, p).pc = p
  BY DEF CallState, Places, Moved

(* So does a caller that makes an attempt, its first or one after a sleep.  *)
LEMMA CallStartsAgain ==
  ASSUME LimiterAssumption, NEW c \in CallState, NEW p \in Places
  PROVE  Again(c, p) \in CallState /\ Again(c, p).pc = p
  <1>1. 0 \in 0 .. Latency
    BY DEF LimiterAssumption
  <1> QED
    BY <1>1 DEF CallState, Places, Again

(* So does one that is told how long to sleep.                              *)
LEMMA CallSleeps ==
  ASSUME LimiterAssumption, NEW c \in CallState, NEW x \in 0 .. OldAge
  PROVE  /\ Asleep(c, x) \in CallState /\ Asleep(c, x).pc = "sleep" /\ Asleep(c, x).age = 0
         /\ Asleep(c, x).elapsed = c.elapsed /\ Asleep(c, x).wait = x
  <1>1. 0 \in 0 .. Latency
    BY DEF LimiterAssumption
  <1> QED
    BY <1>1 DEF CallState, Asleep

(* So does one for which a unit of time passes.                             *)
LEMMA CallAges ==
  ASSUME NEW c \in CallState, NEW a \in 0 .. Latency, NEW e \in 0 .. MaxWait + 1,
         NEW x \in 0 .. OldAge
  PROVE  /\ Older(c, a, e, x) \in CallState /\ Older(c, a, e, x).pc = c.pc
         /\ Older(c, a, e, x).age = a /\ Older(c, a, e, x).elapsed = e
         /\ Older(c, a, e, x).wait = x
  BY DEF CallState, Older

(* What one worker has in hand changes: the others keep theirs.             *)
LEMMA OneCall ==
  ASSUME CallsInv, NEW w \in Workers, NEW c \in CallState, call' = [call EXCEPT ![w] = c],
         c.pc = "sleep" => c.age = 0 /\ c.elapsed + c.wait <= MaxWait
  PROVE  /\ call' \in [Workers -> CallState]
         /\ \A v \in Workers : At(v, "sleep")' => call'[v].age = 0
         /\ WaitIsCapped'
  BY DEF CallsInv, LimiterTypeOK, WaitIsCapped, At

(* The sorted set keeps its type when time passes and when a request is     *)
(* added to it; and an empty one has it.                                    *)
LEMMA BagsKeepTheirType ==
  ASSUME LimiterAssumption, NEW bag \in [Ages -> Nat]
  PROVE  /\ Aged(bag) \in [Ages -> Nat]
         /\ NoMembers \in [Ages -> Nat]
         /\ \A a \in Ages : Stamped(bag, a) \in [Ages -> Nat]
  <1>1. \A a \in Ages : Stamped(bag, a) \in [Ages -> Nat]
    BY DEF Stamped
  <1>2. ASSUME NEW a \in Ages
        PROVE  (IF a = 0 THEN 0 ELSE bag[a - 1] + IF a = OldAge THEN bag[a] ELSE 0) \in Nat
    <2>1. a # 0 => a - 1 \in Ages
      BY AgesFinite DEF Ages
    <2> QED
      BY <2>1
  <1> QED
    BY <1>1, <1>2 DEF Aged, NoMembers

(* At the start nobody calls.                                               *)
LEMMA CallsInvInit == LimiterAssumption /\ InitLimiter => CallsInv
  BY BagsKeepTheirType DEF LimiterAssumption, InitLimiter, CallsInv, LimiterTypeOK,
                           WaitIsCapped, NoMembers, NoCall,
                           CallState, At, OldAge, Ages

(* Every command, sleep, crash and unit of time keeps it.                   *)
LEMMA CallsInvStep ==
  ASSUME LimiterAssumption, CallsInv, [LimiterNext]_limiterVars
  PROVE  CallsInv'
  <1> USE DEF CallsInv
  <1>0. NoCall \in CallState
    BY DEF NoCall, CallState, LimiterAssumption, OldAge
  <1>w. ASSUME NEW w \in Workers
        PROVE  /\ call[w] \in CallState /\ call[w].age \in 0 .. Latency
               /\ call[w].elapsed \in 0 .. MaxWait + 1 /\ call[w].wait \in 0 .. OldAge
    BY DEF LimiterTypeOK, CallState
  <1>t. \A a \in 0 .. Latency : a \in Ages
    BY DEF LimiterAssumption, Ages, OldAge
  <1>1. ASSUME NEW w \in Workers, Acquire(w) PROVE CallsInv'
    <2>1. [NoCall EXCEPT !.pc = "trim"] \in CallState
      BY <1>0 DEF CallState
    <2> QED
      BY <1>1, <2>1, OneCall DEF Acquire, LimiterTypeOK, NoCall
  <1>2. ASSUME NEW w \in Workers, Trim(w) PROVE CallsInv'
    <2> DEFINE c == Moved(call[w], "card")
    <2>1. c \in CallState /\ c.pc = "card"
      BY <1>w, CallMoves DEF Places
    <2>0. call' = [call EXCEPT ![w] = c]
      BY <1>2 DEF Trim, Moved
    <2>2. zset' \in [Ages -> Nat]
      BY <1>2 DEF Trim, LimiterTypeOK
    <2>3. ttl' \in 0 .. Ttl
      BY <1>2 DEF Trim, LimiterTypeOK, LimiterAssumption
    <2> HIDE DEF c
    <2> QED
      BY <1>2, <2>0, <2>1, <2>2, <2>3, OneCall DEF Trim, LimiterTypeOK
  <1>3. ASSUME NEW w \in Workers, Card(w) PROVE CallsInv'
    <2> DEFINE c == Moved(call[w], IF Members(zset) < MaxRequests THEN "add" ELSE "oldest")
    <2>1. c \in CallState /\ c.pc # "sleep"
      BY <1>w, CallMoves DEF Places
    <2>0. call' = [call EXCEPT ![w] = c]
      BY <1>3 DEF Card, Moved
    <2> HIDE DEF c
    <2> QED
      BY <1>3, <2>0, <2>1, OneCall DEF Card, LimiterTypeOK
  <1>4. ASSUME NEW w \in Workers, Add(w) PROVE CallsInv'
    <2> DEFINE c == Moved(call[w], "expire")
    <2>1. c \in CallState /\ c.pc = "expire"
      BY <1>w, CallMoves DEF Places
    <2>0. call' = [call EXCEPT ![w] = c]
      BY <1>4 DEF Add, Moved
    <2>2. zset' \in [Ages -> Nat] /\ granted' \in [Ages -> Nat]
      BY <1>4, <1>w, <1>t, BagsKeepTheirType DEF Add, LimiterTypeOK, CallState
    <2> HIDE DEF c
    <2> QED
      BY <1>4, <2>0, <2>1, <2>2, OneCall DEF Add, LimiterTypeOK
  <1>5. ASSUME NEW w \in Workers, Expire(w) PROVE CallsInv'
    <2>1. ttl' \in 0 .. Ttl
      BY <1>5 DEF Expire, LimiterAssumption
    <2> QED
      BY <1>0, <1>5, <2>1, OneCall DEF Expire, LimiterTypeOK, NoCall
  <1>6. ASSUME NEW w \in Workers, Oldest(w) PROVE CallsInv'
    <2>1. CASE Members(zset) = 0
      <3> DEFINE c == Again(call[w], "trim")
      <3>1. c \in CallState /\ c.pc # "sleep"
        BY <1>w, CallStartsAgain DEF Places
      <3>2. call' = [call EXCEPT ![w] = c]
        BY <1>6, <2>1 DEF Oldest, Again
      <3> HIDE DEF c
      <3> QED
        BY <1>6, <3>1, <3>2, OneCall DEF Oldest, LimiterTypeOK
    <2>2. CASE Members(zset) # 0 /\ call[w].elapsed + SleepFor(w) > MaxWait
      <3>1. call' = [call EXCEPT ![w] = NoCall]
        BY <1>6, <2>2 DEF Oldest
      <3> QED
        BY <1>0, <1>6, <3>1, OneCall DEF Oldest, LimiterTypeOK, NoCall
    <2>3. CASE Members(zset) # 0 /\ ~(call[w].elapsed + SleepFor(w) > MaxWait)
      <3> DEFINE c == Asleep(call[w], SleepFor(w))
      <3>1. SleepFor(w) \in 0 .. OldAge /\ call[w].elapsed \in Nat
            /\ MaxWait \in Nat
        <4>1. SleepFor(w) \in 1 .. OldAge
          BY <2>3, SleepIsShort
        <4> QED
          BY <4>1, <1>w, AgesFinite DEF LimiterAssumption
      <3>2. /\ c \in CallState /\ c.pc = "sleep" /\ c.age = 0
            /\ c.elapsed = call[w].elapsed /\ c.wait = SleepFor(w)
        BY <1>w, <3>1, CallSleeps
      <3>3. c.elapsed + c.wait <= MaxWait
        BY <2>3, <3>1, <3>2
      <3>4. call' = [call EXCEPT ![w] = c]
        BY <1>6, <2>3 DEF Oldest, Asleep
      <3>5. UNCHANGED <<zset, ttl, granted, whole>>
        BY <1>6 DEF Oldest
      <3> HIDE DEF c
      <3> QED
        BY <3>2, <3>3, <3>4, <3>5, OneCall DEF LimiterTypeOK
    <2> QED
      BY <2>1, <2>2, <2>3
  <1>7. ASSUME NEW w \in Workers, Wake(w) PROVE CallsInv'
    <2> DEFINE c == Moved(call[w], "trim")
    <2>1. c \in CallState /\ c.pc = "trim"
      BY <1>w, CallMoves DEF Places
    <2>0. call' = [call EXCEPT ![w] = c]
      BY <1>7 DEF Wake, Moved
    <2> HIDE DEF c
    <2> QED
      BY <1>7, <2>0, <2>1, OneCall DEF Wake, LimiterTypeOK
  <1>8. ASSUME NEW w \in Workers, Crash(w) PROVE CallsInv'
    BY <1>0, <1>8, OneCall DEF Crash, LimiterTypeOK, NoCall
  <1>9. CASE Tick
    <2>1. ASSUME NEW w \in Workers
          PROVE  /\ call'[w] \in CallState
                 /\ At(w, "sleep")' => call'[w].age = 0
                        /\ call'[w].elapsed + call'[w].wait <= MaxWait
      <3>1. CASE At(w, "idle")
        <4>1. call'[w] = call[w]
          BY <1>9, <3>1 DEF Tick
        <4> QED
          BY <4>1, <3>1, <1>w DEF At
      <3>2. CASE ~At(w, "idle")
        <4> DEFINE a == IF Running(w) THEN call[w].age + 1 ELSE call[w].age
                   e == IF call[w].elapsed > MaxWait THEN call[w].elapsed ELSE call[w].elapsed + 1
                   x == IF At(w, "sleep") THEN call[w].wait - 1 ELSE call[w].wait
        <4>1. call'[w] = Older(call[w], a, e, x)
          <5>1. call'[w] = [call[w] EXCEPT
                    !.age = IF Running(w) THEN @ + 1 ELSE @,
                    !.elapsed = IF @ > MaxWait THEN @ ELSE @ + 1,
                    !.wait = IF At(w, "sleep") THEN @ - 1 ELSE @]
            BY <1>9, <3>2, Zenon DEF Tick
          <5>2. call[w] = [pc |-> call[w].pc, age |-> call[w].age,
                           elapsed |-> call[w].elapsed, wait |-> call[w].wait]
            BY <1>w DEF CallState
          <5> QED
            BY <5>1, <5>2 DEF Older
        <4>2. a \in 0 .. Latency
          <5>1. Running(w) => call[w].age < Latency
            BY <1>9 DEF Tick
          <5> QED
            BY <5>1, <1>w DEF LimiterAssumption
        <4>3. e \in 0 .. MaxWait + 1
          BY <1>w DEF LimiterAssumption
        <4>4. x \in 0 .. OldAge
          <5>1. At(w, "sleep") => call[w].wait > 0
            BY <1>9 DEF Tick
          <5> QED
            BY <5>1, <1>w, AgesFinite
        <4>5. /\ call'[w] \in CallState /\ call'[w].pc = call[w].pc
              /\ call'[w].age = a /\ call'[w].elapsed = e /\ call'[w].wait = x
          <5> HIDE DEF a, e, x
          <5> QED
            BY <4>1, <4>2, <4>3, <4>4, <1>w, CallAges
        <4>6. CASE At(w, "sleep")
          <5>1. /\ call[w].wait > 0 /\ call[w].elapsed + call[w].wait <= MaxWait
                /\ call[w].age = 0 /\ ~Running(w)
            BY <1>9, <4>6 DEF Tick, WaitIsCapped, Running, At
          <5>2. a = 0 /\ e = call[w].elapsed + 1 /\ x = call[w].wait - 1
            BY <5>1, <4>6, <1>w DEF LimiterAssumption
          <5> QED
            BY <5>1, <5>2, <4>5, <1>w DEF LimiterAssumption
        <4> QED
          BY <4>5, <4>6 DEF At
      <3> QED
        BY <3>1, <3>2
    <2>2. call' \in [Workers -> CallState]
      BY <2>1, <1>9 DEF Tick
    <2>3. zset' \in [Ages -> Nat] /\ granted' \in [Ages -> Nat]
      <3>1. Aged(zset) \in [Ages -> Nat]
            /\ Aged(granted) \in [Ages -> Nat]
            /\ NoMembers \in [Ages -> Nat]
        BY BagsKeepTheirType DEF LimiterTypeOK
      <3> QED
        BY <3>1, <1>9 DEF Tick
    <2>4. ttl' \in 0 .. Ttl
      <3>1. ttl' = (IF ttl = 0 THEN 0 ELSE ttl - 1) /\ ttl \in 0 .. Ttl /\ Ttl \in Nat
        BY <1>9 DEF Tick, LimiterTypeOK, LimiterAssumption
      <3> QED
        BY <3>1
    <2> QED
      BY <1>9, <2>1, <2>2, <2>3, <2>4 DEF Tick, LimiterTypeOK, WaitIsCapped
  <1>10. CASE UNCHANGED limiterVars
    BY <1>10 DEF limiterVars, LimiterTypeOK, WaitIsCapped, At
  <1> QED
    BY <1>1, <1>2, <1>3, <1>4, <1>5, <1>6, <1>7, <1>8, <1>9, <1>10 DEF LimiterNext, Attempt

(* acquire() never sleeps longer than max_wait in all, however many workers *)
(* use up the budget meanwhile and however old the entries it finds are.    *)
THEOREM SleepsAreCapped == ASSUME LimiterAssumption
                           PROVE  LimiterSpec => [](LimiterTypeOK /\ WaitIsCapped)
  <1>1. InitLimiter => CallsInv
    BY CallsInvInit
  <1>2. CallsInv /\ [LimiterNext]_limiterVars => CallsInv'
    BY CallsInvStep
  <1>3. CallsInv => LimiterTypeOK /\ WaitIsCapped
    BY DEF CallsInv
  <1> QED
    BY <1>1, <1>2, <1>3, PTL DEF LimiterSpec
-----------------------------------------------------------------------------
(* An attempt that is past its ZREMRANGEBYSCORE, and one that is not past its ZADD. *)
Past(w) == call[w].pc \in {"card", "add", "expire"}
Ahead(w) == call[w].pc \in {"trim", "card", "add"}

(* What the time to live tells of the members and of the attempts.          *)
ClockInv ==
    /\ \A x \in 0 .. OldAge - 1 : zset[x] > 0 =>
        \/ \E w \in Workers : At(w, "expire") /\ call[w].age = x
        \/ ttl + x >= Ttl
    /\ \A w \in Workers : Past(w) /\ ttl # 0 =>
        \E u \in Workers : Past(u) /\ (u = w \/ At(u, "expire"))
                            /\ ttl + Window + call[u].age >= Ttl

(* What one step of a worker does to the place and the age of its attempt.  *)
LEMMA StepOfOne ==
  ASSUME LimiterAssumption, CallsInv, NEW w \in Workers,
         Acquire(w) \/ Attempt(w) \/ Crash(w)
  PROVE  /\ \A v \in Workers \ {w} : call'[v] = call[v]
         /\ Acquire(w) \/ Oldest(w) \/ Wake(w)
               => ~Past(w) /\ ~Past(w)' /\ ~Ahead(w) /\ call'[w].age = 0
         /\ Trim(w) => call'[w].pc = "card" /\ call'[w].age = call[w].age
         /\ Card(w) =>
              /\ call'[w].pc = IF Members(zset) < MaxRequests THEN "add" ELSE "oldest"
              /\ call'[w].age = call[w].age
         /\ Add(w) => call'[w].pc = "expire" /\ call'[w].age = call[w].age
         /\ Expire(w) \/ Crash(w) => call'[w].pc = "idle"
  <1>1. call[w] \in CallState /\ DOMAIN call = Workers
        /\ (At(w, "sleep") => call[w].age = 0)
    BY DEF CallsInv, LimiterTypeOK
  <1>2. \A v \in Workers \ {w} : call'[v] = call[v]
    BY <1>1 DEF Acquire, Attempt, Trim, Card, Add,
                Expire, Oldest, Wake, Crash
  <1>3. ASSUME Acquire(w)
        PROVE  call[w].pc = "idle" /\ call'[w].pc = "trim" /\ call'[w].age = 0
    BY <1>1, <1>3 DEF Acquire, At, NoCall
  <1>4. ASSUME Wake(w)
        PROVE  call[w].pc = "sleep" /\ call'[w].pc = "trim" /\ call'[w].age = 0
    BY <1>1, <1>4 DEF Wake, At, CallState
  <1>5. ASSUME Oldest(w)
        PROVE  /\ call[w].pc = "oldest" /\ call'[w].pc \in {"trim", "idle", "sleep"}
               /\ call'[w].age = 0
    <2>1. /\ call[w].pc = "oldest"
          /\ \/ call'[w] = [call[w] EXCEPT !.pc = "trim", !.age = 0]
             \/ call'[w] = NoCall
             \/ call'[w] = [call[w] EXCEPT !.pc = "sleep", !.age = 0, !.wait = SleepFor(w)]
      BY <1>1, <1>5 DEF Oldest, At
    <2>2. CASE call'[w] = [call[w] EXCEPT !.pc = "trim", !.age = 0]
      BY <1>1, <2>1, <2>2 DEF CallState
    <2>3. CASE call'[w] = NoCall
      BY <2>1, <2>3 DEF NoCall
    <2>4. CASE call'[w] = [call[w] EXCEPT !.pc = "sleep", !.age = 0, !.wait = SleepFor(w)]
      BY <1>1, <2>1, <2>4 DEF CallState
    <2> QED
      BY <2>1, <2>2, <2>3, <2>4
  <1>6. Trim(w) => call'[w].pc = "card" /\ call'[w].age = call[w].age
    <2>1. Trim(w) => call'[w] = [call[w] EXCEPT !.pc = "card"]
      BY <1>1 DEF Trim
    <2> QED
      BY <1>1, <2>1 DEF CallState
  <1>7. Card(w) =>
          /\ call'[w].pc = IF Members(zset) < MaxRequests THEN "add" ELSE "oldest"
          /\ call'[w].age = call[w].age
    <2>1. Card(w) => call'[w] = [call[w] EXCEPT
                        !.pc = IF Members(zset) < MaxRequests THEN "add" ELSE "oldest"]
      BY <1>1 DEF Card
    <2> QED
      BY <1>1, <2>1 DEF CallState
  <1>8. Add(w) => call'[w].pc = "expire" /\ call'[w].age = call[w].age
    <2>1. Add(w) => call'[w] = [call[w] EXCEPT !.pc = "expire"]
      BY <1>1 DEF Add
    <2> QED
      BY <1>1, <2>1 DEF CallState
  <1>9. Expire(w) \/ Crash(w) => call'[w].pc = "idle"
    BY <1>1 DEF Expire, Crash, NoCall
  <1>10. Acquire(w) \/ Oldest(w) \/ Wake(w)
           => ~Past(w) /\ ~Past(w)' /\ ~Ahead(w) /\ call'[w].age = 0
    BY <1>3, <1>4, <1>5 DEF Past, Ahead
  <1> HIDE DEF Past, Ahead
  <1> QED
    BY <1>2, <1>6, <1>7, <1>8, <1>9, <1>10

(* One unit of time later.                                                  *)
LEMMA StepOfTime ==
  ASSUME LimiterAssumption, CallsInv, Tick
  PROVE  /\ \A w \in Workers : call'[w].pc = call[w].pc
         /\ \A w \in Workers : Past(w) \/ Ahead(w) =>
                call[w].age < Latency /\ call'[w].age = call[w].age + 1
  <1>1. ASSUME NEW w \in Workers
        PROVE  /\ call'[w].pc = call[w].pc
               /\ Running(w) => call[w].age < Latency /\ call'[w].age = call[w].age + 1
    <2>1. call[w] \in CallState /\ DOMAIN call = Workers
      BY DEF CallsInv, LimiterTypeOK
    <2>2. call'[w] = IF At(w, "idle") THEN call[w]
            ELSE [call[w] EXCEPT
                    !.age = IF Running(w) THEN @ + 1 ELSE @,
                    !.elapsed = IF @ > MaxWait THEN @ ELSE @ + 1,
                    !.wait = IF At(w, "sleep") THEN @ - 1 ELSE @]
      BY DEF Tick
    <2>3. call'[w].pc = call[w].pc /\ (Running(w) => call'[w].age = call[w].age + 1)
      BY <2>1, <2>2 DEF CallState, Running, At
    <2> QED
      BY <2>3 DEF Tick
  <1> QED
    BY <1>1 DEF Past, Ahead, Running

(* When the key expires no attempt is past its trim, and no member is in any window. *)
LEMMA NobodyIsLate ==
  ASSUME LimiterAssumption, Window + Latency < Ttl, CallsInv, ClockInv, Tick,
         ttl = 1
  PROVE  (\A w \in Workers : ~Past(w)) /\ (\A x \in 0 .. OldAge - 1 : zset[x] = 0)
  <1>0. /\ Window \in Nat \ {0} /\ Latency \in Nat /\ Ttl \in Nat
        /\ OldAge = Window + Latency /\ \A x \in 0 .. OldAge : zset[x] \in Nat
        /\ \A w \in Workers : call[w].age \in Nat
    BY DEF LimiterAssumption, CallsInv, LimiterTypeOK, CallState, OldAge,
           Ages
  <1>1. ASSUME NEW w \in Workers, Past(w) PROVE FALSE
    <2>1. PICK u \in Workers : Past(u) /\ ttl + Window + call[u].age >= Ttl
      BY <1>1 DEF ClockInv
    <2>2. call[u].age < Latency
      BY <2>1, StepOfTime
    <2> QED
      BY <1>0, <2>1, <2>2
  <1>2. ASSUME NEW x \in 0 .. OldAge - 1, zset[x] > 0 PROVE FALSE
    <2>1. ttl + x >= Ttl
      BY <1>1, <1>2 DEF ClockInv, Past, At
    <2> QED
      BY <1>0, <2>1
  <1> QED
    BY <1>0, <1>1, <1>2

(* Every step keeps what is known of the key's time to live, as long as no  *)
(* EXPIRE was lost.                                                         *)
LEMMA ClockInvStep ==
  ASSUME LimiterAssumption, Window + Latency < Ttl, CallsInv,
         ClockInv, [LimiterNext]_limiterVars, whole'
  PROVE  ClockInv'
  <1>0. /\ Window \in Nat \ {0} /\ Latency \in Nat /\ Ttl \in Nat /\ ttl \in 0 .. Ttl
        /\ OldAge = Window + Latency /\ \A x \in 0 .. OldAge : zset[x] \in Nat
        /\ \A w \in Workers : call[w].age \in 0 .. Latency
    BY DEF LimiterAssumption, CallsInv, LimiterTypeOK, CallState, OldAge,
           Ages
  <1>1. ASSUME NEW w \in Workers, Acquire(w) \/ Oldest(w) \/ Wake(w)
        PROVE  ClockInv'
    <2>1. UNCHANGED <<zset, ttl>>
      BY <1>1 DEF Acquire, Oldest, Wake
    <2>2. \A v \in Workers \ {w} : call'[v] = call[v]
      BY <1>1, StepOfOne DEF Attempt
    <2>3. ~Past(w) /\ ~Past(w)'
      BY <1>1, StepOfOne DEF Attempt
    <2> QED
      BY <2>1, <2>2, <2>3 DEF ClockInv, Past, At
  <1>2. ASSUME NEW w \in Workers, Trim(w) PROVE ClockInv'
    <2>1. /\ \A v \in Workers \ {w} : call'[v] = call[v]
          /\ call'[w].pc = "card" /\ call'[w].age = call[w].age /\ call[w].pc = "trim"
      BY <1>2, StepOfOne DEF Attempt, Trim, At
    <2>2. \A v \in Workers : /\ At(v, "expire")' <=> At(v, "expire")
                             /\ call'[v].age = call[v].age
                             /\ Past(v) => Past(v)'
                             /\ Past(v)' /\ v # w => Past(v)
      BY <2>1 DEF At, Past
    <2>3. \A x \in Ages : zset'[x] = IF x >= Window + call[w].age THEN 0 ELSE zset[x]
      BY <1>2 DEF Trim
    <2>4. \/ ttl' = 0 /\ \A x \in Ages : zset'[x] = 0
          \/ ttl' = ttl /\ \E x \in Ages : zset'[x] # 0
      <3>1. Members(zset') = 0 <=> \A x \in Ages : zset'[x] = 0
        <4>1. zset' \in [Ages -> Nat]
          BY CallsInvStep DEF CallsInv, LimiterTypeOK
        <4>2. Members(zset') = SumFunctionOnSet(zset', Ages)
          BY <4>1 DEF Members, SumFunction
        <4> QED
          BY <4>1, <4>2, SumNat, AgesFinite
      <3> QED
        BY <1>2, <3>1 DEF Trim
    <2>5. CASE ttl' = 0 /\ \A x \in Ages : zset'[x] = 0
      BY <1>0, <2>5 DEF ClockInv, Ages
    <2>6. CASE ttl' = ttl /\ \E x \in Ages : zset'[x] # 0
      <3>1. PICK x \in Ages : zset'[x] # 0
        BY <2>6
      <3>2. x < Window + call[w].age /\ zset[x] > 0 /\ x \in 0 .. OldAge - 1
        BY <1>0, <2>3, <3>1 DEF Ages
      <3>3. ASSUME ttl # 0
            PROVE  \E u \in Workers : Past(u)' /\ (u = w \/ At(u, "expire"))
                                      /\ ttl + Window + call[u].age >= Ttl
        <4>1. CASE ttl + x >= Ttl
          <5>1. ttl + Window + call[w].age >= Ttl /\ Past(w)'
            BY <1>0, <3>2, <4>1, <2>1 DEF Past, Ages
          <5> QED
            BY <5>1
        <4>2. CASE \E v \in Workers : At(v, "expire") /\ call[v].age = x
          <5>1. PICK v \in Workers : At(v, "expire")
            BY <4>2
          <5>2. PICK u \in Workers : Past(u) /\ (u = v \/ At(u, "expire"))
                                     /\ ttl + Window + call[u].age >= Ttl
            BY <5>1, <3>3 DEF ClockInv, Past, At
          <5> QED
            BY <5>1, <5>2, <2>2
        <4> QED
          BY <3>2, <4>1, <4>2 DEF ClockInv
      <3>4. ASSUME NEW v \in Workers, Past(v)', ttl' # 0
            PROVE  \E u \in Workers : Past(u)' /\ (u = v \/ At(u, "expire")')
                                      /\ ttl' + Window + call'[u].age >= Ttl
        <4>1. CASE v = w
          <5>1. PICK u \in Workers : Past(u)' /\ (u = w \/ At(u, "expire"))
                                     /\ ttl + Window + call[u].age >= Ttl
            BY <3>3, <3>4, <2>6
          <5> QED
            BY <5>1, <4>1, <2>2, <2>6
        <4>2. CASE v # w
          <5>1. PICK u \in Workers : Past(u) /\ (u = v \/ At(u, "expire"))
                                     /\ ttl + Window + call[u].age >= Ttl
            BY <4>2, <3>4, <2>2, <2>6 DEF ClockInv
          <5> QED
            BY <5>1, <2>2, <2>6
        <4> QED
          BY <4>1, <4>2
      <3>5. ASSUME NEW y \in 0 .. OldAge - 1, zset'[y] > 0
            PROVE  (\E v \in Workers : At(v, "expire")' /\ call'[v].age = y)
                   \/ ttl' + y >= Ttl
        <4>1. zset[y] > 0
          BY <1>0, <2>3, <3>5 DEF Ages
        <4> QED
          BY <4>1, <2>2, <2>6 DEF ClockInv
      <3> QED
        BY <3>4, <3>5 DEF ClockInv
    <2> QED
      BY <2>4, <2>5, <2>6
  <1>3. ASSUME NEW w \in Workers, Card(w) PROVE ClockInv'
    <2>1. /\ \A v \in Workers \ {w} : call'[v] = call[v]
          /\ call'[w].pc \in {"add", "oldest"} /\ call'[w].age = call[w].age /\ call[w].pc = "card"
      BY <1>3, StepOfOne DEF Attempt, Card, At
    <2>2. UNCHANGED <<zset, ttl>>
      BY <1>3 DEF Card
    <2>3. \A v \in Workers : /\ At(v, "expire")' <=> At(v, "expire")
                             /\ call'[v].age = call[v].age
      BY <2>1 DEF At
    <2>4. ASSUME NEW v \in Workers, Past(v)', ttl' # 0
          PROVE  \E u \in Workers : Past(u)' /\ (u = v \/ At(u, "expire")')
                                      /\ ttl' + Window + call'[u].age >= Ttl
      <3>1. PICK u \in Workers : Past(u) /\ (u = v \/ At(u, "expire"))
                                     /\ ttl + Window + call[u].age >= Ttl
        BY <2>4, <2>1, <2>2 DEF ClockInv, Past
      <3>2. Past(u)'
        BY <2>1, <2>4, <3>1 DEF Past, At
      <3> QED
        BY <3>1, <3>2, <2>2, <2>3
    <2>5. ASSUME NEW y \in 0 .. OldAge - 1, zset'[y] > 0
          PROVE  (\E v \in Workers : At(v, "expire")' /\ call'[v].age = y)
                 \/ ttl' + y >= Ttl
      BY <2>2, <2>3, <2>5 DEF ClockInv
    <2> QED
      BY <2>4, <2>5 DEF ClockInv
  <1>4. ASSUME NEW w \in Workers, Add(w) PROVE ClockInv'
    <2>1. /\ \A v \in Workers \ {w} : call'[v] = call[v]
          /\ call'[w].pc = "expire" /\ call'[w].age = call[w].age /\ call[w].pc = "add"
      BY <1>4, StepOfOne DEF Attempt, Add, At
    <2>2. ttl' = ttl /\ \A x \in Ages : x # call[w].age => zset'[x] = zset[x]
      BY <1>4 DEF Add, Stamped, CallsInv, LimiterTypeOK
    <2>3. \A v \in Workers : At(v, "expire")
          => At(v, "expire")' /\ call'[v].age = call[v].age
      BY <2>1 DEF At
    <2>4. \A v \in Workers : (Past(v) <=> Past(v)') /\ call'[v].age = call[v].age
      BY <2>1 DEF Past
    <2>5. ASSUME NEW y \in 0 .. OldAge - 1, zset'[y] > 0
          PROVE  (\E v \in Workers : At(v, "expire")' /\ call'[v].age = y)
                 \/ ttl' + y >= Ttl
      <3>1. CASE y = call[w].age
        BY <2>1, <3>1 DEF At
      <3>2. CASE y # call[w].age
        <4>1. zset[y] > 0
          BY <1>0, <2>2, <2>5, <3>2 DEF Ages
        <4> QED
          BY <4>1, <2>2, <2>3 DEF ClockInv
      <3> QED
        BY <3>1, <3>2
    <2>6. ASSUME NEW v \in Workers, Past(v)', ttl' # 0
          PROVE  \E u \in Workers : Past(u)' /\ (u = v \/ At(u, "expire")')
                                      /\ ttl' + Window + call'[u].age >= Ttl
      <3>1. PICK u \in Workers : Past(u) /\ (u = v \/ At(u, "expire"))
                                     /\ ttl + Window + call[u].age >= Ttl
        BY <2>6, <2>2, <2>4 DEF ClockInv
      <3> QED
        BY <3>1, <2>2, <2>3, <2>4
    <2> QED
      BY <2>5, <2>6 DEF ClockInv
  <1>5. ASSUME NEW w \in Workers, Expire(w) PROVE ClockInv'
    <2>1. zset' = zset
      BY <1>5 DEF Expire
    <2>2. CASE ttl' = Ttl
      <3>1. ASSUME NEW v \in Workers, Past(v)' PROVE ttl' + Window + call'[v].age >= Ttl
        <4>1. call'[v].age \in Nat
          BY CallsInvStep DEF CallsInv, LimiterTypeOK, CallState, LimiterAssumption
        <4> QED
          BY <1>0, <2>2, <4>1
      <3>2. \A y \in 0 .. OldAge - 1 : ttl' + y >= Ttl
        BY <1>0, <2>2
      <3> QED
        BY <3>1, <3>2 DEF ClockInv
    <2>3. CASE ttl' # Ttl
      <3>1. Members(zset) = 0 /\ ttl' = 0
        BY <1>5, <2>3 DEF Expire
      <3>2. \A x \in Ages : zset[x] = 0
        <4>1. zset \in [Ages -> Nat]
              /\ Members(zset) = SumFunctionOnSet(zset, Ages)
          BY DEF CallsInv, LimiterTypeOK, Members, SumFunction
        <4> QED
          BY <3>1, <4>1, SumNat, AgesFinite
      <3> QED
        BY <1>0, <2>1, <3>1, <3>2 DEF ClockInv, Ages
    <2> QED
      BY <2>2, <2>3
  <1>6. ASSUME NEW w \in Workers, Crash(w) PROVE ClockInv'
    <2>1. UNCHANGED <<zset, ttl>> /\ ~At(w, "expire")
      BY <1>6 DEF Crash
    <2>2. /\ \A v \in Workers \ {w} : call'[v] = call[v]
          /\ call'[w].pc = "idle"
      BY <1>6, StepOfOne
    <2> QED
      BY <2>1, <2>2 DEF ClockInv, Past, At
  <1>7. CASE Tick
    <2>1. \A w \in Workers : (At(w, "expire")' <=> At(w, "expire"))
          /\ (Past(w)' <=> Past(w))
      BY <1>7, StepOfTime DEF At, Past
    <2>2. \A w \in Workers : Past(w) => call'[w].age = call[w].age + 1
      BY <1>7, StepOfTime
    <2>0. /\ zset' = IF ttl = 1 THEN NoMembers ELSE Aged(zset)
          /\ ttl' = IF ttl = 0 THEN 0 ELSE ttl - 1
      BY <1>7 DEF Tick
    <2>3. CASE ttl = 1
      <3>1. zset' = NoMembers /\ ttl' = 0
        BY <2>0, <2>3
      <3> QED
        BY <1>0, <3>1 DEF ClockInv, NoMembers, Ages
    <2>4. CASE ttl # 1
      <3>1. zset' = Aged(zset) /\ ttl' = IF ttl = 0 THEN 0 ELSE ttl - 1
        BY <2>0, <2>4
      <3>2. ASSUME NEW y \in 0 .. OldAge - 1, zset'[y] > 0
            PROVE  (\E v \in Workers : At(v, "expire")' /\ call'[v].age = y)
                   \/ ttl' + y >= Ttl
        <4>1. y - 1 \in 0 .. OldAge - 1 /\ zset[y - 1] > 0
          <5>1. zset'[y] = IF y = 0 THEN 0 ELSE zset[y - 1] + 0
            BY <1>0, <3>1 DEF Aged, Ages
          <5>2. y # 0
            BY <3>2, <5>1
          <5>3. y - 1 \in 0 .. OldAge
            BY <1>0, <5>2
          <5>4. zset[y - 1] \in Nat
            BY <1>0, <5>3
          <5> QED
            BY <1>0, <3>2, <5>1, <5>2, <5>3, <5>4
        <4>2. CASE \E v \in Workers : At(v, "expire") /\ call[v].age = y - 1
          <5>1. PICK v \in Workers : At(v, "expire") /\ call[v].age = y - 1
            BY <4>2
          <5>2. call'[v].age = y
            BY <1>0, <5>1, <2>2 DEF Past, At
          <5> QED
            BY <5>1, <5>2, <2>1
        <4>3. CASE ttl + (y - 1) >= Ttl
          BY <1>0, <3>1, <4>3
        <4> QED
          BY <4>1, <4>2, <4>3 DEF ClockInv
      <3>3. ASSUME NEW v \in Workers, Past(v)', ttl' # 0
            PROVE  \E u \in Workers : Past(u)' /\ (u = v \/ At(u, "expire")')
                                        /\ ttl' + Window + call'[u].age >= Ttl
        <4>1. PICK u \in Workers : Past(u) /\ (u = v \/ At(u, "expire"))
                                       /\ ttl + Window + call[u].age >= Ttl
          BY <3>1, <3>3, <2>1 DEF ClockInv
        <4>2. ttl' + Window + call'[u].age >= Ttl
          BY <1>0, <3>1, <3>3, <4>1, <2>2
        <4> QED
          BY <4>1, <4>2, <2>1
      <3> QED
        BY <3>2, <3>3 DEF ClockInv
    <2> QED
      BY <2>3, <2>4
  <1>8. CASE UNCHANGED limiterVars
    BY <1>8 DEF limiterVars, ClockInv, Past, At
  <1> QED
    BY <1>1, <1>2, <1>3, <1>4, <1>5, <1>6, <1>7, <1>8 DEF LimiterNext, Attempt
-----------------------------------------------------------------------------
(* The sorted set still has every stamp of the windows that end with the    *)
(* stamps of age a; who is about to add a stamp to them, and who may come to. *)
Win(a) == {b \in Ages : a <= b /\ b < a + Window}
Full(a) == \A b \in Ages : b < a + Window => zset[b] = granted[b]
Adders(a) == {w \in Workers : At(w, "add") /\ call[w].age >= a}
MayAdd(a) == {w \in Workers : Ahead(w) /\ call[w].age >= a}

(* The inductive invariant of OvershootIsBounded. While the sorted set is   *)
(* whole every ZCARD counts the window, and at most the workers that have   *)
(* passed it add to it. Once a call trims, with a clock that is behind, what *)
(* an earlier window still has, only the calls whose reading of the clock is *)
(* as old as the window can stamp it, and each does so once.                *)
AdmitInv ==
    /\ \A b \in 0 .. OldAge - 1 : zset[b] <= granted[b]
    /\ Full(0)
    /\ \A a \in 0 .. Latency : Full(a) =>
        InWindow(a) + Cardinality(Adders(a)) <= MaxRequests + Cardinality(Workers) - 1
    /\ \A a \in 0 .. Latency : ~Full(a) =>
        InWindow(a) + Cardinality(MayAdd(a)) <= MaxRequests + Overshoot

(* What the invariant counts are numbers, and the sets it counts in are     *)
(* finite.                                                                  *)
LEMMA CountsAreNumbers ==
  ASSUME LimiterAssumption, CallsInv, IsFiniteSet(Workers)
  PROVE  /\ MaxRequests \in Nat \ {0} /\ Window \in Nat \ {0} /\ Latency \in Nat
         /\ OldAge = Window + Latency /\ OldAge \in Nat \ {0}
         /\ zset \in [Ages -> Nat] /\ granted \in [Ages -> Nat]
         /\ \A w \in Workers : call[w].age \in 0 .. Latency
         /\ Cardinality(Workers) \in Nat
         /\ \A S \in SUBSET Workers : /\ IsFiniteSet(S) /\ Cardinality(S) \in Nat
                                      /\ Cardinality(S) <= Cardinality(Workers)
         /\ \A a \in 0 .. Latency : /\ IsFiniteSet(Win(a))
                                    /\ Win(a) \subseteq 0 .. OldAge - 1
                                   /\ Win(a) \subseteq Ages
                                   /\ InWindow(a) \in Nat
                                   /\ InWindow(a) = SumFunctionOnSet(granted, Win(a))
         /\ Overshoot = 2 * (Cardinality(Workers) - 1)
  <1>1. /\ MaxRequests \in Nat \ {0} /\ Window \in Nat \ {0} /\ Latency \in Nat
        /\ OldAge = Window + Latency /\ OldAge \in Nat \ {0}
        /\ zset \in [Ages -> Nat] /\ granted \in [Ages -> Nat]
        /\ \A w \in Workers : call[w].age \in 0 .. Latency
    BY DEF LimiterAssumption, CallsInv, LimiterTypeOK, CallState, OldAge
  <1>2. /\ Cardinality(Workers) \in Nat
        /\ \A S \in SUBSET Workers : /\ IsFiniteSet(S) /\ Cardinality(S) \in Nat
                                     /\ Cardinality(S) <= Cardinality(Workers)
    BY FS_Subset, FS_CardinalityType
  <1>3. ASSUME NEW a \in 0 .. Latency
        PROVE  /\ IsFiniteSet(Win(a)) /\ Win(a) \subseteq 0 .. OldAge - 1
               /\ Win(a) \subseteq Ages
               /\ InWindow(a) \in Nat
               /\ InWindow(a) = SumFunctionOnSet(granted, Win(a))
    <2>1. Win(a) \subseteq Ages /\ Win(a) \subseteq 0 .. OldAge - 1
      BY <1>1 DEF Win, Ages
    <2>2. IsFiniteSet(Win(a))
      BY <2>1, AgesFinite, FS_Subset
    <2>3. InWindow(a) = SumFunctionOnSet(granted, Win(a))
      BY DEF InWindow, Win
    <2>4. \A b \in Win(a) : granted[b] \in Nat
      BY <1>1, <2>1
    <2>5. SumFunctionOnSet(granted, Win(a)) \in Nat
      BY <2>2, <2>4, SumNat
    <2> QED
      BY <2>1, <2>2, <2>3, <2>5
  <1> QED
    <2>1. Overshoot = 2 * (Cardinality(Workers) - 1)
      BY DEF Overshoot
    <2> QED
      BY <1>1, <1>2, <1>3, <2>1

(* What adds no stamp, removes no member and brings nobody nearer to a stamp. *)
LEMMA NothingAdmitted ==
  ASSUME LimiterAssumption, CallsInv, IsFiniteSet(Workers), AdmitInv,
         UNCHANGED <<zset, granted>>,
         \A a \in 0 .. Latency : Adders(a)' \subseteq Adders(a),
         \A a \in 1 .. Latency : MayAdd(a)' \subseteq MayAdd(a)
  PROVE  AdmitInv'
  <1>1. ASSUME NEW a \in 0 .. Latency
        PROVE  /\ Full(a)' <=> Full(a)
               /\ InWindow(a)' = InWindow(a) /\ InWindow(a) \in Nat
               /\ Cardinality(Adders(a)') \in Nat /\ Cardinality(Adders(a)) \in Nat
               /\ Cardinality(Adders(a)') <= Cardinality(Adders(a))
               /\ Cardinality(MayAdd(a)') \in Nat /\ Cardinality(MayAdd(a)) \in Nat
               /\ a # 0 => Cardinality(MayAdd(a)') <= Cardinality(MayAdd(a))
    <2>1. (Full(a)' <=> Full(a)) /\ InWindow(a)' = InWindow(a)
          /\ InWindow(a) \in Nat
      BY CountsAreNumbers DEF Full, InWindow
    <2>2. /\ Adders(a) \in SUBSET Workers /\ Adders(a)' \in SUBSET Workers
          /\ MayAdd(a) \in SUBSET Workers /\ MayAdd(a)' \in SUBSET Workers
      BY DEF Adders, MayAdd
    <2>3. /\ IsFiniteSet(Adders(a)) /\ IsFiniteSet(MayAdd(a))
          /\ Cardinality(Adders(a)') \in Nat /\ Cardinality(Adders(a)) \in Nat
          /\ Cardinality(MayAdd(a)') \in Nat /\ Cardinality(MayAdd(a)) \in Nat
      BY <2>2, CountsAreNumbers
    <2>4. Adders(a)' \subseteq Adders(a)
      OBVIOUS
    <2>5. Cardinality(Adders(a)') <= Cardinality(Adders(a))
      BY <2>3, <2>4, FS_Subset
    <2>6. a # 0 => MayAdd(a)' \subseteq MayAdd(a)
      BY CountsAreNumbers
    <2>7. a # 0 => Cardinality(MayAdd(a)') <= Cardinality(MayAdd(a))
      BY <2>3, <2>6, FS_Subset
    <2> QED
      BY <2>1, <2>3, <2>5, <2>7
  <1>2. Cardinality(Workers) \in Nat /\ MaxRequests \in Nat /\ Overshoot \in Int
        /\ Latency \in Nat
    BY CountsAreNumbers
  <1>3. Full(0)' /\ Full(0)
    BY DEF AdmitInv, Full
  <1>4. ASSUME NEW a \in 0 .. Latency, Full(a)'
        PROVE  (InWindow(a) + Cardinality(Adders(a))
                  <= MaxRequests + Cardinality(Workers) - 1)'
    <2>1. InWindow(a) + Cardinality(Adders(a)) <= MaxRequests + Cardinality(Workers) - 1
      BY <1>1, <1>4 DEF AdmitInv
    <2> QED
      BY <2>1, <1>1, <1>2
  <1>5. ASSUME NEW a \in 0 .. Latency, ~Full(a)'
        PROVE  (InWindow(a) + Cardinality(MayAdd(a)) <= MaxRequests + Overshoot)'
    <2>1. InWindow(a) + Cardinality(MayAdd(a)) <= MaxRequests + Overshoot
      BY <1>1, <1>5 DEF AdmitInv
    <2>2. a # 0
      BY <1>3, <1>5
    <2>3. Overshoot' = Overshoot
      BY DEF Overshoot
    <2> QED
      BY <2>1, <2>2, <2>3, <1>1, <1>2
  <1>6. (\A b \in 0 .. OldAge - 1 : zset[b] <= granted[b])'
    BY DEF AdmitInv
  <1> QED
    BY <1>3, <1>4, <1>5, <1>6 DEF AdmitInv

(* ZCARD counts at least the stamps of a window that the sorted set still has. *)
LEMMA CountedInFull ==
  ASSUME LimiterAssumption, CallsInv, IsFiniteSet(Workers), NEW a \in 0 .. Latency, Full(a)
  PROVE  InWindow(a) <= Members(zset) /\ Members(zset) \in Nat
  <1>1. \A b \in Win(a) : granted[b] = zset[b]
    BY DEF Win, Full
  <1>2. InWindow(a) = SumFunctionOnSet(zset, Win(a))
    BY <1>1, SumEqual, CountsAreNumbers
  <1>3. Members(zset) = SumFunctionOnSet(zset, Ages)
        /\ \A b \in Ages : zset[b] \in Nat
    BY CountsAreNumbers DEF Members, SumFunction
  <1>4. Win(a) \in SUBSET Ages /\ IsFiniteSet(Ages)
    BY CountsAreNumbers, AgesFinite
  <1>5. Members(zset) \in Nat
    BY <1>3, <1>4, SumNat
  <1>6. SumFunctionOnSet(zset, Win(a)) <= SumFunctionOnSet(zset, Ages)
    BY <1>3, <1>4, SumOfPart
  <1> QED
    BY <1>2, <1>3, <1>5, <1>6

(* The trim takes nothing from the windows that are as old as its clock, and *)
(* the call that trims has no stamp for the later ones.                     *)
LEMMA TrimAdmitsFew ==
  ASSUME LimiterAssumption, CallsInv, IsFiniteSet(Workers), AdmitInv, NEW w \in Workers,
         Trim(w)
  PROVE  AdmitInv'
  <1> DEFINE e == call[w].age
  <1>0. /\ e \in 0 .. Latency /\ call[w].pc = "trim"
        /\ \A v \in Workers \ {w} : call'[v] = call[v]
        /\ call'[w].pc = "card" /\ call'[w].age = e
    BY StepOfOne, CountsAreNumbers DEF Attempt, Trim, At
  <1>1. granted' = granted /\ \A b \in Ages :
          zset'[b] = IF b >= Window + e THEN 0 ELSE zset[b]
    BY DEF Trim
  <1>2. \A a \in 0 .. Latency : Adders(a)' = Adders(a) /\ MayAdd(a)' = MayAdd(a)
    BY <1>0 DEF Adders, MayAdd, At, Ahead
  <1>3. /\ \A b \in 0 .. OldAge : zset[b] \in Nat /\ granted[b] \in Nat
        /\ OldAge = Window + Latency /\ Window \in Nat \ {0} /\ Latency \in Nat
    BY CountsAreNumbers DEF Ages
  <1> HIDE DEF e
  <1>4. (\A b \in 0 .. OldAge - 1 : zset[b] <= granted[b])'
    BY <1>1, <1>3 DEF AdmitInv, Ages
  <1>5. Full(0)'
    BY <1>0, <1>1, <1>3 DEF AdmitInv, Full, Ages
  <1>6. ASSUME NEW a \in 0 .. Latency, Full(a)' PROVE Full(a)
    <2>1. ASSUME NEW b \in Ages, b < a + Window PROVE zset[b] = granted[b]
      <3>1. zset'[b] = granted[b]
        BY <1>1, <1>6, <2>1 DEF Full
      <3>2. b \in 0 .. OldAge - 1
        BY <1>3, <2>1 DEF Ages
      <3>3. zset[b] <= granted[b]
        BY <3>2 DEF AdmitInv
      <3> QED
        BY <1>1, <1>3, <3>1, <3>2, <3>3
    <2> QED
      BY <2>1 DEF Full
  <1>7. ASSUME NEW a \in 0 .. Latency, Full(a), ~Full(a)' PROVE w \notin MayAdd(a)
    <2>1. PICK b \in Ages : b < a + Window /\ zset'[b] # granted[b]
      BY <1>1, <1>7 DEF Full
    <2>2. zset[b] = granted[b]
      BY <1>7, <2>1 DEF Full
    <2>3. b >= Window + e
      BY <1>1, <2>1, <2>2
    <2>4. e < a
      BY <1>0, <1>3, <2>1, <2>3 DEF Ages
    <2> QED
      BY <1>0, <2>4 DEF MayAdd, e
  <1>8. /\ \A a \in 0 .. Latency : InWindow(a)' = InWindow(a)
           /\ InWindow(a) \in Nat
        /\ Overshoot' = Overshoot
            /\ Overshoot = 2 * (Cardinality(Workers) - 1)
        /\ Cardinality(Workers) \in Nat /\ MaxRequests \in Nat
    BY <1>1, CountsAreNumbers DEF InWindow, Overshoot
  <1>9. ASSUME NEW a \in 0 .. Latency, Full(a)'
        PROVE  (InWindow(a) + Cardinality(Adders(a))
                  <= MaxRequests + Cardinality(Workers) - 1)'
    <2>1. InWindow(a) + Cardinality(Adders(a)) <= MaxRequests + Cardinality(Workers) - 1
      BY <1>6, <1>9 DEF AdmitInv
    <2> QED
      BY <2>1, <1>2, <1>8
  <1>10. ASSUME NEW a \in 0 .. Latency, ~Full(a)'
         PROVE  (InWindow(a) + Cardinality(MayAdd(a)) <= MaxRequests + Overshoot)'
    <2>1. CASE ~Full(a)
      <3>1. InWindow(a) + Cardinality(MayAdd(a)) <= MaxRequests + Overshoot
        BY <2>1 DEF AdmitInv
      <3> QED
        BY <3>1, <1>2, <1>8
    <2>2. CASE Full(a)
      <3>1. InWindow(a) + Cardinality(Adders(a)) <= MaxRequests + Cardinality(Workers) - 1
        BY <2>2 DEF AdmitInv
      <3>2. MayAdd(a) \subseteq Workers \ {w} /\ Adders(a) \in SUBSET Workers
        BY <2>2, <1>7, <1>10 DEF MayAdd, Adders
      <3>3. Cardinality(MayAdd(a)) <= Cardinality(Workers) - 1
        <4>1. Cardinality(Workers \ {w}) = Cardinality(Workers) - 1
          BY FS_RemoveElement
        <4>2. IsFiniteSet(Workers \ {w})
          BY CountsAreNumbers
        <4>3. Cardinality(MayAdd(a)) <= Cardinality(Workers \ {w})
          BY <3>2, <4>2, FS_Subset
        <4> QED
          BY <4>1, <4>3
      <3>4. Cardinality(Adders(a)) \in Nat /\ Cardinality(MayAdd(a)) \in Nat
        BY <3>2, CountsAreNumbers
      <3> QED
        BY <3>1, <3>3, <3>4, <1>2, <1>8
    <2> QED
      BY <2>1, <2>2
  <1> QED
    BY <1>4, <1>5, <1>9, <1>10 DEF AdmitInv

(* One that counts less than the budget lets one more worker near.          *)
LEMMA CardAdmitsOne ==
  ASSUME LimiterAssumption, CallsInv, IsFiniteSet(Workers), AdmitInv, NEW w \in Workers,
         Card(w)
  PROVE  AdmitInv'
  <1>0. /\ call[w].pc = "card" /\ \A v \in Workers \ {w} : call'[v] = call[v]
        /\ call'[w].pc = IF Members(zset) < MaxRequests THEN "add" ELSE "oldest"
        /\ call'[w].age = call[w].age
    BY StepOfOne DEF Attempt, Card, At
  <1>1. UNCHANGED <<zset, granted>>
    BY DEF Card
  <1>2. \A a \in 0 .. Latency : MayAdd(a)' \subseteq MayAdd(a)
    BY <1>0 DEF MayAdd, Ahead
  <1>3. CASE ~(Members(zset) < MaxRequests)
    <2>1. \A a \in 0 .. Latency : Adders(a)' \subseteq Adders(a)
      BY <1>0, <1>3 DEF Adders, At
    <2>2. \A a \in 1 .. Latency : MayAdd(a)' \subseteq MayAdd(a)
      BY <1>2, CountsAreNumbers
    <2> QED
      BY <1>1, <2>1, <2>2, NothingAdmitted
  <1>4. CASE Members(zset) < MaxRequests
    <2>1. \A a \in 0 .. Latency : (Full(a)' <=> Full(a))
          /\ InWindow(a)' = InWindow(a)
      BY <1>1 DEF Full, InWindow
    <2>2. \A a \in 0 .. Latency : /\ Adders(a)' \in SUBSET Workers
                                  /\ MayAdd(a)' \in SUBSET Workers /\ MayAdd(a) \in SUBSET Workers
      BY DEF Adders, MayAdd
    <2>3. ASSUME NEW a \in 0 .. Latency, Full(a)'
          PROVE  (InWindow(a) + Cardinality(Adders(a))
                    <= MaxRequests + Cardinality(Workers) - 1)'
      <3>1. Full(a)
        BY <2>1, <2>3
      <3>2. InWindow(a) <= Members(zset) /\ Members(zset) \in Nat
        BY <3>1, CountedInFull
      <3>3. /\ InWindow(a) \in Nat /\ MaxRequests \in Nat /\ Cardinality(Workers) \in Nat
            /\ Cardinality(Adders(a)') \in Nat /\ Cardinality(Adders(a)') <= Cardinality(Workers)
        BY <2>2, CountsAreNumbers
      <3> QED
        BY <3>2, <3>3, <1>4, <2>1
    <2>4. ASSUME NEW a \in 0 .. Latency, ~Full(a)'
          PROVE  (InWindow(a) + Cardinality(MayAdd(a)) <= MaxRequests + Overshoot)'
      <3>1. InWindow(a) + Cardinality(MayAdd(a)) <= MaxRequests + Overshoot
        BY <2>1, <2>4 DEF AdmitInv
      <3>2. /\ IsFiniteSet(MayAdd(a)) /\ MayAdd(a)' \subseteq MayAdd(a)
            /\ Cardinality(MayAdd(a)) \in Nat /\ Cardinality(MayAdd(a)') \in Nat
            /\ InWindow(a) \in Nat /\ MaxRequests \in Nat /\ Overshoot \in Int
            /\ Overshoot' = Overshoot
        BY <1>2, <2>2, CountsAreNumbers DEF Overshoot
      <3>3. Cardinality(MayAdd(a)') <= Cardinality(MayAdd(a))
        BY <3>2, FS_Subset
      <3> QED
        BY <3>1, <3>2, <3>3, <2>1
    <2>5. (\A b \in 0 .. OldAge - 1 : zset[b] <= granted[b])' /\ Full(0)'
      BY <1>1 DEF AdmitInv, Full
    <2> QED
      BY <2>3, <2>4, <2>5 DEF AdmitInv
  <1> QED
    BY <1>3, <1>4

(* The stamp that was about to be added is.                                 *)
LEMMA AddIsOneStamp ==
  ASSUME LimiterAssumption, CallsInv, IsFiniteSet(Workers), AdmitInv, NEW w \in Workers,
         Add(w)
  PROVE  AdmitInv'
  <1> DEFINE e == call[w].age
  <1>0. /\ e \in 0 .. Latency /\ e \in Ages /\ call[w].pc = "add"
        /\ \A v \in Workers \ {w} : call'[v] = call[v]
        /\ call'[w].pc = "expire" /\ call'[w].age = e
    <2>1. e \in 0 .. Latency /\ e \in Ages
      BY CountsAreNumbers DEF Ages
    <2>2. /\ call[w].pc = "add" /\ \A v \in Workers \ {w} : call'[v] = call[v]
          /\ call'[w].pc = "expire" /\ call'[w].age = e
      BY StepOfOne DEF Attempt, Add, At
    <2> QED
      BY <2>1, <2>2
  <1>1. /\ \A b \in Ages : zset[b] \in Nat /\ granted[b] \in Nat
        /\ OldAge = Window + Latency /\ Window \in Nat \ {0} /\ Latency \in Nat
    BY CountsAreNumbers
  <1>2. /\ \A b \in Ages : zset'[b] = zset[b] + IF b = e THEN 1 ELSE 0
        /\ \A b \in Ages : granted'[b] = granted[b] + IF b = e THEN 1 ELSE 0
    <2>1. zset' = [zset EXCEPT ![e] = @ + 1] /\ granted' = [granted EXCEPT ![e] = @ + 1]
      BY DEF Add, Stamped
    <2>2. zset \in [Ages -> Nat] /\ granted \in [Ages -> Nat]
      BY CountsAreNumbers
    <2> HIDE DEF e
    <2> QED
      BY <1>0, <2>1, <2>2
  <1> HIDE DEF e
  <1>3. \A a \in 0 .. Latency : Full(a)' <=> Full(a)
    BY <1>1, <1>2 DEF Full
  <1>4. (\A b \in 0 .. OldAge - 1 : zset[b] <= granted[b])'
    BY <1>1, <1>2 DEF AdmitInv, Ages
  <1>5. \A a \in 0 .. Latency : Adders(a)' = Adders(a) \ {w} /\ MayAdd(a)' = MayAdd(a) \ {w}
    BY <1>0 DEF Adders, MayAdd, At, Ahead
  <1>6. ASSUME NEW a \in 0 .. Latency
        PROVE  /\ InWindow(a)' + Cardinality(Adders(a)') <=
                  InWindow(a) + Cardinality(Adders(a))
               /\ InWindow(a)' + Cardinality(MayAdd(a)') <=
                   InWindow(a) + Cardinality(MayAdd(a))
    <2>1. /\ InWindow(a) \in Nat /\ InWindow(a) = SumFunctionOnSet(granted, Win(a))
          /\ IsFiniteSet(Win(a)) /\ Win(a) \subseteq Ages
      BY CountsAreNumbers
    <2>2. InWindow(a)' = SumFunctionOnSet(granted', Win(a))
      BY DEF InWindow, Win
    <2>3. /\ IsFiniteSet(Adders(a)) /\ IsFiniteSet(MayAdd(a))
          /\ Cardinality(Adders(a)) \in Nat /\ Cardinality(MayAdd(a)) \in Nat
      <3>1. Adders(a) \in SUBSET Workers /\ MayAdd(a) \in SUBSET Workers
        BY DEF Adders, MayAdd
      <3> QED
        BY <3>1, CountsAreNumbers
    <2>4. /\ Cardinality(Adders(a)') = IF w \in Adders(a) THEN Cardinality(Adders(a)) - 1
                                      ELSE Cardinality(Adders(a))
          /\ Cardinality(MayAdd(a)') = IF w \in MayAdd(a) THEN Cardinality(MayAdd(a)) - 1
                                       ELSE Cardinality(MayAdd(a))
      BY <1>5, <2>3, FS_RemoveElement
    <2>5. CASE e \in Win(a)
      <3>1. w \in Adders(a) /\ w \in MayAdd(a)
        BY <1>0, <2>5 DEF Win, Adders, MayAdd, At, Ahead, e
      <3>2. \A b \in Win(a) : granted[b] \in Int /\ granted'[b] \in Int
        BY <1>1, <1>2, <2>1
      <3>3. \A b \in Win(a) \ {e} : granted'[b] = granted[b]
        BY <1>1, <1>2, <2>1
      <3>4. InWindow(a)' = InWindow(a) + granted'[e] - granted[e]
        BY <2>1, <2>2, <2>5, <3>2, <3>3, SumChangedAt
      <3>5. granted'[e] = granted[e] + 1 /\ granted[e] \in Nat
        BY <1>0, <1>1, <1>2
      <3> QED
        BY <2>1, <2>3, <2>4, <3>1, <3>4, <3>5
    <2>6. CASE e \notin Win(a)
      <3>1. \A b \in Win(a) : granted[b] = granted'[b]
        BY <1>1, <1>2, <2>1, <2>6
      <3>2. InWindow(a)' = InWindow(a)
        BY <2>1, <2>2, <3>1, SumEqual
      <3> QED
        BY <2>1, <2>3, <2>4, <3>2
    <2> QED
      BY <2>5, <2>6
  <1>7. ASSUME NEW a \in 0 .. Latency
        PROVE  /\ InWindow(a)' \in Int /\ InWindow(a) \in Int
               /\ Cardinality(Adders(a)') \in Int /\ Cardinality(Adders(a)) \in Int
               /\ Cardinality(MayAdd(a)') \in Int /\ Cardinality(MayAdd(a)) \in Int
               /\ MaxRequests \in Int /\ Overshoot \in Int /\ Cardinality(Workers) \in Int
               /\ Overshoot' = Overshoot
    <2>1. /\ Adders(a) \in SUBSET Workers /\ MayAdd(a) \in SUBSET Workers
          /\ Adders(a)' \in SUBSET Workers /\ MayAdd(a)' \in SUBSET Workers
      BY DEF Adders, MayAdd
    <2>2. InWindow(a)' \in Nat
      <3>1. InWindow(a)' = SumFunctionOnSet(granted', Win(a))
        BY DEF InWindow, Win
      <3>2. IsFiniteSet(Win(a)) /\ \A b \in Win(a) : granted'[b] \in Nat
        BY <1>1, <1>2, CountsAreNumbers
      <3> QED
        BY <3>1, <3>2, SumNat
    <2> QED
      BY <2>1, <2>2, CountsAreNumbers DEF Overshoot
  <1>8. ASSUME NEW a \in 0 .. Latency, Full(a)'
        PROVE  (InWindow(a) + Cardinality(Adders(a))
                  <= MaxRequests + Cardinality(Workers) - 1)'
    <2>1. InWindow(a) + Cardinality(Adders(a)) <= MaxRequests + Cardinality(Workers) - 1
      BY <1>3, <1>8 DEF AdmitInv
    <2> QED
      BY <2>1, <1>6, <1>7
  <1>9. ASSUME NEW a \in 0 .. Latency, ~Full(a)'
        PROVE  (InWindow(a) + Cardinality(MayAdd(a)) <= MaxRequests + Overshoot)'
    <2>1. InWindow(a) + Cardinality(MayAdd(a)) <= MaxRequests + Overshoot
      BY <1>3, <1>9 DEF AdmitInv
    <2> QED
      BY <2>1, <1>6, <1>7
  <1>10. Full(0)'
    BY <1>1, <1>3 DEF AdmitInv
  <1> QED
    BY <1>4, <1>8, <1>9, <1>10 DEF AdmitInv

(* A window gets older with its stamps and with the calls that may add to it. *)
LEMMA TimeAdmitsNobody ==
  ASSUME LimiterAssumption, Window + Latency < Ttl, CallsInv, ClockInv,
         IsFiniteSet(Workers), AdmitInv, Tick
  PROVE  AdmitInv'
  <1>1. /\ \A b \in Ages : zset[b] \in Nat /\ granted[b] \in Nat
        /\ OldAge = Window + Latency /\ Window \in Nat \ {0} /\ Latency \in Nat
        /\ \A w \in Workers : call[w].age \in 0 .. Latency
    BY CountsAreNumbers
  <1>2. /\ \A b \in 1 .. OldAge - 1 : zset'[b] = zset[b - 1] /\ granted'[b] = granted[b - 1]
        /\ zset'[0] = 0 /\ granted'[0] = 0
    <2>1. /\ zset' = IF ttl = 1 THEN NoMembers ELSE Aged(zset)
          /\ granted' = [Aged(granted) EXCEPT ![OldAge] = 0]
      BY DEF Tick
    <2>2. ASSUME NEW b \in 1 .. OldAge - 1
          PROVE  /\ Aged(zset)[b] = zset[b - 1] /\ Aged(granted)[b] = granted[b - 1]
                 /\ b \in Ages /\ b - 1 \in 0 .. OldAge - 1
      BY <1>1 DEF Aged, Ages
    <2>3. 0 \in Ages /\ 0 # OldAge /\ Aged(zset)[0] = 0
          /\ Aged(granted)[0] = 0
      BY <1>1 DEF Aged, Ages
    <2>4. DOMAIN Aged(granted) = Ages
      BY DEF Aged
    <2>5. \A b \in 1 .. OldAge - 1 : granted'[b] = granted[b - 1]
      BY <1>1, <2>1, <2>2, <2>4
    <2>6. granted'[0] = 0
      BY <2>1, <2>3, <2>4
    <2>7. CASE ttl = 1
      <3>1. \A b \in 1 .. OldAge - 1 : zset'[b] = 0 /\ zset[b - 1] = 0
        BY <2>1, <2>2, <2>7, NobodyIsLate DEF NoMembers
      <3>2. zset'[0] = 0
        BY <2>1, <2>3, <2>7 DEF NoMembers
      <3> QED
        BY <2>5, <2>6, <3>1, <3>2
    <2>8. CASE ttl # 1
      BY <2>1, <2>2, <2>3, <2>5, <2>6, <2>8
    <2> QED
      BY <2>7, <2>8
  <1>3. (\A b \in 0 .. OldAge - 1 : zset[b] <= granted[b])'
    <2>1. ASSUME NEW b \in 0 .. OldAge - 1 PROVE zset'[b] <= granted'[b]
      <3>1. CASE b = 0
        BY <1>2, <3>1
      <3>2. CASE b # 0
        <4>1. b \in 1 .. OldAge - 1 /\ b - 1 \in 0 .. OldAge - 1
          BY <1>1, <3>2
        <4> QED
          BY <1>2, <4>1 DEF AdmitInv
      <3> QED
        BY <3>1, <3>2
    <2> QED
      BY <2>1
  <1>4. Full(0)'
    <2>1. ASSUME NEW b \in Ages, b < 0 + Window PROVE zset'[b] = granted'[b]
      <3>1. CASE b = 0
        BY <1>2, <3>1
      <3>2. CASE b # 0
        <4>1. b \in 1 .. OldAge - 1 /\ b - 1 \in Ages /\ b - 1 < 0 + Window
          BY <1>1, <2>1, <3>2 DEF Ages
        <4> QED
          BY <1>2, <4>1 DEF AdmitInv, Full
      <3> QED
        BY <3>1, <3>2
    <2> QED
      BY <2>1 DEF Full
  <1>5. ASSUME NEW a \in 1 .. Latency
        PROVE  /\ a - 1 \in 0 .. Latency /\ (Full(a)' <=> Full(a - 1))
               /\ Adders(a)' = Adders(a - 1) /\ MayAdd(a)' = MayAdd(a - 1)
               /\ InWindow(a)' = InWindow(a - 1)
    <2>1. a - 1 \in 0 .. Latency /\ a \in 0 .. Latency
      BY <1>1
    <2>2. Full(a - 1) => Full(a)'
      <3>1. ASSUME Full(a - 1), NEW b \in Ages, b < a + Window PROVE zset'[b] = granted'[b]
        <4>1. CASE b = 0
          BY <1>2, <4>1
        <4>2. CASE b # 0
          <5>1. b \in 1 .. OldAge - 1 /\ b - 1 \in Ages /\ b - 1 < (a - 1) + Window
            BY <1>1, <3>1, <4>2 DEF Ages
          <5> QED
            BY <1>2, <3>1, <5>1 DEF Full
        <4> QED
          BY <4>1, <4>2
      <3> QED
        BY <3>1 DEF Full
    <2>3. Full(a)' => Full(a - 1)
      <3>1. ASSUME Full(a)', NEW b \in Ages, b < (a - 1) + Window PROVE zset[b] = granted[b]
        <4>1. b + 1 \in 1 .. OldAge - 1 /\ b + 1 \in Ages /\ b + 1 < a + Window
              /\ (b + 1) - 1 = b
          BY <1>1, <3>1 DEF Ages
        <4>2. zset'[b + 1] = granted'[b + 1]
          BY <3>1, <4>1 DEF Full
        <4>3. zset'[b + 1] = zset[(b + 1) - 1] /\ granted'[b + 1] = granted[(b + 1) - 1]
          BY <1>2, <4>1
        <4> QED
          BY <4>1, <4>2, <4>3
      <3> QED
        BY <3>1 DEF Full
    <2>4. \A w \in Workers : /\ (At(w, "add")' <=> At(w, "add"))
                             /\ (Ahead(w)' <=> Ahead(w))
                             /\ At(w, "add") => Ahead(w)
                             /\ Ahead(w) => (call'[w].age >= a <=> call[w].age >= a - 1)
      <3>1. ASSUME NEW w \in Workers
            PROVE  /\ (At(w, "add")' <=> At(w, "add")) /\ (Ahead(w)' <=> Ahead(w))
                   /\ At(w, "add") => Ahead(w)
                   /\ Ahead(w) => call'[w].age = call[w].age + 1
        <4>1. call'[w].pc = call[w].pc /\ (Ahead(w) => call'[w].age = call[w].age + 1)
          BY StepOfTime
        <4> QED
          BY <4>1 DEF At, Ahead
      <3> QED
        BY <1>1, <3>1
    <2>5. Adders(a)' = Adders(a - 1) /\ MayAdd(a)' = MayAdd(a - 1)
      BY <2>4 DEF Adders, MayAdd
    <2>6. InWindow(a)' = InWindow(a - 1)
      <3>1. InWindow(a)' = SumFunctionOnSet(granted', Win(a))
        BY DEF InWindow, Win
      <3>2. /\ InWindow(a - 1) = SumFunctionOnSet(granted, Win(a - 1))
            /\ IsFiniteSet(Win(a - 1)) /\ Win(a - 1) \subseteq Ages
        BY <2>1, CountsAreNumbers
      <3>3. Win(a) = {x + 1 : x \in Win(a - 1)}
        <4>1. ASSUME NEW b \in Win(a) PROVE \E x \in Win(a - 1) : b = x + 1
          <5>1. b - 1 \in Win(a - 1) /\ b = (b - 1) + 1
            BY <1>1 DEF Win, Ages
          <5> QED
            BY <5>1
        <4>2. ASSUME NEW x \in Win(a - 1) PROVE x + 1 \in Win(a)
          BY <1>1 DEF Win, Ages
        <4> QED
          BY <4>1, <4>2
      <3>4. ASSUME NEW x \in Win(a - 1)
            PROVE  x \in Int /\ granted[x] \in Int /\ granted'[x + 1] = granted[x]
        <4>1. x + 1 \in 1 .. OldAge - 1 /\ (x + 1) - 1 = x /\ x \in Ages
          BY <1>1 DEF Win, Ages
        <4>2. granted'[x + 1] = granted[(x + 1) - 1]
          BY <1>2, <4>1
        <4> QED
          BY <1>1, <4>1, <4>2 DEF Ages
      <3>5. SumFunctionOnSet(granted', {x + 1 : x \in Win(a - 1)}) =
            SumFunctionOnSet(granted, Win(a - 1))
        BY <3>2, <3>4, SumShifted
      <3> QED
        BY <3>1, <3>2, <3>3, <3>5
    <2> QED
      BY <2>1, <2>2, <2>3, <2>5, <2>6
  <1>6. Adders(0)' = Adders(0) /\ InWindow(0)' <= InWindow(0)
        /\ InWindow(0)' \in Nat /\ InWindow(0) \in Nat
    <2>1. Adders(0)' = Adders(0)
      <3>1. ASSUME NEW w \in Workers
            PROVE  At(w, "add")' /\ call'[w].age >= 0
                   <=> At(w, "add") /\ call[w].age >= 0
        <4>1. call'[w].pc = call[w].pc /\ (At(w, "add") => call'[w].age = call[w].age + 1)
          BY StepOfTime DEF At, Ahead
        <4> QED
          BY <1>1, <4>1 DEF At
      <3> QED
        BY <3>1 DEF Adders
    <2> DEFINE V == 0 .. Window - 2
               U == {x + 1 : x \in V}
    <2>2. /\ 0 \in 0 .. Latency /\ InWindow(0) = SumFunctionOnSet(granted, Win(0))
          /\ IsFiniteSet(Win(0)) /\ InWindow(0) \in Nat
              /\ \A b \in Win(0) : granted[b] \in Nat
      BY <1>1, CountsAreNumbers
    <2>3. InWindow(0)' = SumFunctionOnSet(granted', Win(0))
      BY DEF InWindow, Win
    <2>4. V \in SUBSET Win(0) /\ IsFiniteSet(V) /\ Win(0) \ {0} = U /\ 0 \in Win(0)
      <3>1. Win(0) = 0 .. Window - 1
        BY <1>1 DEF Win, Ages
      <3>2. ASSUME NEW b \in 1 .. Window - 1 PROVE b \in U
        <4>1. b - 1 \in V /\ b = (b - 1) + 1
          BY <1>1
        <4> QED
          BY <4>1
      <3>3. U = 1 .. Window - 1
        BY <1>1, <3>2
      <3>4. V \in SUBSET Win(0) /\ IsFiniteSet(V)
        BY <1>1, <3>1, <2>2, FS_Subset
      <3> HIDE DEF U, V
      <3> QED
        BY <1>1, <3>1, <3>3, <3>4
    <2>5. ASSUME NEW x \in V PROVE x \in Int /\ granted[x] \in Nat /\ granted'[x + 1] = granted[x]
      <3>1. x + 1 \in 1 .. OldAge - 1 /\ (x + 1) - 1 = x /\ x \in Ages
        BY <1>1 DEF Ages
      <3>2. granted'[x + 1] = granted[(x + 1) - 1]
        BY <1>2, <3>1
      <3> QED
        BY <1>1, <3>1, <3>2 DEF Ages
    <2>6. \A b \in Win(0) : granted'[b] \in Nat
      <3>1. \A b \in U : granted'[b] \in Nat
        BY <2>5
      <3> HIDE DEF U, V
      <3> QED
        BY <1>2, <2>4, <3>1
    <2>7. SumFunctionOnSet(granted', U) = SumFunctionOnSet(granted, V)
      <3>1. \A x \in V : x \in Int /\ granted[x] \in Int /\ granted'[x + 1] = granted[x]
        BY <2>5
      <3> HIDE DEF V
      <3> QED
        BY <2>4, <3>1, SumShifted
    <2> HIDE DEF U, V
    <2>8. SumFunctionOnSet(granted', Win(0)) = granted'[0] + SumFunctionOnSet(granted', U)
      BY <2>2, <2>4, <2>6, SumTakeOut
    <2>9. /\ SumFunctionOnSet(granted, V) <= SumFunctionOnSet(granted, Win(0))
          /\ SumFunctionOnSet(granted, V) \in Nat
      BY <2>2, <2>4, SumOfPart, SumNat
    <2> QED
      BY <2>1, <2>2, <2>3, <2>7, <2>8, <2>9, <1>2
  <1>7. /\ Overshoot' = Overshoot /\ Overshoot \in Int
           /\ MaxRequests \in Int /\ Cardinality(Workers) \in Int
        /\ \A a \in 0 .. Latency : Cardinality(Adders(a)) \in Int
    <2>1. \A a \in 0 .. Latency : Adders(a) \in SUBSET Workers
      BY DEF Adders
    <2> QED
      BY <2>1, CountsAreNumbers DEF Overshoot
  <1>8. ASSUME NEW a \in 0 .. Latency, Full(a)'
        PROVE  (InWindow(a) + Cardinality(Adders(a))
                  <= MaxRequests + Cardinality(Workers) - 1)'
    <2>1. CASE a = 0
      <3>1. InWindow(0) + Cardinality(Adders(0)) <= MaxRequests + Cardinality(Workers) - 1
        BY <2>1 DEF AdmitInv
      <3> QED
        BY <2>1, <3>1, <1>6, <1>7
    <2>2. CASE a # 0
      <3>1. a \in 1 .. Latency
        BY <1>1, <2>2
      <3>2. InWindow(a - 1) + Cardinality(Adders(a - 1)) <=
            MaxRequests + Cardinality(Workers) - 1
        BY <3>1, <1>5, <1>8 DEF AdmitInv
      <3> QED
        BY <3>1, <3>2, <1>5
    <2> QED
      BY <2>1, <2>2
  <1>9. ASSUME NEW a \in 0 .. Latency, ~Full(a)'
        PROVE  (InWindow(a) + Cardinality(MayAdd(a)) <= MaxRequests + Overshoot)'
    <2>1. a \in 1 .. Latency
      BY <1>1, <1>4, <1>9
    <2>2. InWindow(a - 1) + Cardinality(MayAdd(a - 1)) <= MaxRequests + Overshoot
      BY <2>1, <1>5, <1>9 DEF AdmitInv
    <2> QED
      BY <2>1, <2>2, <1>5, <1>7
  <1> QED
    BY <1>3, <1>4, <1>8, <1>9 DEF AdmitInv

-----------------------------------------------------------------------------
LimiterInv == CallsInv /\ (whole => ClockInv /\ AdmitInv)

(* At the start the sorted set is empty.                                    *)
LEMMA LimiterInvInit ==
  ASSUME LimiterAssumption, IsFiniteSet(Workers), Workers # {}, InitLimiter
  PROVE  LimiterInv
  <1>1. CallsInv
    BY CallsInvInit
  <1>2. zset = NoMembers /\ granted = NoMembers
        /\ call = [w \in Workers |-> NoCall] /\ ttl = 0
    BY DEF InitLimiter
  <1>3. ClockInv
    BY <1>2, AgesFinite DEF ClockInv, NoMembers, Ages, Past, NoCall
  <1>4. AdmitInv
    <2>1. \A a \in 0 .. Latency : Full(a) /\ Adders(a) = {}
      BY <1>2 DEF Full, Adders, At, NoCall
    <2>2. ASSUME NEW a \in 0 .. Latency PROVE InWindow(a) = 0
      <3>1. InWindow(a) = SumFunctionOnSet(granted, Win(a)) /\ IsFiniteSet(Win(a))
            /\ Win(a) \subseteq Ages
        BY <1>1, CountsAreNumbers
      <3>2. \A b \in Win(a) : granted[b] = 0
        BY <1>2, <3>1 DEF NoMembers
      <3> QED
        BY <3>1, <3>2, SumZero
    <2>3. Cardinality({}) = 0 /\ Cardinality(Workers) \in Nat /\ Cardinality(Workers) # 0
      BY FS_EmptySet, FS_CardinalityType
    <2>4. MaxRequests \in Nat \ {0} /\ 0 \in 0 .. Latency /\ OldAge \in Nat
      BY <1>1, CountsAreNumbers
    <2>5. ASSUME NEW a \in 0 .. Latency
          PROVE  InWindow(a) + Cardinality(Adders(a))
                    <= MaxRequests + Cardinality(Workers) - 1
      <3>1. InWindow(a) = 0 /\ Cardinality(Adders(a)) = 0
        BY <2>1, <2>2, <2>3
      <3> QED
        BY <3>1, <2>3, <2>4
    <2>6. \A b \in 0 .. OldAge - 1 : zset[b] <= granted[b]
      BY <1>2, <2>4 DEF NoMembers, Ages
    <2> QED
      BY <2>1, <2>4, <2>5, <2>6 DEF AdmitInv
  <1> QED
    BY <1>1, <1>3, <1>4 DEF LimiterInv

(* Every step keeps all of it.                                              *)
LEMMA LimiterInvStep ==
  ASSUME LimiterAssumption, Window + Latency < Ttl, IsFiniteSet(Workers),
         LimiterInv, [LimiterNext]_limiterVars
  PROVE  LimiterInv'
  <1>1. CallsInv /\ CallsInv'
    BY CallsInvStep DEF LimiterInv
  <1>2. SUFFICES ASSUME whole' PROVE ClockInv' /\ AdmitInv'
    BY <1>1 DEF LimiterInv
  <1>3. whole
    BY <1>2 DEF LimiterNext, Attempt, Acquire, Trim, Card,
                Add, Expire, Oldest, Wake, Crash,
                Tick, limiterVars
  <1>4. ClockInv /\ AdmitInv
    BY <1>3 DEF LimiterInv
  <1>5. ClockInv'
    BY <1>1, <1>2, <1>4, ClockInvStep
  <1>6. ASSUME NEW w \in Workers, Acquire(w) \/ Oldest(w) \/ Wake(w)
               \/ Expire(w) \/ Crash(w)
        PROVE  AdmitInv'
    <2>1. UNCHANGED <<zset, granted>>
      BY <1>6 DEF Acquire, Oldest, Wake, Expire, Crash
    <2>2. /\ \A v \in Workers \ {w} : call'[v] = call[v]
          /\ \/ call'[w].pc = "idle"
             \/ ~Past(w)' /\ call'[w].age = 0
      BY <1>1, <1>6, StepOfOne DEF Attempt
    <2>3. \A a \in 0 .. Latency : Adders(a)' \subseteq Adders(a)
      BY <2>2 DEF Adders, At, Past
    <2>4. \A a \in 1 .. Latency : MayAdd(a)' \subseteq MayAdd(a)
      <3>1. ASSUME NEW a \in 1 .. Latency PROVE w \notin MayAdd(a)'
        <4>1. Latency \in Nat
          BY DEF LimiterAssumption
        <4> QED
          BY <2>2, <4>1 DEF MayAdd, Ahead
      <3> QED
        BY <2>2, <3>1 DEF MayAdd, Ahead
    <2> QED
      BY <1>1, <1>4, <2>1, <2>3, <2>4, NothingAdmitted
  <1>7. ASSUME NEW w \in Workers, Trim(w) \/ Card(w) \/ Add(w)
        PROVE  AdmitInv'
    BY <1>1, <1>4, <1>7, TrimAdmitsFew, CardAdmitsOne, AddIsOneStamp
  <1>8. CASE Tick
    BY <1>1, <1>4, <1>5, <1>8, TimeAdmitsNobody
  <1>9. CASE UNCHANGED limiterVars
    <2>1. UNCHANGED <<zset, granted, call>>
      BY <1>9 DEF limiterVars
    <2>2. \A a \in 0 .. Latency : Adders(a)' \subseteq Adders(a) /\ MayAdd(a)' \subseteq MayAdd(a)
      BY <2>1 DEF Adders, MayAdd, At, Ahead
    <2>3. \A a \in 1 .. Latency : a \in 0 .. Latency
      BY DEF LimiterAssumption
    <2> QED
      BY <1>1, <1>4, <1>5, <2>1, <2>2, <2>3, NothingAdmitted
  <1>10. AdmitInv'
    BY <1>6, <1>7, <1>8, <1>9 DEF LimiterNext, Attempt
  <1> QED
    BY <1>5, <1>10

(* It gives the bound that is checked.                                      *)
LEMMA LimiterInvImplies ==
  ASSUME LimiterAssumption, IsFiniteSet(Workers), Workers # {}, LimiterInv
  PROVE  OvershootIsBounded
  <1> SUFFICES ASSUME whole, NEW a \in 0 .. Latency
               PROVE  InWindow(a) <= MaxRequests + Overshoot
    BY DEF OvershootIsBounded
  <1>1. AdmitInv /\ CallsInv
    BY DEF LimiterInv
  <1>2. /\ Adders(a) \in SUBSET Workers /\ MayAdd(a) \in SUBSET Workers
    BY DEF Adders, MayAdd
  <1>3. /\ InWindow(a) \in Nat /\ Cardinality(Adders(a)) \in Nat
           /\ Cardinality(MayAdd(a)) \in Nat
        /\ Overshoot = 2 * (Cardinality(Workers) - 1) /\ Cardinality(Workers) \in Nat
        /\ MaxRequests \in Nat
    BY <1>1, <1>2, CountsAreNumbers
  <1>4. Workers # {} => Cardinality(Workers) # 0
    BY FS_EmptySet
  <1>5. CASE Full(a)
    <2>1. InWindow(a) + Cardinality(Adders(a)) <= MaxRequests + Cardinality(Workers) - 1
      BY <1>1, <1>5 DEF AdmitInv
    <2> QED
      BY <2>1, <1>3, <1>4
  <1>6. CASE ~Full(a)
    <2>1. InWindow(a) + Cardinality(MayAdd(a)) <= MaxRequests + Overshoot
      BY <1>1, <1>6 DEF AdmitInv
    <2> QED
      BY <2>1, <1>3
  <1> QED
    BY <1>5, <1>6

(* What _acquire_bucket lets through in any window is what the limit allows *)
(* and at most two requests for every worker but one: who reads ZCARD       *)
(* before another's ZADD, and who reads the clock before and adds after. It *)
(* holds for any number of workers, limit, window and time to live, if no   *)
(* attempt takes as long as the key outlives the window.                    *)
THEOREM WindowsHold ==
  ASSUME LimiterAssumption, Window + Latency < Ttl, IsFiniteSet(Workers), Workers # {}
  PROVE  LimiterSpec => []OvershootIsBounded
  <1>1. InitLimiter => LimiterInv
    BY LimiterInvInit
  <1>2. LimiterInv /\ [LimiterNext]_limiterVars => LimiterInv'
    BY LimiterInvStep
  <1>3. LimiterInv => OvershootIsBounded
    BY LimiterInvImplies
  <1> QED
    BY <1>1, <1>2, <1>3, PTL DEF LimiterSpec

(* Under the same assumptions the key only expires when nothing in it       *)
(* counts any more, unless a caller died between ZADD and EXPIRE.           *)
THEOREM BucketsExpireIdle ==
  ASSUME LimiterAssumption, Window + Latency < Ttl, IsFiniteSet(Workers), Workers # {}
  PROVE  LimiterSpec => OnlyIdleBucketsExpire
  <1>1. InitLimiter => LimiterInv
    BY LimiterInvInit
  <1>2. LimiterInv /\ [LimiterNext]_limiterVars => LimiterInv'
    BY LimiterInvStep
  <1>3. LimiterInv /\ [LimiterNext]_limiterVars =>
            [Tick /\ ttl = 1 /\ whole =>
                \A a \in Ages : zset[a] > 0 => a + 1 >= Window]_limiterVars
    <2> SUFFICES ASSUME LimiterInv, Tick, ttl = 1, whole, NEW a \in Ages,
                        zset[a] > 0
                 PROVE  a + 1 >= Window
      OBVIOUS
    <2>1. \A x \in 0 .. OldAge - 1 : zset[x] = 0
      BY NobodyIsLate DEF LimiterInv
    <2>2. a \notin 0 .. OldAge - 1
      BY <2>1
    <2> QED
      BY <2>2 DEF LimiterAssumption, OldAge, Ages
  <1> QED
    BY <1>1, <1>2, <1>3, PTL DEF LimiterSpec, OnlyIdleBucketsExpire

=============================================================================
