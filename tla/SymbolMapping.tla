--------------------------- MODULE SymbolMapping ---------------------------
(***************************************************************************)
(* Which instrument a broker's symbol means: services/symbol_mapping.py    *)
(* and services/instruments.py, inside the transactions that call them.    *)
(*                                                                         *)
(* A transaction looks symbols up one after another: an order's without an *)
(* exchange, a position's with the broker's code for one. What it infers   *)
(* it inserts, for others to see when it commits. Postgres makes a second  *)
(* insertion of one key wait for the first transaction to end, unless the  *)
(* exchange is NULL, which no unique constraint compares.                  *)
(***************************************************************************)
EXTENDS Integers, Sequences, FiniteSets

CONSTANTS
    Null,
    Listings,    \* what an instrument can be: [symbol, exchange]
    Txs,         \* transactions that look symbols up
    Handlers,    \* POST /api/instruments/resolve
    MaxRows      \* bound: rows of symbol_mappings

ASSUME MappingAssumption == IsFiniteSet(Listings)

VARIABLES
    instruments, \* instruments: the committed rows
    mappings,    \* symbol_mappings: the committed rows, [id, key, inst]
    tx,          \* the transactions: [pc, broker, wants, at, own, got]
    resolving    \* the handlers: the instrument one has created, or Null

mapVars == <<instruments, mappings, tx, resolving>>

Closed == [pc |-> "closed", broker |-> Null, wants |-> <<>>, at |-> 1,
           own |-> {}, got |-> <<>>]

(* _broker_exchange_to_canonical; normalize_exchange knows ARCX besides.   *)
Canonical(code) ==
    CASE code = "XNSE" -> "NSE" [] code = "XBOM" -> "BSE"
      [] code = "XNAS" -> "NASDAQ" [] code = "XNYS" -> "NYSE"
      [] OTHER -> code

KeyOf(t) == [broker |-> tx[t].broker, symbol |-> tx[t].wants[tx[t].at].symbol,
             exchange |-> tx[t].wants[tx[t].at].exchange]

(* The rows of the key that the transaction sees.                          *)
RowsOf(t) == {r \in mappings \union tx[t].own : r.key = KeyOf(t)}

Candidates(t) ==
    {i \in instruments :
        /\ i.symbol = KeyOf(t).symbol
        /\ KeyOf(t).exchange # Null => i.exchange = Canonical(KeyOf(t).exchange)}

InitMappings ==
    /\ instruments \in SUBSET Listings
    /\ mappings = {}
    /\ tx = [t \in Txs |-> Closed]
    /\ resolving = [h \in Handlers |-> Null]

-----------------------------------------------------------------------------
(* normalize_symbol.                                                       *)

Active(t) == tx[t].pc \in {"select", "infer", "insert"}
Looking(t, pc) == tx[t].pc = pc /\ tx[t].at <= Len(tx[t].wants)
NoMap == UNCHANGED <<instruments, mappings, resolving>>

Begin(t, broker, wants) ==
    /\ ~Active(t)
    /\ tx' = [tx EXCEPT ![t] = [Closed EXCEPT !.pc = "select", !.broker = broker,
                                             !.wants = wants]]
    /\ NoMap

(* The answer to one lookup: an instrument, or Null for a symbol that is   *)
(* not mapped, which the sync skips.                                       *)
Got(t, inst) == [tx[t] EXCEPT !.pc = "select", !.at = @ + 1, !.got = Append(@, inst)]

(* The SELECT of the mapping. Two rows raise MultipleResultsFound, which   *)
(* no caller expects.                                                      *)
SelectMapping(t) ==
    /\ Looking(t, "select")
    /\ tx' = [tx EXCEPT ![t] =
                CASE RowsOf(t) = {} -> [@ EXCEPT !.pc = "infer"]
                  [] Cardinality(RowsOf(t)) = 1 -> Got(t, (CHOOSE r \in RowsOf(t) : TRUE).inst)
                  [] OTHER -> [Closed EXCEPT !.pc = "failed"]]
    /\ NoMap

(* Mutant of Infer: whichever candidate comes first.                       *)
InferFirst(t) ==
    /\ Looking(t, "infer")
    /\ IF Candidates(t) = {} THEN tx' = [tx EXCEPT ![t] = Got(t, Null)]
       ELSE \E i \in Candidates(t) :
                tx' = [tx EXCEPT ![t].pc = "insert", ![t].got = Append(@, i)]
    /\ NoMap

(* The SELECT of the candidate: the same for a symbol of two exchanges.    *)
Infer(t) ==
    /\ Looking(t, "infer")
    /\ tx' = [tx EXCEPT ![t] =
                CASE Candidates(t) = {} -> Got(t, Null)
                  [] Cardinality(Candidates(t)) = 1 ->
                        [tx[t] EXCEPT !.pc = "insert",
                            !.got = Append(tx[t].got, CHOOSE i \in Candidates(t) : TRUE)]
                  [] OTHER -> [Closed EXCEPT !.pc = "failed"]]
    /\ NoMap

Compared(k) == k.exchange # Null
RowCount == Cardinality(mappings) + Cardinality(UNION {tx[t].own : t \in Txs})
NewRow(t) == [id |-> <<t, RowCount>>, key |-> KeyOf(t), inst |-> tx[t].got[tx[t].at]]

(* _create_mapping: ON CONFLICT DO NOTHING.                                *)
Insert(t) ==
    /\ Looking(t, "insert") /\ RowCount < MaxRows
    /\ LET k == KeyOf(t)
       IN  /\ Compared(k) => \A o \in Txs \ {t} : \A r \in tx[o].own : r.key # k
           /\ tx' = [tx EXCEPT ![t].pc = "select", ![t].at = @ + 1,
                        ![t].own = IF Compared(k) /\ RowsOf(t) # {} THEN @
                                   ELSE @ \union {NewRow(t)}]
    /\ NoMap

(* The caller commits what it has looked up.                               *)
CommitMappings(t) ==
    /\ tx[t].pc = "select" /\ tx[t].at > Len(tx[t].wants)
    /\ mappings' = mappings \union tx[t].own
    /\ tx' = [tx EXCEPT ![t] = [Closed EXCEPT !.pc = "done"]]
    /\ UNCHANGED <<instruments, resolving>>

(* The caller fails, is a victim of deadlock detection, or dies.           *)
AbortMappings(t) ==
    /\ Active(t)
    /\ tx' = [tx EXCEPT ![t] = [Closed EXCEPT !.pc = "failed"]]
    /\ NoMap

-----------------------------------------------------------------------------
(* Instruments.                                                            *)

(* A seed script or a migration adds one.                                  *)
Seed(i) ==
    /\ i \notin instruments
    /\ instruments' = instruments \union {i}
    /\ UNCHANGED <<mappings, tx, resolving>>

(* resolve inserts an instrument that is not there, with ON CONFLICT DO    *)
(* NOTHING, and flushes; a second insertion waits for the first. One that  *)
(* is there is returned, which changes nothing.                            *)
Resolve(h, i) ==
    /\ resolving[h] = Null /\ i \notin instruments
    /\ \A o \in Handlers : resolving[o] # i
    /\ resolving' = [resolving EXCEPT ![h] = i]
    /\ UNCHANGED <<instruments, mappings, tx>>

(* The handler answers, and get_session closes the session: nobody has     *)
(* called commit, and what was flushed is rolled back.                     *)
EndResolve(h) ==
    /\ resolving[h] # Null
    /\ resolving' = [resolving EXCEPT ![h] = Null]
    /\ UNCHANGED <<instruments, mappings, tx>>

-----------------------------------------------------------------------------
(* All rows of one key, committed or not, name one instrument.             *)
OneInstrumentPerKey ==
    LET all == mappings \union UNION {tx[t].own : t \in Txs}
    IN  \A r, s \in all : r.key = s.key => r.inst = s.inst

(* "Concurrent-safe upserts" (symbol_mapping.py:17). But two rows of a key *)
(* without an exchange are both inserted, and from then on every lookup of *)
(* that key fails.                                                         *)
OneRowPerKey == \A r, s \in mappings : r.key = s.key => r = s

(* "committing on success" (db.py:35). But nothing commits what resolve    *)
(* has created, and its id is gone with the answer.                        *)
AnsweredInstrumentsExist ==
    [][\A h \in Handlers : resolving[h] # Null /\ resolving'[h] = Null
            => resolving[h] \in instruments']_mapVars
=============================================================================
