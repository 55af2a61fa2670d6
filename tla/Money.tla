------------------------------- MODULE Money -------------------------------
(***************************************************************************)
(* What a portfolio is worth: the refresh of USD/INR (services/fx.py,      *)
(* data/fred.py, tasks/always.py), and the requests that add up positions  *)
(* in a base currency: the summary (services/portfolio_summary.py) and the *)
(* intelligence (intelligence/portfolio.py) with its benchmarks            *)
(* (services/benchmark.py).                                                *)
(*                                                                         *)
(* A request reads the positions once and then one rate for each of them,  *)
(* so a refresh may come in between. Amounts are in 1/Scale of the base    *)
(* currency, returns in hundredths.                                        *)
(***************************************************************************)
EXTENDS Scores, FiniteSets

CONSTANTS
    Lots,        \* positions; Book[l] = [currency, exchange, cost]
    Book,
    Books,       \* quantities a portfolio may have; a short one is negative
    Bases,       \* default_base_currency
    Scale,
    MaxDay,      \* bound: the last day
    RateOn,      \* what FRED and ECB publish: [source -> [day -> INR for USD]]
    Refreshers, Readers,
    Returns,     \* what an index may have returned
    Period       \* period_days

Days == 0 .. MaxDay

ASSUME MoneyAssumption ==
    /\ MaxDay \in Nat /\ Period \in Nat /\ Scale \in Nat \ {0}
    /\ IsFiniteSet(Lots) /\ Books \subseteq [Lots -> Int] /\ Returns \subseteq Int
    /\ \A l \in Lots : Book[l].cost \in Nat
    /\ \A s \in DOMAIN RateOn : \A d \in Days : RateOn[s][d] \in Nat \ {0}

VARIABLES
    today,
    rates,       \* fx_rates: the row of each day, Null when there is none
    fx,          \* what each refresh_fx has in hand
    bench,       \* Redis: the return of each benchmark, [ret, end]
    ask          \* the requests

moneyVars == <<today, rates, fx, bench, ask>>

Rested == [pc |-> "idle", day |-> 0, rate |-> 0]
Unasked == [pc |-> "idle", kind |-> "summary", base |-> Null, rows |-> Null,
            todo |-> {}, used |-> Null, marks |-> <<>>, seen |-> {}]

-----------------------------------------------------------------------------
(* FxService.                                                              *)

(* Mutant of RateAsOf: the oldest row.                                     *)
RateAsOfOldest(d) ==
    LET known == {k \in Days : k <= d /\ rates[k] # Null}
    IN  IF known = {} THEN Null ELSE rates[Min(known)]

(* _lookup: the newest row that is not after d.                            *)
RateAsOf(d) ==
    LET known == {k \in Days : k <= d /\ rates[k] # Null}
    IN  IF known = {} THEN Null ELSE rates[Max(known)]

One == [num |-> 1, den |-> 1]

(* get_rate: the direct pair, or the inverse of the other one. Only USD to *)
(* INR is stored; of any other pair nothing is known.                      *)
GetRate(from, to, d) ==
    LET r == RateAsOf(d)
    IN  CASE from = to -> One
          [] <<from, to>> = <<"USD", "INR">> /\ r # Null -> [num |-> r, den |-> 1]
          [] <<from, to>> = <<"INR", "USD">> /\ r # Null -> [num |-> 1, den |-> r]
          [] OTHER -> Null

(* The newest row, for the history of what was the latest.                 *)
Newest == Max({-1} \union {d \in Days : rates[d] # Null})
Latest == IF Newest = -1 THEN Null ELSE rates[Newest]

InitMoney ==
    /\ today = 0
    /\ rates = [d \in Days |-> Null]
    /\ fx = [w \in Refreshers |-> Rested]
    /\ bench = [k \in {"IN", "US"} |-> Null]
    /\ ask = [q \in Readers |-> Unasked]

-----------------------------------------------------------------------------
(* refresh_fx.                                                             *)

NextDay ==
    /\ today < MaxDay
    /\ \A k \in DOMAIN bench : bench[k] # Null => bench[k].end = today
    /\ today' = today + 1
    /\ UNCHANGED <<rates, fx, bench, ask>>

(* FredEcbClient: FRED's latest observation, or ECB's when FRED fails;     *)
(* either may lag behind. When both fail the task ends.                    *)
FetchRate(w) ==
    /\ fx[w].pc = "idle"
    /\ \E s \in DOMAIN RateOn, d \in 0 .. today :
          fx' = [fx EXCEPT ![w] = [pc |-> "upsert", day |-> d, rate |-> RateOn[s][d]]]
    /\ UNCHANGED <<today, rates, bench, ask>>

(* Mutant of Upserted: one row for the pair.                               *)
UpsertedPair(w) == [d \in Days |-> IF d = fx[w].day THEN fx[w].rate ELSE Null]

(* INSERT ... ON CONFLICT (base, quote, as_of) DO UPDATE.                  *)
Upserted(w) == [rates EXCEPT ![fx[w].day] = fx[w].rate]

(* _upsert, and its commit. The copy that _cache then puts in Redis is     *)
(* read by nobody, and an error there is only logged.                      *)
StoreRate(w) ==
    /\ fx[w].pc = "upsert"
    /\ rates' = Upserted(w)
    /\ fx' = [fx EXCEPT ![w] = Rested]
    /\ ask' = [q \in Readers |-> IF ask[q].pc = "idle" THEN ask[q]
                 ELSE [ask[q] EXCEPT !.seen = @ \union {Latest'}]]
    /\ UNCHANGED <<today, bench>>

(* The worker dies; nobody runs the task again before the next day.        *)
LoseRate(w) ==
    /\ fx[w].pc # "idle"
    /\ fx' = [fx EXCEPT ![w] = Rested]
    /\ UNCHANGED <<today, rates, bench, ask>>

-----------------------------------------------------------------------------
(* The requests.                                                           *)

(* The SELECT, of what the syncs have left by then. The summary keeps rows *)
(* that are flat.                                                          *)
Rows(kind, b) == IF kind = "summary" THEN Lots ELSE {l \in Lots : b[l] # 0}

ReadRows(q, kind, base) ==
    /\ ask[q].pc = "idle"
    /\ \E b \in Books : ask' = [ask EXCEPT ![q] =
            [pc |-> "rates", kind |-> kind, base |-> base, rows |-> b,
             todo |-> Rows(kind, b), used |-> [l \in Lots |-> Null], marks |-> <<>>,
             seen |-> {Latest}]]
    /\ UNCHANGED <<today, rates, fx, bench>>

(* The rate of the next row. Of an unknown pair the summary writes 0, and  *)
(* the intelligence skips the row: neither counts it.                      *)
ReadRate(q) ==
    /\ ask[q].pc = "rates"
    /\ ask[q].todo # {}
    /\ LET l == CHOOSE l \in ask[q].todo : TRUE
       IN ask' = [ask EXCEPT ![q].used[l] = GetRate(Book[l].currency, ask[q].base, MaxDay),
                             ![q].todo = @ \ {l}]
    /\ UNCHANGED <<today, rates, fx, bench>>

Worth(q, l) ==
    IF ask[q].used[l] = Null THEN 0
    ELSE (ask[q].rows[l] * Book[l].cost * ask[q].used[l].num * Scale) \div ask[q].used[l].den
WorthOf(q, S) == SumFunctionOnSet([l \in S |-> Worth(q, l)], S)

(* The summary answers; the intelligence, unless it has no row left, asks  *)
(* for the two benchmarks first.                                           *)
Counted(q) == {l \in Lots : ask[q].used[l] # Null}
RatesRead(q) ==
    /\ ask[q].pc = "rates" /\ ask[q].todo = {}
    /\ ask' = [ask EXCEPT ![q].pc =
            IF ask[q].kind = "summary" \/ Counted(q) = {} THEN "done" ELSE "marks"]
    /\ UNCHANGED <<today, rates, fx, bench>>

Indices == <<"IN", "US">>
Asked(q) == Indices[Len(ask[q].marks) + 1]

(* get_return: from the cache, or fetched and cached for a day; Redis may  *)
(* lose the write. An outage answers 0, stale, and is not cached.          *)
Marked(q, m) ==
    ask' = [ask EXCEPT ![q].marks = Append(@, m),
                       ![q].pc = IF Len(ask[q].marks) = 1 THEN "done" ELSE "marks"]

GetReturn(q) ==
    LET k == Asked(q)
    IN  /\ ask[q].pc = "marks"
        /\ \/ bench[k] # Null /\ Marked(q, bench[k]) /\ UNCHANGED bench
           \/ /\ bench[k] = Null
              /\ \E r \in Returns : LET m == [ret |-> r, end |-> today]
                                    IN  Marked(q, m) /\ bench' \in {bench, [bench EXCEPT ![k] = m]}
           \/ bench[k] = Null /\ Marked(q, [ret |-> 0, end |-> today]) /\ UNCHANGED bench
        /\ UNCHANGED <<today, rates, fx>>

(* The time to live of a day is over, or Redis loses the entry.            *)
ForgetReturn(k) ==
    /\ bench[k] # Null
    /\ bench' = [bench EXCEPT ![k] = Null]
    /\ UNCHANGED <<today, rates, fx, ask>>

EndRequest(q) ==
    /\ ask[q].pc # "idle"
    /\ ask' = [ask EXCEPT ![q] = Unasked]
    /\ UNCHANGED <<today, rates, fx, bench>>

-----------------------------------------------------------------------------
(* What the intelligence says of its rows.                                 *)

(* _market_for_exchange.                                                   *)
MarketOf(l) ==
    CASE Book[l].exchange \in {"NSE", "BSE"} -> "IN"
      [] Book[l].exchange \in {"NASDAQ", "NYSE", "AMEX", "ARCA", "BATS"} -> "US"
      [] OTHER -> "OTHER"
InMarket(q, k) == {l \in Counted(q) : MarketOf(l) = k}

(* _fx_change_pct: of the native currency, over the benchmark's period.    *)
FxChange(q, native, end) ==
    LET start == GetRate(native, ask[q].base, end - Period)
        now == GetRate(native, ask[q].base, end)
    IN  IF start = Null \/ now = Null THEN 0
        ELSE (100 * now.num * start.den) \div (now.den * start.num) - 100

MarketCurrency == [IN |-> "INR", US |-> "USD"]

(* The return of a market's benchmark in the base currency. A market       *)
(* without one counts as 0.                                                *)
MarketReturn(q, k) ==
    IF k \notin {"IN", "US"} THEN 0
    ELSE LET m == ask[q].marks[IF k = "IN" THEN 1 ELSE 2]
         IN  ((100 + m.ret) * (100 + FxChange(q, MarketCurrency[k], m.end))) \div 100 - 100

(* _blended_benchmark_return: by what each market is worth; 0 of a         *)
(* portfolio that is worth nothing.                                        *)
Markets(q) == {MarketOf(l) : l \in Counted(q)}
MarketReturns(q) == [k \in Markets(q) |-> MarketReturn(q, k)]
BlendedReturn(q) ==
    IF WorthOf(q, Counted(q)) <= 0 THEN [num |-> 0, den |-> 1] ELSE
    Blend([k \in Markets(q) |-> WorthOf(q, InMarket(q, k))], MarketReturns(q))

-----------------------------------------------------------------------------
MoneyStep ==
    \/ NextDay \/ \E k \in DOMAIN bench : ForgetReturn(k)
    \/ \E w \in Refreshers : FetchRate(w) \/ StoreRate(w) \/ LoseRate(w)
    \/ \E q \in Readers :
          \/ \E kind \in {"summary", "intelligence"}, base \in Bases : ReadRows(q, kind, base)
          \/ ReadRate(q) \/ RatesRead(q) \/ GetReturn(q) \/ EndRequest(q)

-----------------------------------------------------------------------------
(* The rates a request uses never go back: the newest day that is known    *)
(* stays or advances, whichever source answers, however late, and however  *)
(* many workers run (fx.py:196, refresh_usd_inr).                          *)
RatesOnlyAdvance == [][Newest' >= Newest]_moneyVars

(* No row is short.                                                        *)
LongOnly(q) == \A l \in Lots : ask[q].rows[l] >= 0

(* What rows are worth at one rate r of INR for USD.                       *)
WorthAt(rows, base, r) ==
    SumFunction([l \in Lots |->
        LET v == rows[l] * Book[l].cost * Scale
        IN  CASE Book[l].currency = base -> v
              [] Book[l].currency = "USD" /\ base = "INR" /\ r # Null -> v * r
              [] Book[l].currency = "INR" /\ base = "USD" /\ r # Null -> v \div r
              [] OTHER -> 0])

(* However a refresh falls between the rates of one answer, a portfolio    *)
(* without short positions is worth something between what it is at the    *)
(* rates that were the latest meanwhile; so the summary and the            *)
(* intelligence agree when nothing is refreshed, and a pair nobody knows   *)
(* counts for nothing (portfolio_summary.py:122-126).                      *)
TotalsAgree ==
    \A q \in Readers : (ask[q].pc = "done" /\ LongOnly(q)) =>
        LET total == WorthOf(q, Counted(q))
            at == {WorthAt(ask[q].rows, ask[q].base, r) : r \in ask[q].seen}
        IN  (\E x \in at : x <= total) /\ (\E x \in at : total <= x)
=============================================================================
