------------------------------ MODULE Filings ------------------------------
(***************************************************************************)
(* The fundamentals of a symbol: the request of api/analysis.py, EDGAR for *)
(* symbols listed in the US (data/edgar.py), Yahoo for those listed in     *)
(* India (data/yahoo.py), and the cache of both (data/cache.py).           *)
(*                                                                         *)
(* A report is what EDGAR has of a company: for each concept its           *)
(* observations in the order of the periods they end, [end, value, tenK]:  *)
(* a 10-K repeats the year before, restated or not. A filing is what the   *)
(* fundamental engine reads, see Scores.                                   *)
(***************************************************************************)
EXTENDS Scores, SequencesExt

CONSTANTS
    Seekers,      \* requests
    Symbols,      \* [name -> [exchange, cik]]: cik says whether EDGAR knows it
    Reports,      \* what company facts EDGAR may answer
    Infos,        \* what Yahoo may answer: [revenue, pe, eps]
    Prices        \* the query parameter price, or Null

Observation == [end : Int, value : Int, tenK : BOOLEAN]

ASSUME FilingsAssumption ==
    /\ Reports \subseteq [{"revenue", "earnings", "debt", "equity", "cash", "capex", "eps"}
                           -> Seq(Observation)]
    /\ \A i \in Infos : {i.revenue, i.pe, i.eps} \subseteq MaybeInt
    /\ Prices \subseteq MaybeInt

VARIABLES
    cikKept,      \* Redis: symbols whose CIK is there, for a week
    kept,         \* Redis: the filing of each symbol, for a day, or Null
    seek,         \* the requests: [pc, symbol, price, map, filing, status]
    downloads     \* history: how often the map of all tickers was fetched

filingVars == <<cikKept, kept, seek, downloads>>

MaxDownloads == 3  \* bound of the history variable

Unsought == [pc |-> "idle", symbol |-> Null, price |-> Null, map |-> FALSE,
             filing |-> Null, status |-> 0]

InitFilings ==
    /\ cikKept = {}
    /\ kept = [s \in DOMAIN Symbols |-> Null]
    /\ seek = [q \in Seekers |-> Unsought]
    /\ downloads = 0

UsExchanges == {"NYSE", "NASDAQ", "ARCA", "AMEX", "BATS", "NYSEARCA"}
IndianExchanges == {"NSE", "XNSE", "BSE", "XBOM"}

-----------------------------------------------------------------------------
(* What is made of an answer.                                              *)

TenKs(obs) == {n \in DOMAIN obs : obs[n].tenK}

(* _latest_annual: the last 10-K, or the last of any form.                 *)
LatestAnnual(obs) ==
    IF obs = <<>> THEN Null
    ELSE obs[IF TenKs(obs) = {} THEN Len(obs) ELSE Max(TenKs(obs))].value

(* _prior_annual: the last 10-K but one.                                   *)
Earlier(obs) == TenKs(obs) \ {Max(TenKs(obs))}
PriorAnnual(obs) ==
    IF TenKs(obs) = {} \/ Earlier(obs) = {} THEN Null ELSE obs[Max(Earlier(obs))].value

(* _reduce_company_facts; debt over equity in hundredths.                  *)
Reduced(facts) ==
    LET latest == [k \in DOMAIN facts |-> LatestAnnual(facts[k])]
    IN  [revenue |-> latest.revenue, revenuePrior |-> PriorAnnual(facts.revenue),
         earnings |-> latest.earnings, earningsPrior |-> PriorAnnual(facts.earnings),
         debt |-> IF Null \in {latest.debt, latest.equity} \/ latest.equity = 0 THEN Null
                  ELSE Sign(latest.equity) * ((100 * latest.debt) \div Abs(latest.equity)),
         eps |-> latest.eps, pe |-> Null, price |-> Null,
         fcf |-> IF latest.cash = Null THEN Null
                 ELSE latest.cash - (IF latest.capex = Null THEN 0 ELSE Abs(latest.capex))]

(* The projection of Yahoo's answer, which has no year before.             *)
Projected(info) ==
    [revenue |-> info.revenue, revenuePrior |-> Null, earnings |-> Null,
     earningsPrior |-> Null, debt |-> Null, eps |-> info.eps, pe |-> info.pe,
     price |-> Null, fcf |-> Null]

-----------------------------------------------------------------------------
(* GET /{symbol}/fundamental.                                              *)

SeekPc(q, pc) == seek' = [seek EXCEPT ![q].pc = pc]
Answer200(q, f) ==
    seek' = [seek EXCEPT ![q].pc = "done", ![q].status = 200,
                         ![q].filing = [f EXCEPT !.price = seek[q].price]]
Refuse(q, status) == seek' = [seek EXCEPT ![q].pc = "done", ![q].status = status]

(* The dispatch on the exchange. A client of its own is made for each      *)
(* request, and its map of tickers is empty.                               *)
SeekFiling(q, s, p) ==
    /\ seek[q].pc = "idle"
    /\ seek' = [seek EXCEPT ![q] =
            [Unsought EXCEPT !.symbol = s, !.price = p,
               !.pc = IF Symbols[s].exchange \in UsExchanges \union IndianExchanges
                      THEN "cached" ELSE "done",
               !.status = IF Symbols[s].exchange \in UsExchanges \union IndianExchanges
                          THEN 0 ELSE 400]]
    /\ UNCHANGED <<cikKept, kept, downloads>>

(* get_model: what is in the cache, unless it is corrupt.                  *)
ReadKept(q) ==
    LET s == seek[q].symbol
    IN  /\ seek[q].pc = "cached"
        /\ \/ kept[s] # Null /\ Answer200(q, kept[s])
           \/ SeekPc(q, IF Symbols[s].exchange \in UsExchanges THEN "cik" ELSE "yahoo")
        /\ UNCHANGED <<cikKept, kept, downloads>>

(* _resolve_cik: from Redis, or from the map, which is fetched first.      *)
ReadCik(q) ==
    /\ seek[q].pc = "cik"
    /\ SeekPc(q, IF seek[q].symbol \in cikKept THEN "facts" ELSE "tickers")
    /\ UNCHANGED <<cikKept, kept, downloads>>

LoadTickers(q) ==
    /\ seek[q].pc = "tickers"
    /\ \/ seek' = [seek EXCEPT ![q].pc = "lookup", ![q].map = TRUE]
          /\ downloads' = Min({downloads + 1, MaxDownloads})
       \/ Refuse(q, 502) /\ UNCHANGED downloads
    /\ UNCHANGED <<cikKept, kept>>

LookUpCik(q) ==
    LET s == seek[q].symbol
    IN  /\ seek[q].pc = "lookup"
        /\ \/ Symbols[s].cik /\ cikKept' = cikKept \union {s} /\ SeekPc(q, "facts")
           \/ ~Symbols[s].cik /\ Refuse(q, 404) /\ UNCHANGED cikKept
        /\ UNCHANGED <<kept, downloads>>

(* set_model, and the answer; what Redis keeps is without the price.       *)
Keep(q, f) == kept' = [kept EXCEPT ![seek[q].symbol] = f] /\ Answer200(q, f)

(* The company facts. EDGAR may not have them; 403, 429, an error or no    *)
(* JSON make the same answer.                                              *)
FetchFacts(q) ==
    /\ seek[q].pc = "facts"
    /\ \/ \E facts \in Reports : Keep(q, Reduced(facts))
       \/ \E status \in {404, 502} : Refuse(q, status) /\ UNCHANGED kept
    /\ UNCHANGED <<cikKept, downloads>>

(* The info of Yahoo; an empty one is an unknown symbol.                   *)
FetchInfo(q) ==
    /\ seek[q].pc = "yahoo"
    /\ \/ \E info \in Infos : Keep(q, Projected(info))
       \/ \E status \in {404, 502} : Refuse(q, status) /\ UNCHANGED kept
    /\ UNCHANGED <<cikKept, downloads>>

(* The answer has been read, or Redis raised.                              *)
EndSeek(q) ==
    /\ seek[q].pc # "idle"
    /\ seek' = [seek EXCEPT ![q] = Unsought]
    /\ UNCHANGED <<cikKept, kept, downloads>>

(* Redis expires an entry.                                                 *)
ForgetFiling(s) ==
    /\ \/ s \in cikKept /\ cikKept' = cikKept \ {s} /\ UNCHANGED kept
       \/ kept[s] # Null /\ kept' = [kept EXCEPT ![s] = Null] /\ UNCHANGED cikKept
    /\ UNCHANGED <<seek, downloads>>

FilingStep ==
    \/ \E q \in Seekers :
          \/ \E s \in DOMAIN Symbols, p \in Prices : SeekFiling(q, s, p)
          \/ ReadKept(q) \/ ReadCik(q) \/ LoadTickers(q) \/ LookUpCik(q)
          \/ FetchFacts(q) \/ FetchInfo(q) \/ EndSeek(q)
    \/ \E s \in DOMAIN Symbols : ForgetFiling(s)

-----------------------------------------------------------------------------
(* "Process-wide in-memory map populated lazily" (edgar.py:221): false,    *)
(* the route makes a client for each request (api/analysis.py:133).        *)
TickersLoadedOnce == downloads <= 1

(* "The prior-year 10-K observation" (edgar.py:384): false, when a 10-K    *)
(* restates the latest year, the last but one is of the same year.         *)
PriorIsAnEarlierYear ==
    \A facts \in Reports :
        LET a == facts.revenue
        IN  TenKs(a) # {} /\ Earlier(a) # {} =>
                a[Max(Earlier(a))].end < a[Max(TenKs(a))].end
=============================================================================
