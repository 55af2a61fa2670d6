---------------------------- MODULE HealthPanel ----------------------------
(***************************************************************************)
(* The health score of a portfolio behind its cache (api/health_score.py,  *)
(* analysis/health_score.py), and the risk meter, which has none           *)
(* (api/risk_meter.py, analysis/risk_meter.py).                            *)
(*                                                                         *)
(* Requests overlap, take their time, and meet a Redis that may fail at    *)
(* any call, while syncs change the portfolio.                             *)
(***************************************************************************)
EXTENDS Scores

CONSTANTS
    Portfolios,       \* what there is to read of a portfolio, see Scores
    Links,            \* the connections of the user
    Visitors,         \* requests for the health score
    MaxHour,          \* bound: the last hour
    HealthTTL,        \* _CACHE_TTL_SECONDS
    StaleHours,       \* _STALE_THRESHOLD
    VeryStaleHours    \* _VERY_STALE_THRESHOLD

ASSUME HealthAssumption ==
    /\ {MaxHour, HealthTTL, StaleHours, VeryStaleHours} \subseteq Nat
    /\ HealthTTL > 0 /\ StaleHours < VeryStaleHours
    /\ Portfolios # {} /\ \A p \in Portfolios : IsPanel(p)

VARIABLES
    hour,
    portfolio,    \* the positions and what is known of them
    asOf,         \* positions.as_of of each connection
    stored,       \* Redis: the answer and when it is gone, or Null
    visit         \* the requests: [pc, answer]

healthVars == <<hour, portfolio, asOf, stored, visit>>

Away == [pc |-> "idle", answer |-> Null]

InitHealth ==
    /\ hour = 0
    /\ portfolio = CHOOSE p \in Portfolios : TRUE
    /\ asOf = [c \in Links |-> 0]
    /\ stored = Null
    /\ visit = [v \in Visitors |-> Away]

Oldest == Min({asOf[c] : c \in Links})

(* _classify_staleness: by the oldest position that is held.               *)
Label(age) ==
    IF age > VeryStaleHours THEN "very_stale"
    ELSE IF age > StaleHours THEN "stale" ELSE "fresh"

-----------------------------------------------------------------------------
(* An hour passes; Redis drops what is due.                                *)
PassHour ==
    /\ hour < MaxHour
    /\ hour' = hour + 1
    /\ stored' = IF stored # Null /\ stored.until <= hour' THEN Null ELSE stored
    /\ UNCHANGED <<portfolio, asOf, visit>>

SyncLink(c) ==
    /\ portfolio' \in Portfolios
    /\ asOf' = [asOf EXCEPT ![c] = hour]
    /\ UNCHANGED <<hour, stored, visit>>

(* get_health_score. A hit is answered as it is, label and all; a miss, an *)
(* entry that cannot be parsed, or a Redis that fails, is computed.        *)
Visit(v) ==
    /\ visit[v].pc = "idle"
    /\ visit' = [visit EXCEPT ![v].pc = "compute"]
    /\ UNCHANGED <<hour, portfolio, asOf, stored>>

Hit(v) ==
    /\ visit[v].pc = "compute" /\ stored # Null
    /\ visit' = [visit EXCEPT ![v].pc = "done", ![v].answer = stored.answer]
    /\ UNCHANGED <<hour, portfolio, asOf, stored>>

(* _compute_response: of the positions as they are read.                   *)
Computed == [read |-> hour, label |-> Label(hour - Oldest),
             health |-> Health(portfolio), overall |-> OverallHealth(portfolio), took |-> 0]

Compute(v) ==
    /\ visit[v].pc = "compute"
    /\ visit' = [visit EXCEPT ![v].pc = "set", ![v].answer = Computed]
    /\ UNCHANGED <<hour, portfolio, asOf, stored>>

(* Mutant of Kept: without an expiry.                                      *)
KeptForever(a) == [answer |-> a, until |-> MaxHour + 1]

Kept(a) == [answer |-> a, until |-> hour + HealthTTL]

(* The SET, which may fail, and the answer.                                *)
SetHealth(v) ==
    LET a == [visit[v].answer EXCEPT !.took = hour - visit[v].answer.read]
    IN  /\ visit[v].pc = "set"
        /\ stored' \in {stored, Kept(a)}
        /\ visit' = [visit EXCEPT ![v].pc = "done", ![v].answer = a]
        /\ UNCHANGED <<hour, portfolio, asOf>>

EndVisit(v) ==
    /\ visit[v].pc # "idle"
    /\ visit' = [visit EXCEPT ![v] = Away]
    /\ UNCHANGED <<hour, portfolio, asOf, stored>>

ForgetHealth ==
    /\ stored # Null
    /\ stored' = Null
    /\ UNCHANGED <<hour, portfolio, asOf, visit>>

HealthStep ==
    \/ PassHour \/ ForgetHealth \/ \E c \in Links : SyncLink(c)
    \/ \E v \in Visitors : Visit(v) \/ Hit(v) \/ Compute(v) \/ SetHealth(v) \/ EndVisit(v)

-----------------------------------------------------------------------------
(* What is answered from the cache was read from the positions no longer   *)
(* ago than the time to live and the time it took to compute, whichever    *)
(* request stores last and whatever Redis loses (api/health_score.py:152). *)
HealthScoresAreRecent ==
    stored # Null => hour - stored.answer.read < HealthTTL + stored.answer.took

(* The label of a stored answer, "Data outdated" (api/health_score.py:39), *)
(* is the one its positions have now: false, it is frozen for a day.       *)
StoredLabelsAreTrue ==
    stored # Null => stored.answer.label = Label(hour - stored.answer.read)
=============================================================================
