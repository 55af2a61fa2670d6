--------------------------- MODULE BrokerSessions ---------------------------
(***************************************************************************)
(* How long a linked account can be used: the status that the dashboard    *)
(* shows (api/broker_auth.py), the adapter that a sync builds              *)
(* (api/portfolio.py) and the check the Zerodha adapter makes before it    *)
(* calls Kite (brokers/zerodha.py).                                        *)
(*                                                                         *)
(* Kite's tokens all end at one hour of the day. A row keeps the time its  *)
(* token is valid until; the clock counts hours of Asia/Kolkata.           *)
(***************************************************************************)
EXTENDS Scores    \* for Null

CONSTANTS
    Tokens,      \* broker_connections
    BrokerOf,    \* the broker of each
    DayHours,    \* 24
    CutHour,     \* _KITE_DAILY_EXPIRY_HOUR_IST
    LastClock    \* bound: the last hour

ASSUME SessionAssumption ==
    /\ {DayHours, LastClock} \subseteq Nat
    /\ CutHour \in 0 .. DayHours - 1
    /\ \A k \in Tokens : BrokerOf[k] \in {"alpaca", "zerodha"}

VARIABLES
    clock,
    account,     \* the rows: [status, issued, until, stub], or Null
    called       \* what the adapter of each account answered last

sessionVars == <<clock, account, called>>

(* Mutant of LastCutoff: at the hour itself it is still the day before.    *)
LastCutoffStrict(now) ==
    LET todays == now - (now % DayHours) + CutHour
    IN  IF now > todays THEN todays ELSE todays - DayHours

(* _last_kite_expiry_cutoff.                                               *)
LastCutoff(now) ==
    LET todays == now - (now % DayHours) + CutHour
    IN  IF now >= todays THEN todays ELSE todays - DayHours

(* Kite refuses a token once the hour has come after it was issued.        *)
KiteAccepts(k) ==
    ~ \E c \in account[k].issued + 1 .. clock : c % DayHours = CutHour

InitSessions ==
    /\ clock = 0
    /\ account = [k \in Tokens |-> Null]
    /\ called = [k \in Tokens |-> Null]

-----------------------------------------------------------------------------
Row(issued, until, stub) == [status |-> "active", issued |-> issued, until |-> until,
                             stub |-> stub]

Elapse ==
    /\ clock < LastClock
    /\ clock' = clock + 1
    /\ UNCHANGED <<account, called>>

(* connect_alpaca_credentials: Alpaca has accepted the keys, which do not  *)
(* end. A row may also be a stub of the callback that is gone.             *)
LinkAlpaca(k) ==
    /\ account[k] = Null /\ BrokerOf[k] = "alpaca"
    /\ \E stub \in BOOLEAN : account' = [account EXCEPT ![k] = Row(clock, Null, stub)]
    /\ UNCHANGED <<clock, called>>

(* A Zerodha row, valid until the next cutoff, as _derive_connection_status *)
(* describes it; the routes that will write one answer 501 for now.        *)
LinkZerodha(k) ==
    /\ account[k] = Null /\ BrokerOf[k] = "zerodha"
    /\ account' = [account EXCEPT ![k] = Row(clock, LastCutoff(clock) + DayHours, FALSE)]
    /\ UNCHANGED <<clock, called>>

(* _derive_connection_status.                                              *)
StatusOf(k) ==
    LET a == account[k]
    IN  CASE a.status = "expired" -> "auth_expired"
          [] a.status = "active" /\ a.until # Null /\ BrokerOf[k] = "zerodha"
                /\ a.until <= LastCutoff(clock) -> "auth_expired"
          [] OTHER -> "connected"

(* _is_token_expired, of an adapter that _build_adapter has made: what it  *)
(* hands over as access_token_issued_at is token_expires_at.               *)
Preflight(k) == account[k].until < LastCutoff(clock)

(* _build_adapter finds a stub: the row is marked, and stays so.           *)
RetireStub(k) ==
    /\ account[k] # Null /\ account[k].status = "active" /\ account[k].stub
    /\ account' = [account EXCEPT ![k].status = "expired"]
    /\ UNCHANGED <<clock, called>>

(* _call: without a request to Kite when the token is known to have ended; *)
(* else what Kite says, as an error code. The sync that called swallows    *)
(* the error, and the row keeps its status.                                *)
Call(k) ==
    /\ account[k] # Null /\ BrokerOf[k] = "zerodha"
    /\ \E answer \in {"ok", "AUTH_EXPIRED", "NETWORK_TIMEOUT", "INSTRUMENT_UNKNOWN",
                      "UPSTREAM_DOWN"} :
          /\ Preflight(k) => answer = "AUTH_EXPIRED"
          /\ answer = "ok" => KiteAccepts(k)
          /\ answer = "AUTH_EXPIRED" => Preflight(k) \/ ~KiteAccepts(k)
          /\ called' = [called EXCEPT ![k] = [answer |-> answer, asked |-> ~Preflight(k)]]
    /\ UNCHANGED <<clock, account>>

SessionStep ==
    \/ Elapse
    \/ \E k \in Tokens : LinkAlpaca(k) \/ LinkZerodha(k) \/ RetireStub(k) \/ Call(k)

-----------------------------------------------------------------------------
(* The dashboard and the adapter judge a token by different comparisons of *)
(* different times. The dashboard shows an account as connected as long as *)
(* Kite accepts its token and no longer, and the adapter never refuses a   *)
(* token that Kite accepts (broker_auth.py:125, zerodha.py:155).           *)
TokensAreJudgedRight ==
    \A k \in Tokens : account[k] # Null /\ BrokerOf[k] = "zerodha" =>
        /\ (StatusOf(k) = "connected") <=> KiteAccepts(k)
        /\ Preflight(k) => ~KiteAccepts(k)

(* "This avoids a wasted network round-trip" (zerodha.py:203): false for a *)
(* whole day, as the time a token is valid until is taken for the time it  *)
(* was issued.                                                             *)
PreflightKnows ==
    \A k \in Tokens : called[k] # Null => (called[k].answer = "AUTH_EXPIRED" => ~called[k].asked)
=============================================================================
