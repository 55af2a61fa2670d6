------------------------------- MODULE Alerts -------------------------------
(***************************************************************************)
(* The alerts of a portfolio: the risk guardian that detects them          *)
(* (backend/app/safety/risk_guardian.py), the dispatcher and its push      *)
(* channel (notifications/), the registration of devices (api/devices.py)  *)
(* and the tickets of the alert socket (api/ws_alerts.py).                 *)
(*                                                                         *)
(* A run is one transaction that detects, inserts, pushes, and commits     *)
(* last. While it waits for the network, devices change hands. Titles,     *)
(* bodies and payloads are left out; what an alert is about is not.        *)
(***************************************************************************)
EXTENDS Integers, Sequences, SequencesExt, Functions, FiniteSets

CONSTANTS
    Users, Nobody,
    ActiveUsers,   \* users with is_active
    Instruments,
    Rows,          \* the positions: a sequence of [user, inst, open]
    Lookback,      \* lookback_days
    Multiplier,    \* of the average daily range
    Histories,     \* ranges (high - low) of an instrument's bars, newest first
    EarningsIn,    \* get_earnings_date: the days until then, -1 for None
    DaysAhead,     \* days_ahead
    Series,        \* fred_series, a sequence
    Moves,         \* changes of a series, in hundredths
    Threshold,     \* MACRO_CHANGE_THRESHOLD, in hundredths
    Runs,          \* calls of run_risk_guardian_once
    Devices,       \* Expo push tokens
    Tickets, Sockets

ASSUME AlertsAssumption ==
    /\ Nobody \notin Users /\ ActiveUsers \subseteq Users /\ IsFiniteSet(ActiveUsers)
    /\ Rows \in Seq([user : Users, inst : Instruments, open : BOOLEAN])
    /\ Lookback \in Nat \ {0} /\ Multiplier \in Nat /\ DaysAhead \in Nat
    /\ Histories \subseteq Seq(Nat)
    /\ EarningsIn \in [Instruments -> Nat \union {-1}]
    /\ Threshold \in Nat /\ Moves \subseteq Int /\ Series \in Seq(STRING)

VARIABLES
    bars,      \* price_history: the ranges of each instrument
    device,    \* device_tokens: the user of each push token
    run,       \* what each run of the guardian has in hand
    table,     \* notifications: the committed rows
    pushed,    \* Expo: what it accepted, [id, user, to]
    ticket,    \* Redis: the user of a ticket, Nobody when there is none
    socket,    \* the sockets: [pc, user]
    admitted   \* history: how many sockets each ticket has let in

alertVars == <<bars, device, run, table, pushed>>
socketVars == <<ticket, socket, admitted>>
vars == <<bars, device, run, table, pushed, ticket, socket, admitted>>

Alert(u, k, x) == [user |-> u, kind |-> k, about |-> x]
Fresh == [pc |-> "idle", at |-> 1, events |-> <<>>, changes |-> {},
          rows |-> <<>>, tokens |-> {}, held |-> {}]
At(r, s) == run[r].pc = s

-----------------------------------------------------------------------------
(* The detectors.                                                          *)

(* Mutant of Volatile: today is part of its own average.                   *)
VolatileWithToday(ranges) ==
    LET window == SubSeq(ranges, 1, Lookback)
    IN  Len(ranges) > Lookback /\ ranges[1] * Lookback > Multiplier * SumFunction(window)

(* Is today's range more than Multiplier times the average of the Lookback *)
(* bars before it? Not with too few bars, nor when nothing moved at all.   *)
Volatile(ranges) ==
    LET window == SubSeq(ranges, 2, Lookback + 1)
    IN  /\ Len(ranges) >= Lookback + 1
        /\ SumFunction(window) > 0
        /\ ranges[1] * Lookback > Multiplier * SumFunction(window)

Soon(i) == EarningsIn[i] \in 0 .. DaysAhead

(* Mutant of Earnings: one alert for each symbol, whoever holds it.        *)
EarningsOncePerSymbol ==
    LET step(acc, row) ==
          IF ~Soon(row.inst) \/ \E k \in acc.seen : k[2] = row.inst THEN acc
          ELSE [seen |-> acc.seen \union {<<row.user, row.inst>>},
                out  |-> Append(acc.out, Alert(row.user, "earnings", row.inst))]
    IN  FoldLeft(step, [seen |-> {}, out |-> <<>>], Rows).out

(* Row by row, with the pairs of user and symbol that were told already.   *)
Earnings ==
    LET step(acc, row) ==
          IF ~Soon(row.inst) \/ <<row.user, row.inst>> \in acc.seen THEN acc
          ELSE [seen |-> acc.seen \union {<<row.user, row.inst>>},
                out  |-> Append(acc.out, Alert(row.user, "earnings", row.inst))]
    IN  FoldLeft(step, [seen |-> {}, out |-> <<>>], Rows).out

(* The change of a series, |latest - previous|, is compared as a float:    *)
(* at the threshold itself the rounding of the subtraction decides.        *)
Material(d, rounds) == LET a == IF d < 0 THEN -d ELSE d
                       IN  a > Threshold \/ (a = Threshold /\ rounds)

(* One alert for every active user and changed series.                     *)
MacroAlerts(changes) ==
    LET us == SetToSeq(ActiveUsers)  cs == SetToSeq(changes)
    IN  FlattenSeq([i \in DOMAIN us |->
            [j \in DOMAIN cs |-> Alert(us[i], "macro", cs[j])]])

-----------------------------------------------------------------------------
Init ==
    /\ bars \in [Instruments -> Histories]
    /\ device = [d \in Devices |-> Nobody]
    /\ run = [r \in Runs |-> Fresh]
    /\ table = {} /\ pushed = {}
    /\ ticket = [t \in Tickets |-> [state |-> "none", user |-> Nobody]]
    /\ socket = [s \in Sockets |-> [pc |-> "closed", user |-> Nobody]]
    /\ admitted = [t \in Tickets |-> 0]

Goto(r, upd) == run' = [run EXCEPT ![r] = upd]
Same == UNCHANGED <<bars, device, table, pushed, socketVars>>

(* run_all begins with the SELECT of the positions.                        *)
Start(r) ==
    /\ At(r, "idle")
    /\ Goto(r, [run[r] EXCEPT !.pc = "volatility"])
    /\ Same

(* One turn of detect_volatility_alerts: a position's connection,          *)
(* instrument, which the foreign keys guarantee, and its bars.             *)
Volatility(r) ==
    /\ At(r, "volatility") /\ run[r].at <= Len(Rows)
    /\ LET row == Rows[run[r].at]
       IN  Goto(r, [run[r] EXCEPT
               !.at = @ + 1,
               !.events = IF Volatile(bars[row.inst])
                          THEN Append(@, Alert(row.user, "volatility", row.inst))
                          ELSE @])
    /\ Same

(* detect_earnings_alerts, which follows.                                  *)
DetectEarnings(r) ==
    /\ At(r, "volatility") /\ run[r].at > Len(Rows)
    /\ Goto(r, [run[r] EXCEPT !.pc = "macro", !.at = 1, !.events = @ \o Earnings])
    /\ Same

(* One turn of detect_macro_alerts: the two latest observations of a       *)
(* series. A failed request, fewer observations or a value that is no      *)
(* number passes over the series.                                          *)
Macro(r) ==
    /\ At(r, "macro") /\ run[r].at <= Len(Series)
    /\ \/ Goto(r, [run[r] EXCEPT !.at = @ + 1])
       \/ \E d \in Moves, rounds \in BOOLEAN :
            /\ Material(d, rounds)
            /\ Goto(r, [run[r] EXCEPT !.at = @ + 1,
                                      !.changes = @ \union {Series[run[r].at]}])
    /\ Same

Pending(events) == [i \in DOMAIN events |-> [alert |-> events[i], sent |-> FALSE]]

(* The alerts of the macro changes, and the INSERT of every event, which   *)
(* nobody sees before the commit.                                          *)
Persist(r) ==
    /\ At(r, "macro") /\ run[r].at > Len(Series)
    /\ LET all == run[r].events \o MacroAlerts(run[r].changes)
       IN  Goto(r, [run[r] EXCEPT !.pc = "dispatch", !.at = 1,
                       !.events = all, !.rows = Pending(all)])
    /\ Same

-----------------------------------------------------------------------------
(* The dispatcher and its one channel.                                     *)

Registered == {<<d, device[d]>> : d \in Devices}
TokensOf(u) == {d \in Devices : device[d] = u}

(* dispatch of the next notification begins.                               *)
Dispatch(r) ==
    /\ At(r, "dispatch") /\ run[r].at <= Len(run[r].rows)
    /\ Goto(r, [run[r] EXCEPT !.pc = "lookup", !.held = Registered])
    /\ Same

(* Mutant of Lookup: the tokens of a user are kept for the next one.       *)
LookupOnce(r) ==
    /\ At(r, "lookup")
    /\ LET tokens == IF run[r].tokens # {} THEN run[r].tokens
                     ELSE TokensOf(run[r].rows[run[r].at].alert.user)
       IN  Goto(r, IF tokens = {} THEN [run[r] EXCEPT !.pc = "dispatch", !.at = @ + 1]
                   ELSE [run[r] EXCEPT !.pc = "post", !.tokens = tokens])
    /\ Same

(* _active_tokens. Without a device the channel has not delivered.         *)
Lookup(r) ==
    /\ At(r, "lookup")
    /\ LET tokens == TokensOf(run[r].rows[run[r].at].alert.user)
       IN  Goto(r, IF tokens = {} THEN [run[r] EXCEPT !.pc = "dispatch", !.at = @ + 1]
                   ELSE [run[r] EXCEPT !.pc = "post", !.tokens = tokens])
    /\ Same

Sending(r) == LET n == run[r].rows[run[r].at].alert
              IN  {[id |-> <<r, run[r].at>>, user |-> n.user, to |-> d] : d \in run[r].tokens}

(* Mutant of Answered: sent_at is set when a channel was tried.            *)
AnsweredAnyway(r, ok) ==
    Goto(r, [run[r] EXCEPT !.pc = "dispatch", !.at = @ + 1,
                           !.rows[run[r].at].sent = TRUE])

(* dispatch sets sent_at when a channel has succeeded.                     *)
Answered(r, ok) ==
    Goto(r, [run[r] EXCEPT !.pc = "dispatch", !.at = @ + 1,
                           !.rows[run[r].at].sent = @ \/ ok])

(* The POST to Expo: accepted; refused, or not sent at all; or accepted    *)
(* with an answer that is lost or not understood.                          *)
Post(r) ==
    /\ At(r, "post")
    /\ \/ pushed' = pushed \union Sending(r) /\ Answered(r, TRUE)
       \/ pushed' = pushed /\ Answered(r, FALSE)
       \/ pushed' = pushed \union Sending(r) /\ Answered(r, FALSE)
    /\ UNCHANGED <<bars, device, table, socketVars>>

(* Mutant of Stored: of two events about one thing a user gets one.        *)
StoredOnce(r) ==
    {[id |-> <<r, CHOOSE i \in DOMAIN run[r].rows : run[r].rows[i] = n>>,
      alert |-> n.alert, sent |-> n.sent] : n \in Range(run[r].rows)}

Stored(r) ==
    {[id |-> <<r, i>>, alert |-> run[r].rows[i].alert, sent |-> run[r].rows[i].sent]
        : i \in DOMAIN run[r].rows}

(* run_risk_guardian_once commits when everything has been dispatched.     *)
Commit(r) ==
    /\ At(r, "dispatch") /\ run[r].at > Len(run[r].rows)
    /\ table' = table \union Stored(r)
    /\ Goto(r, [run[r] EXCEPT !.pc = "done"])
    /\ UNCHANGED <<bars, device, pushed, socketVars>>

(* A statement fails, or the worker dies: the transaction is rolled back.  *)
Fail(r) ==
    /\ run[r].pc \notin {"idle", "done", "failed"}
    /\ Goto(r, [Fresh EXCEPT !.pc = "failed"])
    /\ Same

(* register_device: the token now belongs to this user. A registration     *)
(* that finds no row and is overtaken by another fails on the unique       *)
(* token, and is no action.                                                *)
Register(d, u) ==
    /\ device' = [device EXCEPT ![d] = u]
    /\ run' = [r \in Runs |-> [run[r] EXCEPT !.held = @ \union {<<d, u>>}]]
    /\ UNCHANGED <<bars, table, pushed, socketVars>>

-----------------------------------------------------------------------------
(* The tickets of the alert socket.                                        *)

(* create_ticket: SET NX EX of a random key.                               *)
Mint(t, u) ==
    /\ ticket[t].state = "none"
    /\ ticket' = [ticket EXCEPT ![t] = [state |-> "live", user |-> u]]
    /\ UNCHANGED <<alertVars, socket, admitted>>

(* 30 seconds.                                                             *)
Expire(t) ==
    /\ ticket[t].state = "live"
    /\ ticket' = [ticket EXCEPT ![t] = [state |-> "gone", user |-> Nobody]]
    /\ UNCHANGED <<alertVars, socket, admitted>>

(* Mutant of Consume: GET, and a delete when the socket closes.            *)
ConsumeLater(t) == ticket' = ticket

(* _consume_ticket: GETDEL.                                                *)
Consume(t) == ticket' = [ticket EXCEPT ![t] = [state |-> "gone", user |-> Nobody]]

(* ws_alerts: a ticket that is not there closes the socket again, which    *)
(* is no action.                                                           *)
Admit(s, t) ==
    /\ socket[s].pc = "closed" /\ ticket[t].state = "live"
    /\ Consume(t)
    /\ socket' = [socket EXCEPT ![s] = [pc |-> "admitted", user |-> ticket[t].user]]
    /\ admitted' = [admitted EXCEPT ![t] = @ + 1]
    /\ UNCHANGED alertVars

Subscribe(s) ==
    /\ socket[s].pc = "admitted"
    /\ socket' = [socket EXCEPT ![s].pc = "subscribed"]
    /\ UNCHANGED <<alertVars, ticket, admitted>>

Disconnect(s) ==
    /\ socket[s].pc # "closed"
    /\ socket' = [socket EXCEPT ![s] = [pc |-> "closed", user |-> Nobody]]
    /\ UNCHANGED <<alertVars, ticket, admitted>>

-----------------------------------------------------------------------------
RunStep(r) ==
    \/ Start(r) \/ Volatility(r) \/ DetectEarnings(r) \/ Macro(r) \/ Persist(r)
    \/ Dispatch(r) \/ Lookup(r) \/ Post(r) \/ Commit(r)

Next ==
    \/ \E r \in Runs : RunStep(r) \/ Fail(r)
    \/ \E d \in Devices, u \in Users : Register(d, u)
    \/ \E t \in Tickets, u \in Users : Mint(t, u)
    \/ \E t \in Tickets : Expire(t) \/ \E s \in Sockets : Admit(s, t)
    \/ \E s \in Sockets : Subscribe(s) \/ Disconnect(s)

Spec == Init /\ [][Next]_vars

-----------------------------------------------------------------------------
AlertSet ==
    [user : Users, kind : {"volatility", "earnings"}, about : Instruments]
        \union [user : Users, kind : {"macro"}, about : ToSet(Series)]

(* Every variable keeps its type; ids are the run and the place in it.     *)
TypeOK ==
    /\ bars \in [Instruments -> Histories]
    /\ device \in [Devices -> Users \union {Nobody}]
    /\ \A r \in Runs :
        /\ run[r].pc \in {"idle", "volatility", "macro", "dispatch", "lookup",
                          "post", "done", "failed"}
        /\ run[r].at \in Nat \ {0} /\ ToSet(run[r].events) \subseteq AlertSet
        /\ run[r].tokens \subseteq Devices /\ run[r].held \subseteq Devices \X (Users \union {Nobody})
        /\ ToSet(run[r].rows) \subseteq [alert : AlertSet, sent : BOOLEAN]
        /\ At(r, "lookup") \/ At(r, "post") => run[r].at \in DOMAIN run[r].rows
    /\ table \subseteq [id : Runs \X Nat, alert : AlertSet, sent : BOOLEAN]
    /\ pushed \subseteq [id : Runs \X Nat, user : Users, to : Devices]
    /\ socket \in [Sockets -> [pc : {"closed", "admitted", "subscribed"},
                               user : Users \union {Nobody}]]

(* How many notifications a run owes a user: one for each of his volatile  *)
(* rows, one for a symbol with earnings soon, one for a changed series.    *)
Owed(r, a) ==
    CASE a.kind = "volatility" ->
             Cardinality({i \in DOMAIN Rows : /\ Rows[i].user = a.user
                                              /\ Rows[i].inst = a.about
                                              /\ Volatile(bars[a.about])})
      [] a.kind = "earnings" ->
             IF Soon(a.about) /\ \E i \in DOMAIN Rows :
                    Rows[i].user = a.user /\ Rows[i].inst = a.about THEN 1 ELSE 0
      [] a.kind = "macro" ->
             IF a.user \in ActiveUsers /\ a.about \in run[r].changes THEN 1 ELSE 0

(* A run that ended has stored, in spite of pushes that failed, exactly    *)
(* what it owes each user: holders of one symbol do not silence each       *)
(* other, two accounts of one user do not repeat an earnings alert. A run  *)
(* that failed has stored nothing.                                         *)
RunsTellEveryHolder ==
    \A r \in Runs :
        LET mine == {n \in table : n.id[1] = r}
        IN  IF At(r, "done")
            THEN \A a \in AlertSet : Cardinality({n \in mine : n.alert = a}) = Owed(r, a)
            ELSE mine = {}

(* sent_at of a stored notification means that Expo accepted it.           *)
SentMeansAccepted ==
    \A n \in table : n.sent => \E p \in pushed : p.id = n.id /\ p.user = n.alert.user

(* A device that changes hands in the middle of a run still gets what      *)
(* belongs to its former user for as long as one dispatch takes, and no    *)
(* longer: a push goes where the user was registered since it began.       *)
PushesFollowDevices ==
    \A r \in Runs : At(r, "post") =>
        \A p \in Sending(r) : <<p.to, p.user>> \in run[r].held

(* A ticket opens one socket, however many present it at once.             *)
OneSocketPerTicket == \A t \in Tickets : admitted[t] <= 1

(* "For every open position" (risk_guardian.py:104). But the SELECT has no *)
(* condition on the quantity, and a sold position is a row of quantity 0.  *)
ClosedPositionsAreQuiet ==
    \A n \in table : n.alert.kind = "volatility" =>
        \E i \in DOMAIN Rows : Rows[i].user = n.alert.user
                                /\ Rows[i].inst = n.alert.about /\ Rows[i].open

(* Channels deliver outbound copies of a persisted row (base.py:3-7). But  *)
(* the row is committed last, and a run that fails leaves pushes behind.   *)
PushedIsRecorded ==
    \A p \in pushed : At(p.id[1], "failed") => \E n \in table : n.id = p.id
=============================================================================
