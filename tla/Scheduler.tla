----------------------------- MODULE Scheduler -----------------------------
(***************************************************************************)
(* The session-aware scheduler (backend/app/scheduling/scheduler.py): a    *)
(* Celery task that Beat publishes once a minute. Whichever worker takes   *)
(* the message reads the clock, plans from the hours of every exchange,    *)
(* and dispatches what it can claim in Redis, one claim and one send after *)
(* the other.                                                              *)
(*                                                                         *)
(* Time is minutes, which is what _minute_floor leaves of it. The claims   *)
(* outlive every minute (7 days) and session (48 hours) they stand for, so *)
(* that their expiry is left out.                                          *)
(***************************************************************************)
EXTENDS Naturals, Sequences, SequencesExt, FiniteSets

CONSTANTS
    Exchanges,    \* SUPPORTED_EXCHANGES, in their order
    Sessions,     \* the library's sessions: [mic, date, open, close]
    DayLength,    \* minutes in a day
    Horizon,      \* bound: the last minute
    RecalcEvery,  \* INDICATOR_RECALC_EVERY_MINUTES
    SyncEvery,    \* PORTFOLIO_SYNC_EVERY_MINUTES
    Workers,      \* Celery worker processes
    Backlog,      \* bound: tick messages in the broker at once
    Include,      \* the task modules a worker imports
    WorkersFail   \* can a worker die, or a command or send_task raise?

ASSUME SchedulerAssumption ==
    /\ Exchanges \in Seq(ToSet(Exchanges))
    /\ \A s \in Sessions :
        /\ s.mic \in ToSet(Exchanges) /\ s.date \in Nat
        /\ s.open \in Nat /\ s.close \in Nat /\ s.open < s.close
        /\ s.open \div DayLength = s.date /\ s.close \div DayLength = s.date
    /\ \A s, t \in Sessions : s.mic = t.mic /\ s.date = t.date => s = t
    /\ DayLength \in Nat \ {0} /\ Horizon \in Nat /\ Backlog \in Nat
    /\ RecalcEvery \in Nat \ {0} /\ SyncEvery \in Nat \ {0}
    /\ WorkersFail \in BOOLEAN

Minutes == 0 .. Horizon

(* What a dedupe key is made of: the minute, or the date of the session.   *)
Keys ==
    [task : {"recalc", "sync"}, mic : ToSet(Exchanges), at : Minutes]
        \union {[task |-> "post_close", mic |-> s.mic, at |-> s.date] : s \in Sessions}

VARIABLES
    clock,    \* the minute
    beaten,   \* has Beat published the tick of this minute?
    queue,    \* the broker: how many tick messages wait
    vetoed,   \* Postgres: sessions with an override that closes their date
    claims,   \* Redis: the dedupe keys
    worker,   \* what each worker has in hand
    sent,     \* how often send_task has been given each key's task
    calm      \* history: every tick so far was over before the next minute,
              \* and no worker failed

schedulerVars == <<clock, beaten, queue, vetoed, claims, worker, sent, calm>>

Idle == [pc |-> "idle", now |-> 0, todo |-> <<>>]
WorkerAt(w, s) == worker[w].pc = s

-----------------------------------------------------------------------------
(* compute_market_state and plan.                                          *)

SessionOf(mic, now) ==
    {s \in Sessions : s.mic = mic /\ s.date = now \div DayLength}

(* Mutants of MarketState: the minute of the close is not part of the      *)
(* window; it opens a minute early.                                        *)
MarketStateMissingTheClose(s, now) ==
    CASE now < s.open                      -> "closed"
      [] s.open <= now /\ now <= s.close   -> "open"
      [] OTHER                             -> "closed"

MarketStateClosingEarly(s, now) ==
    CASE now < s.open                       -> "closed"
      [] s.open <= now /\ now + 1 < s.close -> "open"
      [] now + 1 = s.close                  -> "just_closed"
      [] OTHER                              -> "closed"

(* Within 60 seconds of the close, in whole minutes, is the close itself.  *)
MarketState(s, now) ==
    CASE now < s.open                   -> "closed"
      [] s.open <= now /\ now < s.close -> "open"
      [] now = s.close                  -> "just_closed"
      [] OTHER                          -> "closed"

(* The plans of one exchange: nothing on a holiday, a date without a       *)
(* session or with one that an override has closed.                        *)
PlansFor(mic, now, closed) ==
    LET today  == SessionOf(mic, now) \ closed
        is(st) == \E s \in today : MarketState(s, now) = st
        minute(task, every) ==
            IF is("open") /\ now % every = 0
            THEN <<[task |-> task, mic |-> mic, at |-> now]>> ELSE <<>>
    IN  minute("recalc", RecalcEvery) \o minute("sync", SyncEvery)
            \o IF is("just_closed")
               THEN <<[task |-> "post_close", mic |-> mic, at |-> now \div DayLength]>>
               ELSE <<>>

(* Mutant of Plans: the lists are appended where they should be extended.  *)
PlansNested(now, closed) ==
    [i \in DOMAIN Exchanges |-> PlansFor(Exchanges[i], now, closed)]

Plans(now, closed) ==
    FlattenSeq([i \in DOMAIN Exchanges |-> PlansFor(Exchanges[i], now, closed)])

-----------------------------------------------------------------------------
InitScheduler ==
    /\ clock = 0 /\ beaten = FALSE /\ queue = 0
    /\ vetoed = {} /\ claims = {}
    /\ worker = [w \in Workers |-> Idle]
    /\ sent = [k \in Keys |-> 0]
    /\ calm = TRUE

(* The next minute begins, whatever is left of this one.                   *)
Minute ==
    /\ clock < Horizon
    /\ clock' = clock + 1 /\ beaten' = FALSE
    /\ calm' = (calm /\ beaten /\ queue = 0 /\ \A w \in Workers : WorkerAt(w, "idle"))
    /\ UNCHANGED <<queue, vetoed, claims, worker, sent>>

(* crontab(minute="*").                                                    *)
Beat ==
    /\ ~beaten /\ queue < Backlog
    /\ beaten' = TRUE /\ queue' = queue + 1
    /\ UNCHANGED <<clock, vetoed, claims, worker, sent, calm>>

(* A second Beat, or one that catches up: the same minute once more.       *)
DuplicateBeat ==
    /\ beaten /\ queue < Backlog
    /\ queue' = queue + 1
    /\ UNCHANGED <<clock, beaten, vetoed, claims, worker, sent, calm>>

(* record_unexpected_closed. A date is never opened again.                 *)
Veto ==
    /\ \E s \in Sessions \ vetoed : vetoed' = vetoed \union {s}
    /\ UNCHANGED <<clock, beaten, queue, claims, worker, sent, calm>>

(* A worker takes a message, which is acknowledged at once, and reads the  *)
(* clock. A task of a module that it has not imported is discarded.        *)
Take(w) ==
    /\ WorkerAt(w, "idle") /\ queue > 0
    /\ queue' = queue - 1
    /\ worker' = IF "scheduling.scheduler" \in Include
                 THEN [worker EXCEPT ![w] = [Idle EXCEPT !.pc = "plan", !.now = clock]]
                 ELSE worker
    /\ UNCHANGED <<clock, beaten, vetoed, claims, sent, calm>>

(* plan().                                                                 *)
Plan(w) ==
    /\ WorkerAt(w, "plan")
    /\ worker' = [worker EXCEPT ![w].pc = "claim",
                                ![w].todo = Plans(worker[w].now, vetoed)]
    /\ UNCHANGED <<clock, beaten, queue, vetoed, claims, sent, calm>>

(* Mutant of Claim: the key is set without NX.                             *)
ClaimWithoutNX(w) ==
    LET todo == worker[w].todo IN
    /\ WorkerAt(w, "claim")
    /\ IF todo = <<>>
       THEN worker' = [worker EXCEPT ![w] = Idle] /\ UNCHANGED claims
       ELSE /\ claims' = claims \union {Head(todo)}
            /\ worker' = [worker EXCEPT ![w].pc = "send"]
    /\ UNCHANGED <<clock, beaten, queue, vetoed, sent, calm>>

(* apply(): SET NX EX of the next plan's key. A plan that is taken is      *)
(* skipped; after the last one the task is over.                           *)
Claim(w) ==
    LET todo == worker[w].todo IN
    /\ WorkerAt(w, "claim")
    /\ \/ /\ todo = <<>>
          /\ worker' = [worker EXCEPT ![w] = Idle]
          /\ UNCHANGED claims
       \/ /\ todo # <<>> /\ Head(todo) \in claims
          /\ worker' = [worker EXCEPT ![w].todo = Tail(@)]
          /\ UNCHANGED claims
       \/ /\ todo # <<>> /\ Head(todo) \notin claims
          /\ claims' = claims \union {Head(todo)}
          /\ worker' = [worker EXCEPT ![w].pc = "send"]
    /\ UNCHANGED <<clock, beaten, queue, vetoed, sent, calm>>

(* send_task.                                                              *)
Send(w) ==
    /\ WorkerAt(w, "send")
    /\ sent' = [sent EXCEPT ![Head(worker[w].todo)] = @ + 1]
    /\ worker' = [worker EXCEPT ![w].pc = "claim", ![w].todo = Tail(@)]
    /\ UNCHANGED <<clock, beaten, queue, vetoed, claims, calm>>

(* The worker dies, or something raises out of the task: a market whose    *)
(* hours cannot be read, a Redis command, send_task. The plans that are    *)
(* left, and the one whose key is claimed already, are gone.               *)
WorkerFails(w) ==
    /\ WorkersFail /\ ~WorkerAt(w, "idle")
    /\ worker' = [worker EXCEPT ![w] = Idle] /\ calm' = FALSE
    /\ UNCHANGED <<clock, beaten, queue, vetoed, claims, sent>>

Run(w) == Take(w) \/ Plan(w) \/ Claim(w) \/ Send(w)

SchedulerNext ==
    \/ Minute \/ Beat \/ DuplicateBeat \/ Veto
    \/ \E w \in Workers : Run(w) \/ WorkerFails(w)

SchedulerSpec == InitScheduler /\ [][SchedulerNext]_schedulerVars

(* Beat, the workers and the clock keep going.                             *)
FairSchedulerSpec ==
    /\ SchedulerSpec
    /\ WF_schedulerVars(Minute) /\ WF_schedulerVars(Beat)
    /\ \A w \in Workers : WF_schedulerVars(Run(w))

-----------------------------------------------------------------------------
(* Claims and dispatches are of known keys, and every worker is at one of the steps *)
(* of scheduler_tick; the queue of ticks never exceeds its bound.                   *)
SchedulerTypeOK ==
    /\ clock \in Minutes /\ beaten \in BOOLEAN /\ queue \in 0 .. Backlog
    /\ vetoed \subseteq Sessions /\ claims \subseteq Keys
    /\ worker \in [Workers -> [pc : {"idle", "plan", "claim", "send"},
                               now : Minutes, todo : Seq(Keys)]]
    /\ sent \in [Keys -> Nat] /\ calm \in BOOLEAN

PostClose(s) == [task |-> "post_close", mic |-> s.mic, at |-> s.date]

(* "DST, duplicate beats and worker restarts can't double-fire the batch", *)
(* nor any other task of one minute: the dedupe key is claimed once.       *)
AtMostOnce == \A k \in Keys : sent[k] <= 1

(* The post-close batch of a session is never dispatched before its close, *)
(* whenever the message of the tick was published or taken.                *)
BatchAfterClose ==
    \A s \in Sessions : sent[PostClose(s)] > 0 => clock >= s.close

(* As long as every tick is over within its minute and no worker fails,    *)
(* the batch of a session that no override closes is dispatched.           *)
BatchFires ==
    \A s \in Sessions :
        clock = s.close ~> sent[PostClose(s)] = 1 \/ s \in vetoed \/ ~calm

(* "this window guarantees the post-close batch fires exactly once per     *)
(* session [...] regardless of tick jitter".                               *)
BatchFiresRegardless ==
    \A s \in Sessions :
        clock = s.close ~> sent[PostClose(s)] = 1 \/ s \in vetoed
=============================================================================
