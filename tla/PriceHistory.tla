--------------------------- MODULE PriceHistory ---------------------------
(***************************************************************************)
(* The price history of one instrument and the indicators cached from it:  *)
(* services/corporate_actions.py, which rescales the bars before a split;  *)
(* data/storage.py, which writes bars; and the cache of                    *)
(* analysis/technical.py, as the technical endpoint uses it.               *)
(*                                                                         *)
(* apply_split is one transaction under READ COMMITTED: its UPDATE waits   *)
(* for the row locks of another, nobody sees it before the commit, and the *)
(* cached indicators are deleted in between. A request selects the bars,   *)
(* then reads the keys of the indicators one by one, then writes them one  *)
(* by one. What the bars are is abstracted to their version, and which     *)
(* splits have multiplied which day.                                       *)
(***************************************************************************)
EXTENDS Integers, Sequences, SequencesExt, FiniteSets

CONSTANTS
    Splits,      \* corporate_actions.id, one for each detection
    NoAction,    \* detections with an adjustment factor of 1
    ExDay,       \* ex_date
    Days,        \* the days that have a bar
    History,     \* corp_action_adjust_history_days
    Calls,       \* calls of apply_split
    Indicators,  \* a sequence: _WEIGHTS, in order
    EnoughAt,    \* the first version with bars enough for an indicator
    Requests,    \* requests of the technical endpoint
    TTL,         \* _CACHE_TTL_SECONDS, in ticks
    Slow,        \* bound: the ticks a request may take
    MaxClock,    \* bound: ticks
    MaxStored    \* bound: calls of upsert_ohlcv

ASSUME PriceAssumption ==
    /\ Days \subseteq Int /\ ExDay \in [Splits -> Int] /\ NoAction \subseteq Splits
    /\ History \in Nat /\ TTL \in Nat \ {0} /\ Slow \in Nat
    /\ MaxClock \in Nat /\ MaxStored \in Nat
    /\ Indicators \in Seq(ToSet(Indicators)) \ {<<>>} /\ IsInjective(Indicators)
    /\ EnoughAt \in [ToSet(Indicators) -> Nat]

VARIABLES
    row, times,   \* the committed rows: see SplitLedger
    call,         \* the calls of apply_split: [pc, split]
    locked,       \* the calls that hold the locks of the window's bars
    ended,        \* when each version of the bars was superseded, in order
    cache,        \* Redis: the entry of each indicator, [ver, age]
    req,          \* the requests: [pc, age, bars, at, got, answer]
    clock,
    stored,       \* calls of upsert_ohlcv so far
    overlapped,   \* history: splits that two calls had in hand at one time
    torn          \* history: have two requests been under way at one time,
                  \* or has one been lost between two writes?

tableVars == <<row, times, call, locked, overlapped>>
cacheVars == <<cache, req, torn>>
vars == <<row, times, call, locked, ended, cache, req, clock, stored, overlapped, torn>>

Names == ToSet(Indicators)
Version == Len(ended)
Miss == [ver |-> -1, age |-> 0]
NoRequest == [pc |-> "idle", age |-> 0, bars |-> 0, at |-> 1,
              got |-> [i \in Names |-> -1], answer |-> [i \in Names |-> -1]]

(* The bars in [ex_date - History, ex_date).                               *)
Window(s) == {d \in Days : ExDay[s] - History <= d /\ d < ExDay[s]}

Init ==
    /\ row = [s \in Splits |-> "none"]
    /\ times = [s \in Splits |-> [d \in Days |-> 0]]
    /\ call = [c \in Calls |-> [pc |-> "idle", split |-> CHOOSE s \in Splits : TRUE]]
    /\ locked = {} /\ ended = <<>> /\ clock = 0 /\ stored = 0
    /\ cache = [i \in Names |-> Miss]
    /\ req = [r \in Requests |-> NoRequest]
    /\ overlapped = {} /\ torn = FALSE

-----------------------------------------------------------------------------
(* Corporate actions.                                                      *)

(* detect_from_adjustment_factor, and the commit of its caller.            *)
Record(s) ==
    /\ s \notin NoAction /\ row[s] = "none"
    /\ row' = [row EXCEPT ![s] = "recorded"]
    /\ UNCHANGED <<times, call, locked, overlapped, ended, clock, stored, cacheVars>>

Busy(c) == call[c].pc \notin {"idle", "done"}

(* Mutant of ReadMarker: the marker is not looked at.                      *)
ReadMarkerNever(c, s) ==
    /\ call[c].pc = "idle"
    /\ call' = [call EXCEPT ![c] = [pc |-> IF row[s] = "none" THEN "done" ELSE "update",
                                    split |-> s]]
    /\ overlapped' = IF \E o \in Calls : Busy(o) /\ call[o].split = s
                     THEN overlapped \union {s} ELSE overlapped
    /\ UNCHANGED <<row, times, locked, ended, clock, stored, cacheVars>>

(* apply_split reads the row: a missing one raises, an applied one returns *)
(* at once.                                                                *)
ReadMarker(c, s) ==
    /\ call[c].pc = "idle"
    /\ call' = [call EXCEPT ![c] = [pc |-> IF row[s] = "recorded" THEN "update" ELSE "done",
                                    split |-> s]]
    /\ overlapped' = IF \E o \in Calls : Busy(o) /\ call[o].split = s
                     THEN overlapped \union {s} ELSE overlapped
    /\ UNCHANGED <<row, times, locked, ended, clock, stored, cacheVars>>

(* The UPDATE of the window, which waits for the locks of another one that *)
(* has a bar in common with it.                                            *)
Update(c) ==
    /\ call[c].pc = "update"
    /\ \A o \in locked : Window(call[o].split) \intersect Window(call[c].split) = {}
    /\ locked' = locked \union {c}
    /\ call' = [call EXCEPT ![c].pc = "invalidate"]
    /\ UNCHANGED <<row, times, overlapped, ended, clock, stored, cacheVars>>

(* SCAN and DELETE, key by key, in Redis' order.                           *)
DeleteKey(c, i) ==
    /\ call[c].pc = "invalidate" /\ cache[i] # Miss
    /\ cache' = [cache EXCEPT ![i] = Miss]
    /\ UNCHANGED <<tableVars, ended, clock, stored, req, torn>>

Multiplied(s) == [times EXCEPT ![s] =
    [d \in Days |-> IF d \in Window(s) THEN @[d] + 1 ELSE @[d]]]

(* Mutant of Commit: the marker is left for a later commit.                *)
CommitPricesFirst(c) ==
    /\ call[c].pc = "invalidate"
    /\ times' = Multiplied(call[c].split)
    /\ ended' = Append(ended, clock)
    /\ locked' = locked \ {c}
    /\ call' = [call EXCEPT ![c].pc = "done"]
    /\ UNCHANGED <<row, overlapped, clock, stored, cacheVars>>

(* When the scan has ended, or has failed, which is only logged: bars,     *)
(* marker and audit row become visible together.                           *)
Commit(c) ==
    /\ call[c].pc = "invalidate"
    /\ row' = [row EXCEPT ![call[c].split] = "applied"]
    /\ times' = Multiplied(call[c].split)
    /\ ended' = Append(ended, clock)
    /\ locked' = locked \ {c}
    /\ call' = [call EXCEPT ![c].pc = "done"]
    /\ UNCHANGED <<overlapped, clock, stored, cacheVars>>

(* A statement fails, or the process dies: the database rolls back.        *)
Abort(c) ==
    /\ Busy(c)
    /\ locked' = locked \ {c}
    /\ call' = [call EXCEPT ![c].pc = "done"]
    /\ UNCHANGED <<row, times, overlapped, ended, clock, stored, cacheVars>>

(* upsert_ohlcv and its caller's commit: the bars of some day change.      *)
Store ==
    /\ stored < MaxStored /\ locked = {}
    /\ stored' = stored + 1
    /\ ended' = Append(ended, clock)
    /\ UNCHANGED <<tableVars, clock, cacheVars>>

-----------------------------------------------------------------------------
(* The technical endpoint.                                                 *)

Open(r) == req[r].pc \notin {"idle", "done"}
NoTable == UNCHANGED <<tableVars, ended, clock, stored>>

(* load_ohlcv_from_db.                                                     *)
Select(r) ==
    /\ ~Open(r)
    /\ req' = [req EXCEPT ![r] = [NoRequest EXCEPT !.pc = "get", !.bars = Version]]
    /\ torn' = (torn \/ \E o \in Requests : Open(o))
    /\ NoTable /\ UNCHANGED cache

(* One GET of load_cached_indicators.                                      *)
Get(r) ==
    /\ req[r].pc = "get" /\ req[r].at <= Len(Indicators)
    /\ LET i == Indicators[req[r].at]
       IN  req' = [req EXCEPT ![r].got[i] = cache[i].ver, ![r].at = @ + 1]
    /\ NoTable /\ UNCHANGED <<cache, torn>>

Hits(r) == {i \in Names : req[r].got[i] # -1}

(* Mutant of Answer: what was a hit is used, the rest is computed.         *)
AnswerMerged(r) == [i \in Names |-> IF i \in Hits(r) THEN req[r].got[i] ELSE req[r].bars]

(* _assemble_from_cache, only if every indicator was a hit.                *)
Answer(r) == IF Hits(r) = Names THEN [i \in Names |-> req[r].got[i]]
             ELSE [i \in Names |-> req[r].bars]

Compute(r) ==
    /\ req[r].pc = "get" /\ req[r].at > Len(Indicators)
    /\ req' = [req EXCEPT ![r].pc = IF Hits(r) = Names THEN "done" ELSE "set",
                          ![r].at = 1, ![r].answer = Answer(r),
                          ![r].got = NoRequest.got]
    /\ NoTable /\ UNCHANGED <<cache, torn>>

(* Mutant of Entry: SET without ex.                                        *)
EntryForever(v) == [ver |-> v, age |-> -MaxClock]

Entry(v) == [ver |-> v, age |-> 0]

(* One SET of cache_indicators, which skips what had too few bars.         *)
Set(r) ==
    /\ req[r].pc = "set"
    /\ LET i == Indicators[req[r].at]
       IN  cache' = IF req[r].bars < EnoughAt[i] THEN cache
                    ELSE [cache EXCEPT ![i] = Entry(req[r].bars)]
    /\ req' = IF req[r].at = Len(Indicators)
              THEN [req EXCEPT ![r].pc = "done", ![r].at = 1, ![r].bars = 0]
              ELSE [req EXCEPT ![r].at = @ + 1]
    /\ NoTable /\ UNCHANGED torn

(* Redis is gone, or the client is.                                        *)
Drop(r) ==
    /\ Open(r)
    /\ req' = [req EXCEPT ![r] = NoRequest]
    /\ torn' = (torn \/ req[r].pc = "set")
    /\ NoTable /\ UNCHANGED cache

(* Time passes, entries of TTL ticks expire; no request takes longer than  *)
(* Slow, and an answer is not kept.                                        *)
Tick ==
    /\ clock < MaxClock
    /\ \A r \in Requests : Open(r) => req[r].age < Slow
    /\ clock' = clock + 1
    /\ cache' = [i \in Names |-> IF cache[i] = Miss \/ cache[i].age + 1 >= TTL THEN Miss
                                 ELSE [cache[i] EXCEPT !.age = @ + 1]]
    /\ req' = [r \in Requests |-> IF Open(r) THEN [req[r] EXCEPT !.age = @ + 1]
                                  ELSE NoRequest]
    /\ UNCHANGED <<tableVars, ended, stored, torn>>

-----------------------------------------------------------------------------
ApplySplit(c) ==
    \/ \E s \in Splits : ReadMarker(c, s)
    \/ Update(c) \/ Commit(c) \/ Abort(c)
    \/ \E i \in Names : DeleteKey(c, i)

Analyze(r) == Select(r) \/ Get(r) \/ Compute(r) \/ Set(r) \/ Drop(r)

Next ==
    \/ \E s \in Splits : Record(s)
    \/ \E c \in Calls : ApplySplit(c)
    \/ \E r \in Requests : Analyze(r)
    \/ Store \/ Tick

Spec == Init /\ [][Next]_vars

-----------------------------------------------------------------------------
(* Every variable keeps its type, and versions are in the order of time.   *)
TypeOK ==
    /\ row \in [Splits -> {"none", "recorded", "applied"}]
    /\ times \in [Splits -> [Days -> Nat]]
    /\ call \in [Calls -> [pc : {"idle", "update", "invalidate", "done"},
                           split : Splits]]
    /\ locked = {c \in Calls : call[c].pc = "invalidate"}
    /\ ended \in Seq(0 .. clock)
    /\ \A i \in Names : cache[i] = Miss \/ cache[i] \in [ver : 0 .. Version, age : 0 .. TTL - 1]
    /\ \A r \in Requests : /\ req[r].pc \in {"idle", "get", "set", "done"}
                           /\ req[r].bars \in 0 .. Version /\ req[r].age \in 0 .. Slow

Ledger == INSTANCE SplitLedger WITH Window <- Window, row <- row, times <- times

(* The steps of apply_split are the one step of SplitLedger: nothing shows *)
(* of a split that was rolled back, or is half done.                       *)
SplitsAreAtomic == Ledger!Spec

(* "Idempotent" (corporate_actions.py:235): two calls that do not overlap  *)
(* multiply the bars once.                                                 *)
AppliedOnce ==
    \A s \in Splits \ overlapped : \A d \in Days : times[s][d] <= 1

(* The docstring says it of every pair of calls. But the marker is read    *)
(* before the locks are taken, and nobody reads it again.                  *)
AppliedOnceAlways == \A s \in Splits : \A d \in Days : times[s][d] <= 1

(* "We never mix stale and fresh indicators in a single composite"         *)
(* (technical.py:502): true while requests are answered one after another. *)
AnswersAreOfOneVersion ==
    ~torn => \A r \in Requests : \A i, j \in Names : req[r].answer[i] = req[r].answer[j]

(* An answer is never made of bars that were superseded, by a split or a   *)
(* fetch, more than the life of an entry and of two requests ago: the one  *)
(* that wrote it and the one that read it. Deleting the keys before the    *)
(* commit does not shorten that.                                           *)
StalenessIsBounded ==
    \A r \in Requests : req[r].pc = "done" =>
        \A i \in Names : req[r].answer[i] < Version =>
            clock - ended[req[r].answer[i] + 1] <= TTL - 1 + 2 * Slow
=============================================================================
