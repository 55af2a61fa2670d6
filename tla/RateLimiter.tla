---------------------------- MODULE RateLimiter ----------------------------
(***************************************************************************)
(* GlobalRateLimiter.acquire (backend/app/brokers/rate_limiter.py): a      *)
(* sliding window kept in one Redis sorted set that every worker of every  *)
(* process shares. The commands of one acquire() are separate round trips. *)
(*                                                                         *)
(* Time is discrete and never wraps, because nothing is kept but ages: how *)
(* long ago a score was stamped, a clock was read, a call began. Ages that *)
(* no command can tell apart any more are kept equal (OldAge).             *)
(***************************************************************************)
EXTENDS Naturals, FiniteSets, Functions

CONSTANTS
    Workers,   \* coroutines that call acquire(), in any process
    MaxRequests,   \* max_requests
    Window,    \* window_seconds
    Ttl,       \* _expire_s: what EXPIRE sets
    MaxWait,   \* max_wait_seconds
    Latency,   \* how old the reading of the clock may get within one attempt
    Crashes    \* can a worker die, or a command raise, in mid-call?

ASSUME LimiterAssumption ==
    /\ MaxRequests \in Nat \ {0} /\ Window \in Nat \ {0}
    /\ Ttl \in Nat /\ Ttl > 2 * Window
    /\ MaxWait \in Nat /\ Latency \in Nat /\ Crashes \in BOOLEAN

(* A score of this age is out of the window of every attempt.              *)
OldAge == Window + Latency
Ages == 0 .. OldAge

VARIABLES
    zset,     \* Redis: how many members have a score of each age
    ttl,      \* Redis: what is left of the key's time to live, 0 for none
    call,     \* what each worker has in hand
    granted,  \* history: the stamps ZADD was given, by age, while a window holds them
    whole     \* history: no call has ended between its ZADD and its EXPIRE

limiterVars == <<zset, ttl, call, granted, whole>>

CallState ==
    [pc      : {"idle", "trim", "card", "add", "expire", "oldest", "sleep"},
     age     : 0 .. Latency,      \* of now_ms
     elapsed : 0 .. MaxWait + 1,  \* since start; more than MaxWait is one value
     wait    : 0 .. OldAge]       \* what is left of asyncio.sleep

NoCall == [pc |-> "idle", age |-> 0, elapsed |-> 0, wait |-> 0]

Members(bag) == SumFunction(bag)
NoMembers == [a \in Ages |-> 0]
Stamped(bag, age) == [bag EXCEPT ![age] = @ + 1]

(* One unit of time later.                                                 *)
Aged(bag) ==
    [a \in Ages |-> IF a = 0 THEN 0
                    ELSE bag[a - 1] + IF a = OldAge THEN bag[a] ELSE 0]

At(w, s) == call[w].pc = s
Running(w) == call[w].pc \notin {"idle", "sleep"}

InitLimiter ==
    /\ zset = NoMembers /\ ttl = 0
    /\ call = [w \in Workers |-> NoCall]
    /\ granted = NoMembers
    /\ whole = TRUE

(* acquire() is called and reads its clocks.                               *)
Acquire(w) ==
    /\ At(w, "idle")
    /\ call' = [call EXCEPT ![w] = [NoCall EXCEPT !.pc = "trim"]]
    /\ UNCHANGED <<zset, ttl, granted, whole>>

(* Mutant of Trim: the cutoff is half a window too late.                   *)
TrimTooMuch(w) ==
    LET kept == [a \in Ages |-> IF 2 * a >= Window + 2 * call[w].age THEN 0 ELSE zset[a]] IN
    /\ At(w, "trim")
    /\ zset' = kept
    /\ ttl' = IF Members(kept) = 0 THEN 0 ELSE ttl
    /\ call' = [call EXCEPT ![w].pc = "card"]
    /\ UNCHANGED <<granted, whole>>

(* ZREMRANGEBYSCORE 0 cutoff: scores a window or more older than now_ms. A *)
(* sorted set without members is no key, and has no time to live.          *)
Trim(w) ==
    LET kept == [a \in Ages |-> IF a >= Window + call[w].age THEN 0 ELSE zset[a]] IN
    /\ At(w, "trim")
    /\ zset' = kept
    /\ ttl' = IF Members(kept) = 0 THEN 0 ELSE ttl
    /\ call' = [call EXCEPT ![w].pc = "card"]
    /\ UNCHANGED <<granted, whole>>

(* Mutant of Card: one more is let in.                                     *)
CardAdmittingOneMore(w) ==
    /\ At(w, "card")
    /\ call' = [call EXCEPT ![w].pc = IF Members(zset) <= MaxRequests THEN "add" ELSE "oldest"]
    /\ UNCHANGED <<zset, ttl, granted, whole>>

(* ZCARD.                                                                  *)
Card(w) ==
    /\ At(w, "card")
    /\ call' = [call EXCEPT ![w].pc = IF Members(zset) < MaxRequests THEN "add" ELSE "oldest"]
    /\ UNCHANGED <<zset, ttl, granted, whole>>

(* ZADD, with the time that was read before ZREMRANGEBYSCORE.              *)
Add(w) ==
    /\ At(w, "add")
    /\ zset' = Stamped(zset, call[w].age)
    /\ granted' = Stamped(granted, call[w].age)
    /\ call' = [call EXCEPT ![w].pc = "expire"]
    /\ UNCHANGED <<ttl, whole>>

(* Mutants of Expire: seconds taken for milliseconds; EXPIRE ... NX.       *)
ExpireInMilliseconds(w) ==
    /\ At(w, "expire")
    /\ ttl' = IF Members(zset) = 0 THEN 0 ELSE 1000 * Ttl
    /\ call' = [call EXCEPT ![w] = NoCall]
    /\ UNCHANGED <<zset, granted, whole>>

ExpireOnce(w) ==
    /\ At(w, "expire")
    /\ ttl' = IF Members(zset) = 0 THEN 0 ELSE IF ttl = 0 THEN Ttl ELSE ttl
    /\ call' = [call EXCEPT ![w] = NoCall]
    /\ UNCHANGED <<zset, granted, whole>>

(* EXPIRE, and acquire() returns.                                          *)
Expire(w) ==
    /\ At(w, "expire")
    /\ ttl' = IF Members(zset) = 0 THEN 0 ELSE Ttl
    /\ call' = [call EXCEPT ![w] = NoCall]
    /\ UNCHANGED <<zset, granted, whole>>

(* Until the oldest score leaves the window; at least the 5 ms floor.      *)
SleepFor(w) ==
    LET oldest == CHOOSE a \in Ages : zset[a] > 0 /\ \A b \in Ages : zset[b] > 0 => b <= a
        until  == Window + call[w].age
    IN  IF oldest < until THEN until - oldest ELSE 1

(* Mutant of Oldest: each wait is held against the cap, not their sum.     *)
OldestForgettingTheTime(w) ==
    /\ At(w, "oldest")
    /\ call' = [call EXCEPT ![w] =
            IF Members(zset) = 0 THEN [@ EXCEPT !.pc = "trim", !.age = 0]
            ELSE IF SleepFor(w) > MaxWait THEN NoCall
            ELSE [@ EXCEPT !.pc = "sleep", !.age = 0, !.wait = SleepFor(w)]]
    /\ UNCHANGED <<zset, ttl, granted, whole>>

(* ZRANGE 0 0: the set may be empty by now, and then the attempt starts    *)
(* over at once. A sleep that would outlast the cap raises RATE_LIMITED.   *)
Oldest(w) ==
    /\ At(w, "oldest")
    /\ call' = [call EXCEPT ![w] =
            IF Members(zset) = 0 THEN [@ EXCEPT !.pc = "trim", !.age = 0]
            ELSE IF @.elapsed + SleepFor(w) > MaxWait THEN NoCall
            ELSE [@ EXCEPT !.pc = "sleep", !.age = 0, !.wait = SleepFor(w)]]
    /\ UNCHANGED <<zset, ttl, granted, whole>>

(* The sleep is over; the next attempt reads the clock.                    *)
Wake(w) ==
    /\ At(w, "sleep") /\ call[w].wait = 0
    /\ call' = [call EXCEPT ![w].pc = "trim"]
    /\ UNCHANGED <<zset, ttl, granted, whole>>

(* The worker dies, or the command raises and acquire() with it.           *)
Crash(w) ==
    /\ Crashes /\ ~At(w, "idle")
    /\ call' = [call EXCEPT ![w] = NoCall]
    /\ whole' = (whole /\ ~At(w, "expire"))
    /\ UNCHANGED <<zset, ttl, granted>>

(* One unit of time. No attempt lasts longer than Latency, and a sleep is  *)
(* not overslept.                                                          *)
Tick ==
    /\ \A w \in Workers :
        /\ Running(w) => call[w].age < Latency
        /\ At(w, "sleep") => call[w].wait > 0
    /\ granted' = [Aged(granted) EXCEPT ![OldAge] = 0]
    /\ zset' = IF ttl = 1 THEN NoMembers ELSE Aged(zset)
    /\ ttl' = IF ttl = 0 THEN 0 ELSE ttl - 1
    /\ call' = [w \in Workers |->
            IF At(w, "idle") THEN call[w]
            ELSE [call[w] EXCEPT
                    !.age = IF Running(w) THEN @ + 1 ELSE @,
                    !.elapsed = IF @ > MaxWait THEN @ ELSE @ + 1,
                    !.wait = IF At(w, "sleep") THEN @ - 1 ELSE @]]
    /\ UNCHANGED whole

Attempt(w) ==
    Trim(w) \/ Card(w) \/ Add(w) \/ Expire(w) \/ Oldest(w) \/ Wake(w)

LimiterNext ==
    \/ \E w \in Workers : Acquire(w) \/ Attempt(w) \/ Crash(w)
    \/ Tick

LimiterSpec == InitLimiter /\ [][LimiterNext]_limiterVars

(* Coroutines keep running and the clock does not stop.                    *)
FairLimiterSpec ==
    /\ LimiterSpec
    /\ WF_limiterVars(Tick)
    /\ \A w \in Workers : WF_limiterVars(Attempt(w))

-----------------------------------------------------------------------------
(* The sorted set counts its members by age, never below zero, and the key's time *)
(* to live is at most the one rate_limiter.py sets.                               *)
LimiterTypeOK ==
    /\ zset \in [Ages -> Nat] /\ granted \in [Ages -> Nat]
    /\ ttl \in 0 .. Ttl /\ whole \in BOOLEAN
    /\ call \in [Workers -> CallState]

(* The stamps of the window that ends with the stamps of age a.            *)
InWindow(a) ==
    SumFunctionOnSet(granted, {b \in Ages : a <= b /\ b < a + Window})

(* In the worst case, every worker but one may be past ZCARD when the last   *)
(* slot is taken; and as attempts take time, their late stamps may also fall *)
(* into a window whose overshoot has been trimmed already.                   *)
Overshoot == 2 * (Cardinality(Workers) - 1)

(* "Maximum admitted requests per rolling window_seconds", and what the       *)
(* separate round trips of _acquire_once leave of it: a rolling window never  *)
(* holds more than MaxRequests stamps and the overshoot, and exactly          *)
(* MaxRequests when one worker is alone.                                      *)
OvershootIsBounded ==
    whole => \A a \in 0 .. Latency : InWindow(a) <= MaxRequests + Overshoot

(* "idle buckets expire on their own": the key never expires while it has  *)
(* a member that an attempt would still count, unless a call has ended     *)
(* before it could extend the key's life.                                  *)
OnlyIdleBucketsExpire ==
    [][Tick /\ ttl = 1 /\ whole => \A a \in Ages : zset[a] > 0 => a + 1 >= Window]_limiterVars

(* "Total wait is capped at max_wait_seconds".                             *)
WaitIsCapped ==
    \A w \in Workers : At(w, "sleep") => call[w].elapsed + call[w].wait <= MaxWait

(* Every acquire() returns or raises.                                      *)
AcquireEnds == \A w \in Workers : ~At(w, "idle") ~> At(w, "idle")
=============================================================================
