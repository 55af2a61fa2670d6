--------------------------- MODULE SafetyGuardian ---------------------------
(***************************************************************************)
(* SafetyGuardian.validate_action (backend/app/safety/guardian.py) of one  *)
(* user, together with the kill switch it consults: the checks in their    *)
(* order, and the sorted set of recent orders, which is trimmed, claimed   *)
(* and given its time to live in separate round trips.                     *)
(*                                                                         *)
(* Time is kept as ages, as in RateLimiter: of the scores in the sorted    *)
(* set, of the clock that a call has read, of the claims that succeeded.   *)
(***************************************************************************)
EXTENDS KillSwitch, Naturals, FiniteSets

CONSTANTS
    Callers,    \* calls of validate_action under way at once
    Forms,      \* the members "{symbol}|{side}|{qty}" of the sorted set
    TripleOf,   \* the (symbol, side, quantity) a member writes: one quantity
                \* has several, 1 and 1.0 are the same Decimal
    Proposals,  \* [proposed, portfolio, startOfDay, peak]: amounts
    Window,     \* window_seconds
    Latency,    \* how old a call's reading of the clock may get
    CallsFail   \* can a call die, or a command raise, half way?

ASSUME GuardianAssumption ==
    /\ Window \in Nat \ {0} /\ Latency \in Nat
    /\ Forms # {} /\ Forms \subseteq DOMAIN TripleOf /\ Proposals # {}
    /\ \A p \in Proposals :
        {p.proposed, p.portfolio, p.startOfDay, p.peak} \subseteq Nat

(* A score this old is trimmed by every call.                              *)
OldAge == Window + Latency
Absent == OldAge + 1

VARIABLES
    recent,   \* Redis: the age of each member's score, or Absent
    ttl,      \* Redis: what is left of the key's time to live, 0 for none
    claimed,  \* history: how long ago each member was last claimed by a call
              \* that did not fail
    call      \* what each caller has in hand

vars == <<switchVars, recent, ttl, claimed, call>>

Refusals == {"kill_switch_active", "position_size_exceeded",
             "daily_loss_exceeded", "max_drawdown_exceeded", "duplicate_order"}
Checks == {"switch", "limits", "duplicate"}

CallState ==
    [pc     : Checks \union {"idle", "claim", "expire", "answered"},
     form   : Forms,
     order  : Proposals,
     age    : 0 .. Latency,   \* of now
     won    : BOOLEAN,        \* added == 1
     sawOff : BOOLEAN,        \* history: the switch was off during the call
     answer : Refusals \union {"allowed"}]

NoCall ==
    [pc |-> "idle", form |-> CHOOSE f \in Forms : TRUE,
     order |-> CHOOSE p \in Proposals : TRUE, age |-> 0, won |-> FALSE,
     sawOff |-> FALSE, answer |-> "allowed"]

Key == {f \in Forms : recent[f] # Absent}
At(c, s) == call[c].pc = s

-----------------------------------------------------------------------------
(* The limits, in per cent: 10 of the portfolio for a position, 2 for a    *)
(* day's loss, 10 below the peak.                                          *)

PositionTooLarge(p) == p.portfolio = 0 \/ 100 * p.proposed > 10 * p.portfolio

(* loss over base has reached pct; a base of 0 or a gain never has.        *)
Reached(now, base, pct) == base > now /\ 100 * (base - now) >= pct * base

(* Mutant of Limits: a code that CODE_POSITION_SIZE does not spell.        *)
LimitsMisspelt(p) == IF PositionTooLarge(p) THEN "position_size" ELSE "allowed"

(* The first of the three checks to refuse, "allowed" if none does.        *)
Limits(p) ==
    CASE PositionTooLarge(p)                   -> "position_size_exceeded"
      [] ~PositionTooLarge(p) /\ Reached(p.portfolio, p.startOfDay, 2)
                                               -> "daily_loss_exceeded"
      [] ~PositionTooLarge(p) /\ ~Reached(p.portfolio, p.startOfDay, 2)
            /\ Reached(p.portfolio, p.peak, 10) -> "max_drawdown_exceeded"
      [] OTHER                                 -> "allowed"

(* Mutant of Then: the duplicate check first.                              *)
ThenDuplicatesFirst(check) ==
    CASE check = "submit"    -> "duplicate"
      [] check = "duplicate" -> "switch"
      [] check = "switch"    -> "limits"
      [] check = "limits"    -> "answered"

(* The order of the checks: what follows one that does not refuse.         *)
Then(check) ==
    CASE check = "submit"    -> "switch"
      [] check = "switch"    -> "limits"
      [] check = "limits"    -> "duplicate"
      [] check = "duplicate" -> "answered"

Refused(q, code) == [q EXCEPT !.pc = "answered", !.answer = code]

-----------------------------------------------------------------------------
Init ==
    /\ InitSwitch
    /\ recent = [f \in Forms |-> Absent]
    /\ ttl = 0
    /\ claimed = [f \in Forms |-> OldAge]
    /\ call = [c \in Callers |-> NoCall]

Submit(c) ==
    /\ At(c, "idle")
    /\ \E f \in Forms, p \in Proposals :
        call' = [call EXCEPT ![c] =
                    [NoCall EXCEPT !.pc = Then("submit"), !.form = f, !.order = p,
                                   !.sawOff = ~switch]]
    /\ UNCHANGED <<switchVars, recent, ttl, claimed>>

(* Mutant of CheckSwitch: no kill_switch is handed in.                     *)
CheckNoSwitch(c) ==
    /\ At(c, "switch")
    /\ call' = [call EXCEPT ![c].pc = Then("switch")]
    /\ UNCHANGED <<switchVars, recent, ttl, claimed>>

(* is_active: one GET.                                                     *)
CheckSwitch(c) ==
    /\ At(c, "switch")
    /\ call' = [call EXCEPT ![c] =
                    IF switch THEN Refused(@, "kill_switch_active")
                    ELSE [@ EXCEPT !.pc = Then("switch")]]
    /\ UNCHANGED <<switchVars, recent, ttl, claimed>>

(* The three checks on amounts; the clock of the duplicate check is read   *)
(* when they have passed.                                                  *)
CheckLimits(c) ==
    LET verdict == Limits(call[c].order) IN
    /\ At(c, "limits")
    /\ call' = [call EXCEPT ![c] =
                    IF verdict # "allowed" THEN Refused(@, verdict)
                    ELSE [@ EXCEPT !.pc = Then("limits")]]
    /\ UNCHANGED <<switchVars, recent, ttl, claimed>>

(* ZREMRANGEBYSCORE -inf cutoff. A key without members is gone.            *)
Trim(c) ==
    /\ At(c, "duplicate")
    /\ recent' = [f \in Forms |->
                    IF recent[f] >= Window + call[c].age THEN Absent ELSE recent[f]]
    /\ ttl' = IF \A f \in Forms : recent'[f] = Absent THEN 0 ELSE ttl
    /\ call' = [call EXCEPT ![c].pc = "claim"]
    /\ UNCHANGED <<switchVars, claimed>>

(* Mutant of Claim: a plain ZADD, taken for a success.                     *)
ClaimWithoutNX(c) ==
    LET f == call[c].form IN
    /\ At(c, "claim")
    /\ recent' = [recent EXCEPT ![f] = call[c].age]
    /\ claimed' = [claimed EXCEPT ![f] = 0]
    /\ call' = [call EXCEPT ![c].pc = "expire", ![c].won = TRUE]
    /\ UNCHANGED <<switchVars, ttl>>

(* ZADD NX.                                                                *)
Claim(c) ==
    LET f == call[c].form  free == recent[f] = Absent IN
    /\ At(c, "claim")
    /\ recent' = IF free THEN [recent EXCEPT ![f] = call[c].age] ELSE recent
    /\ claimed' = IF free THEN [claimed EXCEPT ![f] = 0] ELSE claimed
    /\ call' = [call EXCEPT ![c].pc = "expire", ![c].won = free]
    /\ UNCHANGED <<switchVars, ttl>>

(* EXPIRE of two windows. A call that has not won reports the duplicate    *)
(* (the ZSCORE it reads for that changes nothing).                         *)
Expire(c) ==
    /\ At(c, "expire")
    /\ ttl' = IF Key = {} THEN 0 ELSE 2 * Window
    /\ call' = [call EXCEPT ![c] =
                    IF @.won THEN [@ EXCEPT !.pc = Then("duplicate"), !.age = 0]
                    ELSE Refused([@ EXCEPT !.age = 0], "duplicate_order")]
    /\ UNCHANGED <<switchVars, recent, claimed>>

Return(c) ==
    /\ At(c, "answered")
    /\ call' = [call EXCEPT ![c] = NoCall]
    /\ UNCHANGED <<switchVars, recent, ttl, claimed>>

(* The call dies or raises: nobody is told to go ahead, and a claim stays. *)
CallFails(c) ==
    /\ CallsFail /\ ~At(c, "idle") /\ ~At(c, "answered")
    /\ call' = [call EXCEPT ![c] = NoCall]
    /\ claimed' = IF call[c].won THEN [claimed EXCEPT ![call[c].form] = OldAge]
                  ELSE claimed
    /\ UNCHANGED <<switchVars, recent, ttl>>

(* The kill switch is toggled next to it.                                  *)
SwitchMoves ==
    /\ Toggle
    /\ call' = [c \in Callers |-> IF At(c, "idle") THEN call[c]
                                  ELSE [call[c] EXCEPT !.sawOff = @ \/ ~switch']]
    /\ UNCHANGED <<recent, ttl, claimed>>

Dated(c) == call[c].pc \in {"duplicate", "claim", "expire"}

Tick ==
    /\ \A c \in Callers : Dated(c) => call[c].age < Latency
    /\ recent' = [f \in Forms |->
                    IF ttl = 1 THEN Absent
                    ELSE IF recent[f] < OldAge THEN recent[f] + 1 ELSE recent[f]]
    /\ ttl' = IF ttl = 0 THEN 0 ELSE ttl - 1
    /\ claimed' = [f \in Forms |-> IF claimed[f] < OldAge THEN claimed[f] + 1 ELSE OldAge]
    /\ call' = [c \in Callers |->
                    IF Dated(c) THEN [call[c] EXCEPT !.age = @ + 1] ELSE call[c]]
    /\ UNCHANGED switchVars

Validate(c) ==
    \/ Submit(c) \/ CheckSwitch(c) \/ CheckLimits(c)
    \/ Trim(c) \/ Claim(c) \/ Expire(c) \/ Return(c)

Next ==
    \/ \E c \in Callers : Validate(c) \/ CallFails(c)
    \/ SwitchMoves
    \/ Tick

Spec == Init /\ [][Next]_vars

-----------------------------------------------------------------------------
(* The switch and its trail, the sorted set of idempotency.py and every call have *)
(* the shape the code gives them; an answer is one of SafetyGuardian's codes.     *)
TypeOK ==
    /\ SwitchTypeOK
    /\ recent \in [Forms -> 0 .. Absent] /\ ttl \in 0 .. 2 * Window
    /\ claimed \in [Forms -> 0 .. OldAge]
    /\ call \in [Callers -> CallState]

(* "The same (symbol, side, qty) triple cannot be submitted twice inside a *)
(* short rolling window": between two claims of one triple there is a      *)
(* window, short of the time a call may take from its clock to its ZADD.   *)
NoDuplicateInWindow ==
    [][\A c \in Callers : Claim(c) /\ call'[c].won =>
        \A f \in Forms : TripleOf[f] = TripleOf[call[c].form] =>
            claimed[f] >= Window - Latency]_vars

(* "Running it after the read-only checks avoids claiming a slot we'd then *)
(* immediately reject for another reason".                                 *)
RejectedOrdersClaimNothing ==
    \A c \in Callers :
        call[c].answer \in Refusals => ~call[c].won

(* "if active, all automation is blocked": an order is only allowed when   *)
(* the switch has been off at some time since it was submitted.            *)
KillSwitchBlocks ==
    \A c \in Callers : At(c, "answered") /\ call[c].answer = "allowed" => call[c].sawOff
=============================================================================
