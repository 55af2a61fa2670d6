----------------------- MODULE SafetyGuardian_proofs -----------------------
(* Theorems about SafetyGuardian, for any number of callers and of handlers *)
(* of the kill switch, any orders, window and latency.                      *)
EXTENDS SafetyGuardian, TLAPS

-----------------------------------------------------------------------------
(* Types. The trail of the kill switch is left out: what an order is told   *)
(* does not depend on it.                                                   *)

GuardTypes ==
    /\ switch \in BOOLEAN
    /\ toggle \in [Handlers -> [pc : {"idle", "flip", "commit"}, on : BOOLEAN]]
    /\ recent \in [Forms -> 0 .. Absent] /\ ttl \in 0 .. 2 * Window
    /\ claimed \in [Forms -> 0 .. OldAge]
    /\ call \in [Callers -> CallState]

(* What a call knows at each of its steps.                                  *)
CallsKnow ==
    \A c \in Callers :
        /\ call[c].won => call[c].pc \in {"expire", "answered"}
        /\ call[c].pc # "answered" => call[c].answer = "allowed"
        /\ At(c, "switch") /\ ~switch => call[c].sawOff
        /\ call[c].pc \in {"limits", "duplicate", "claim", "expire"} => call[c].sawOff

Pending(c) == At(c, "expire") /\ call[c].won
Settled(f) == \A c \in Callers : Pending(c) => call[c].form # f

(* The scores and the time to live tell when the orders were claimed.       *)
ScoresTell ==
    /\ \A f \in Forms : recent[f] = Absent => claimed[f] >= Window - Latency
    /\ \A f \in Key : recent[f] <= claimed[f] + Latency
    /\ \A f \in Key : Settled(f) => ttl + claimed[f] >= 2 * Window \/ claimed[f] = OldAge
    /\ Key = {} => ttl = 0

PendingTell ==
    ~CallsFail =>
        /\ \A f \in Key : claimed[f] <= recent[f]
        /\ \A c \in Callers, f \in Key :
            At(c, "claim") => recent[f] < Window + call[c].age
        /\ ttl # 0 /\ (\E c \in Callers : Pending(c)) =>
            \E c \in Callers : Pending(c) /\ ttl > Window - call[c].age

-----------------------------------------------------------------------------
(* Type correctness.                                                        *)

(* The order of the checks, one by one. *)
LEMMA ThenValues ==
  /\ Then("submit") = "switch" /\ Then("switch") = "limits"
  /\ Then("limits") = "duplicate" /\ Then("duplicate") = "answered"
  BY DEF Then

(* A limit either refuses an order or lets it pass. *)
LEMMA LimitsValues ==
  ASSUME NEW p PROVE Limits(p) \in Refusals \union {"allowed"}
  BY DEF Limits, Refusals

(* The fields of what a call has in hand, one by one.                       *)
LEMMA CallFields ==
  ASSUME NEW q \in CallState
  PROVE  /\ q.pc \in Checks \union {"idle", "claim", "expire", "answered"}
         /\ q.form \in Forms /\ q.order \in Proposals /\ q.age \in 0 .. Latency
         /\ q.won \in BOOLEAN /\ q.sawOff \in BOOLEAN
         /\ q.answer \in Refusals \union {"allowed"}
  BY DEF CallState

(* A refusal answers a call, and changes nothing else of it. *)
LEMMA RefusedType ==
  ASSUME NEW q \in CallState, NEW code \in Refusals
  PROVE  /\ Refused(q, code) \in CallState
         /\ Refused(q, code).pc = "answered" /\ Refused(q, code).answer = code
         /\ Refused(q, code).won = q.won
  BY DEF Refused, CallState

(* A caller that has made no call has nothing in hand, and that has its type. *)
LEMMA NoCallType ==
  ASSUME NEW f \in Forms, NEW p \in Proposals
  PROVE  /\ NoCall \in CallState /\ NoCall.pc = "idle" /\ ~NoCall.won
         /\ NoCall.answer = "allowed" /\ ~NoCall.sawOff
  <1>1. (CHOOSE g \in Forms : TRUE) \in Forms /\ (CHOOSE q \in Proposals : TRUE) \in Proposals
    OBVIOUS
  <1>2. 0 \in 0 .. Latency
    BY GuardianAssumption
  <1> QED BY <1>1, <1>2 DEF NoCall, CallState, Checks

(* A step of a call's own, and what the call gets in hand.                 *)
CallStep(c, q) ==
    \/ /\ Submit(c) /\ q.pc = "switch" /\ ~q.won /\ q.answer = "allowed"
       /\ q.sawOff = ~switch
    \/ /\ CheckSwitch(c) /\ switch /\ q.pc = "answered" /\ q.won = call[c].won
       /\ q.answer \in Refusals
    \/ /\ CheckSwitch(c) /\ ~switch /\ q.pc = "limits" /\ q.won = call[c].won
       /\ q.answer = call[c].answer /\ q.sawOff = call[c].sawOff
    \/ /\ CheckLimits(c) /\ q.pc = "answered" /\ q.won = call[c].won
       /\ q.answer \in Refusals
    \/ /\ CheckLimits(c) /\ q.pc = "duplicate" /\ q.won = call[c].won
       /\ q.answer = call[c].answer /\ q.sawOff = call[c].sawOff
    \/ /\ Trim(c) /\ q.pc = "claim" /\ q.won = call[c].won /\ q.age = call[c].age
       /\ q.answer = call[c].answer /\ q.sawOff = call[c].sawOff
    \/ /\ Claim(c) /\ q.pc = "expire" /\ q.form = call[c].form
       /\ q.won = (recent[q.form] = Absent) /\ q.age = call[c].age
       /\ q.answer = call[c].answer /\ q.sawOff = call[c].sawOff
    \/ /\ Expire(c) /\ q.pc = "answered" /\ q.won /\ call[c].won
       /\ q.answer = call[c].answer /\ q.sawOff = call[c].sawOff
    \/ /\ Expire(c) /\ q.pc = "answered" /\ ~q.won /\ q.answer \in Refusals
    \/ /\ Return(c) \/ CallFails(c)
       /\ q.pc = "idle" /\ ~q.won /\ q.answer = "allowed" /\ ~q.sawOff

(* Every step of a call leaves it in one of the cases above. *)
LEMMA CallSteps ==
  ASSUME GuardTypes, NEW c \in Callers,
         Validate(c) \/ CallFails(c)
  PROVE  \E q \in CallState :
            call' = [call EXCEPT ![c] = q] /\ CallStep(c, q)
  <1> USE ThenValues DEF CallStep
  <1>0. call[c] \in CallState /\ call[c].form \in Forms /\ call[c].order \in Proposals
    BY CallFields DEF GuardTypes
  <1>00. NoCall \in CallState /\ NoCall.pc = "idle" /\ ~NoCall.won
         /\ NoCall.answer = "allowed" /\ ~NoCall.sawOff
    BY <1>0, NoCallType
  <1>000. switch \in BOOLEAN
    BY DEF GuardTypes
  <1>1. CASE Submit(c)
    <2> PICK f \in Forms, p \in Proposals :
          call' = [call EXCEPT ![c] =
                    [NoCall EXCEPT !.pc = Then("submit"), !.form = f, !.order = p,
                                   !.sawOff = ~switch]]
      BY <1>1 DEF Submit
    <2> DEFINE q == [NoCall EXCEPT !.pc = Then("submit"), !.form = f, !.order = p,
                                   !.sawOff = ~switch]
    <2>1. /\ q \in CallState /\ q.pc = "switch" /\ ~q.won /\ q.answer = "allowed"
          /\ q.sawOff = ~switch
      BY <1>00, <1>000 DEF CallState, Checks
    <2> QED BY <2>1, <1>1
  <1>2. CASE CheckSwitch(c) /\ switch
    <2> DEFINE q == Refused(call[c], "kill_switch_active")
    <2>1. call' = [call EXCEPT ![c] = q]
      BY <1>2 DEF CheckSwitch
    <2>2. /\ q \in CallState /\ q.pc = "answered" /\ q.answer \in Refusals
          /\ q.won = call[c].won
      BY <1>0, RefusedType DEF Refusals
    <2> QED BY <1>2, <2>1, <2>2
  <1>3. CASE CheckSwitch(c) /\ ~switch
    <2> DEFINE q == [call[c] EXCEPT !.pc = "limits"]
    <2>1. call' = [call EXCEPT ![c] = q]
      BY <1>3 DEF CheckSwitch
    <2>2. /\ q \in CallState /\ q.pc = "limits" /\ q.answer = call[c].answer
          /\ q.won = call[c].won /\ q.sawOff = call[c].sawOff
      BY <1>0 DEF CallState, Checks
    <2> QED BY <1>3, <2>1, <2>2
  <1>4. CASE CheckLimits(c) /\ Limits(call[c].order) # "allowed"
    <2> DEFINE q == Refused(call[c], Limits(call[c].order))
    <2>1. call' = [call EXCEPT ![c] = q]
      BY <1>4 DEF CheckLimits
    <2>2. Limits(call[c].order) \in Refusals
      BY <1>4, LimitsValues
    <2>3. /\ q \in CallState /\ q.pc = "answered" /\ q.answer \in Refusals
          /\ q.won = call[c].won
      BY <1>0, <2>2, RefusedType
    <2> QED BY <1>4, <2>1, <2>3
  <1>5. CASE CheckLimits(c) /\ Limits(call[c].order) = "allowed"
    <2> DEFINE q == [call[c] EXCEPT !.pc = "duplicate"]
    <2>1. call' = [call EXCEPT ![c] = q]
      BY <1>5 DEF CheckLimits
    <2>2. /\ q \in CallState /\ q.pc = "duplicate" /\ q.answer = call[c].answer
          /\ q.won = call[c].won /\ q.sawOff = call[c].sawOff
      BY <1>0 DEF CallState, Checks
    <2> QED BY <1>5, <2>1, <2>2
  <1>6. CASE Trim(c)
    <2> DEFINE q == [call[c] EXCEPT !.pc = "claim"]
    <2>1. call' = [call EXCEPT ![c] = q]
      BY <1>6 DEF Trim
    <2>2. /\ q \in CallState /\ q.pc = "claim" /\ q.answer = call[c].answer
          /\ q.won = call[c].won /\ q.sawOff = call[c].sawOff /\ q.age = call[c].age
      BY <1>0 DEF CallState
    <2> QED BY <1>6, <2>1, <2>2
  <1>7. CASE Claim(c)
    <2> DEFINE q == [call[c] EXCEPT !.pc = "expire", !.won = (recent[call[c].form] = Absent)]
    <2>1. call' = [call EXCEPT ![c] = q]
      BY <1>7 DEF Claim
    <2>2. /\ q \in CallState /\ q.pc = "expire" /\ q.answer = call[c].answer
          /\ q.form = call[c].form /\ q.won = (recent[call[c].form] = Absent)
          /\ q.sawOff = call[c].sawOff /\ q.age = call[c].age
      BY <1>0 DEF CallState
    <2> QED BY <1>7, <2>1, <2>2
  <1>8. CASE Expire(c) /\ call[c].won
    <2> DEFINE q == [call[c] EXCEPT !.pc = "answered", !.age = 0]
    <2>1. call' = [call EXCEPT ![c] = q]
      BY <1>8 DEF Expire
    <2>2. 0 \in 0 .. Latency
      BY GuardianAssumption
    <2>3. /\ q \in CallState /\ q.pc = "answered" /\ q.answer = call[c].answer
          /\ q.won /\ q.sawOff = call[c].sawOff
      BY <1>0, <1>8, <2>2 DEF CallState
    <2> QED BY <1>8, <2>1, <2>3
  <1>9. CASE Expire(c) /\ ~call[c].won
    <2> DEFINE h == [call[c] EXCEPT !.age = 0]
               q == Refused(h, "duplicate_order")
    <2>1. call' = [call EXCEPT ![c] = q]
      BY <1>9 DEF Expire
    <2>2. 0 \in 0 .. Latency
      BY GuardianAssumption
    <2>3. h \in CallState /\ ~h.won
      BY <1>0, <1>9, <2>2 DEF CallState
    <2>4. "duplicate_order" \in Refusals
      BY DEF Refusals
    <2> HIDE DEF h
    <2>5. q \in CallState /\ q.pc = "answered" /\ ~q.won /\ q.answer \in Refusals
      BY <2>3, <2>4, RefusedType
    <2> QED BY <1>9, <2>1, <2>5
  <1>10. CASE Return(c) \/ CallFails(c)
    BY <1>10, <1>00 DEF Return, CallFails
  <1> QED
    BY <1>1, <1>2, <1>3, <1>4, <1>5, <1>6, <1>7, <1>8, <1>9, <1>10 DEF Validate

(* The steps of the kill switch, and of time.                               *)
LEMMA ToggleTypes ==
  ASSUME GuardTypes, Toggle
  PROVE  /\ switch' \in BOOLEAN
         /\ toggle' \in [Handlers -> [pc : {"idle", "flip", "commit"}, on : BOOLEAN]]
  <1> PICK h \in Handlers : Open(h) \/ Flip(h) \/ Record(h) \/ Fail(h)
    BY DEF Toggle
  <1>1. /\ switch \in BOOLEAN
        /\ toggle \in [Handlers -> [pc : {"idle", "flip", "commit"}, on : BOOLEAN]]
        /\ toggle[h] \in [pc : {"idle", "flip", "commit"}, on : BOOLEAN]
    BY DEF GuardTypes
  <1>2. CASE Open(h)
    BY <1>1, <1>2 DEF Open
  <1>3. CASE Flip(h)
    BY <1>1, <1>3 DEF Flip
  <1>4. CASE Record(h)
    BY <1>1, <1>4 DEF Record
  <1>5. CASE Fail(h)
    BY <1>1, <1>5 DEF Fail
  <1> QED BY <1>2, <1>3, <1>4, <1>5

(* A flip of the switch touches no call but its memory of having seen it off. *)
LEMMA SwitchMovesCalls ==
  ASSUME GuardTypes, SwitchMoves, NEW c \in Callers
  PROVE  /\ call' \in [Callers -> CallState]
         /\ call'[c].pc = call[c].pc /\ call'[c].form = call[c].form
         /\ call'[c].age = call[c].age /\ call'[c].won = call[c].won
         /\ call'[c].answer = call[c].answer
         /\ call'[c].sawOff =
                IF At(c, "idle") THEN call[c].sawOff ELSE call[c].sawOff \/ ~switch'
  <1>1. switch' \in BOOLEAN
    BY ToggleTypes DEF SwitchMoves
  <1>2. call' = [d \in Callers |-> IF At(d, "idle") THEN call[d]
                                  ELSE [call[d] EXCEPT !.sawOff = @ \/ ~switch']]
    BY DEF SwitchMoves
  <1>3. ASSUME NEW d \in Callers
        PROVE  /\ [call[d] EXCEPT !.sawOff = @ \/ ~switch'] \in CallState
               /\ call[d] \in CallState
    BY <1>1 DEF GuardTypes, CallState
  <1> QED BY <1>2, <1>3 DEF At, CallState

(* Time only makes the calls older. *)
LEMMA TickCalls ==
  ASSUME GuardTypes, Tick, NEW c \in Callers
  PROVE  /\ call' \in [Callers -> CallState]
         /\ call'[c].pc = call[c].pc /\ call'[c].form = call[c].form
         /\ call'[c].won = call[c].won /\ call'[c].sawOff = call[c].sawOff
         /\ call'[c].answer = call[c].answer
         /\ call'[c].age = IF Dated(c) THEN call[c].age + 1 ELSE call[c].age
  <1>1. call' = [d \in Callers |->
                    IF Dated(d) THEN [call[d] EXCEPT !.age = @ + 1] ELSE call[d]]
    BY DEF Tick
  <1>2. ASSUME NEW d \in Callers, Dated(d)
        PROVE  [call[d] EXCEPT !.age = @ + 1] \in CallState
    <2>1. call[d] \in CallState /\ call[d].age \in 0 .. Latency /\ call[d].age < Latency
      BY <1>2, CallFields DEF GuardTypes, Tick
    <2>2. call[d].age + 1 \in 0 .. Latency
      BY <2>1, GuardianAssumption
    <2> QED BY <2>1, <2>2 DEF CallState
  <1>3. \A d \in Callers : call[d] \in CallState
    BY DEF GuardTypes
  <1> QED BY <1>1, <1>2, <1>3 DEF CallState

(* At the start every variable has its type ... *)
LEMMA GuardTypesInit == Init => GuardTypes
  <1> SUFFICES ASSUME Init PROVE GuardTypes
    OBVIOUS
  <1>1. NoCall \in CallState
    BY GuardianAssumption, NoCallType
  <1>2. Absent \in 0 .. Absent /\ OldAge \in 0 .. OldAge /\ 0 \in 0 .. 2 * Window
    BY GuardianAssumption DEF Absent, OldAge
  <1> QED BY <1>1, <1>2 DEF Init, InitSwitch, GuardTypes

(* ... and every check, flip of the switch, failure and tick keeps it so. *)
LEMMA GuardTypesStep == GuardTypes /\ [Next]_vars => GuardTypes'
  <1> SUFFICES ASSUME GuardTypes, [Next]_vars PROVE GuardTypes'
    OBVIOUS
  <1>1. CASE UNCHANGED vars
    BY <1>1 DEF vars, switchVars, GuardTypes
  <1>2. ASSUME NEW c \in Callers, Validate(c) \/ CallFails(c) PROVE GuardTypes'
    <2>1. call' \in [Callers -> CallState]
      <3>1. PICK q \in CallState : call' = [call EXCEPT ![c] = q]
        BY <1>2, CallSteps
      <3> QED BY <3>1 DEF GuardTypes
    <2>2. UNCHANGED switchVars
      BY <1>2 DEF Validate, Submit, CheckSwitch, CheckLimits, Trim, Claim, Expire, Return,
                  CallFails
    <2>3. call[c].age \in 0 .. Latency /\ call[c].form \in Forms
      BY CallFields DEF GuardTypes
    <2>4. recent' \in [Forms -> 0 .. Absent] /\ ttl' \in 0 .. 2 * Window
          /\ claimed' \in [Forms -> 0 .. OldAge]
      <3>1. /\ Window \in Nat /\ Latency \in Nat /\ OldAge \in 0 .. OldAge
            /\ 0 \in 0 .. OldAge /\ 0 \in 0 .. 2 * Window /\ 2 * Window \in 0 .. 2 * Window
            /\ Absent \in 0 .. Absent /\ call[c].age \in 0 .. Absent
        BY <2>3, GuardianAssumption DEF Absent, OldAge
      <3>2. CASE Trim(c)
        BY <3>1, <3>2 DEF Trim, GuardTypes
      <3>3. CASE Claim(c)
        BY <3>1, <3>3 DEF Claim, GuardTypes
      <3>4. CASE Expire(c)
        BY <3>1, <3>4 DEF Expire, GuardTypes
      <3>5. CASE CallFails(c)
        BY <3>1, <3>5 DEF CallFails, GuardTypes
      <3>6. CASE UNCHANGED <<recent, ttl, claimed>>
        BY <3>6 DEF GuardTypes
      <3> QED
        BY <1>2, <3>2, <3>3, <3>4, <3>5, <3>6
           DEF Validate, Submit, CheckSwitch, CheckLimits, Return
    <2> QED BY <2>1, <2>2, <2>4 DEF switchVars, GuardTypes
  <1>3. CASE SwitchMoves
    <2>1. call' \in [Callers -> CallState]
      <3>1. call' = [d \in Callers |-> call'[d]]
        BY <1>3 DEF SwitchMoves
      <3>2. ASSUME NEW d \in Callers PROVE call'[d] \in CallState
        BY <1>3, SwitchMovesCalls
      <3> QED BY <3>1, <3>2
    <2> QED BY <1>3, <2>1, ToggleTypes DEF SwitchMoves, GuardTypes
  <1>4. CASE Tick
    <2>1. call' \in [Callers -> CallState]
      <3>1. call' = [d \in Callers |-> call'[d]]
        BY <1>4 DEF Tick
      <3>2. ASSUME NEW d \in Callers PROVE call'[d] \in CallState
        BY <1>4, TickCalls
      <3> QED BY <3>1, <3>2
    <2>2. recent' \in [Forms -> 0 .. Absent] /\ ttl' \in 0 .. 2 * Window
          /\ claimed' \in [Forms -> 0 .. OldAge]
      BY <1>4, GuardianAssumption DEF Tick, GuardTypes, Absent, OldAge
    <2> QED BY <1>4, <2>1, <2>2 DEF Tick, switchVars, GuardTypes
  <1> QED BY <1>1, <1>2, <1>3, <1>4 DEF Next

(* The type invariant: whatever calls run, fail and overlap, the switch, the sorted *)
(* set of SafetyGuardian and every call have the shape the code gives them.         *)
THEOREM TypesCorrect == Spec => []GuardTypes
  BY GuardTypesInit, GuardTypesStep, PTL DEF Spec

-----------------------------------------------------------------------------
(* What a call is told.                                                     *)

(* At the start no call has been answered ... *)
LEMMA CallsKnowInit ==
  Init => CallsKnow /\ RejectedOrdersClaimNothing /\ KillSwitchBlocks
  <1> SUFFICES ASSUME Init, NEW c \in Callers
               PROVE  call[c].pc = "idle" /\ ~call[c].won /\ call[c].answer = "allowed"
    BY DEF CallsKnow, RejectedOrdersClaimNothing, KillSwitchBlocks, At, Refusals
  <1> QED BY GuardianAssumption, NoCallType DEF Init

(* ... and every step keeps true what an answered call knows. *)
LEMMA CallsKnowStep ==
  ASSUME GuardTypes, CallsKnow, RejectedOrdersClaimNothing, KillSwitchBlocks, [Next]_vars
  PROVE  CallsKnow' /\ RejectedOrdersClaimNothing' /\ KillSwitchBlocks'
  <1> USE DEF CallsKnow, RejectedOrdersClaimNothing, KillSwitchBlocks, At, Refusals
  <1>1. CASE UNCHANGED vars
    BY <1>1 DEF vars, switchVars
  <1>2. ASSUME NEW c \in Callers, Validate(c) \/ CallFails(c)
        PROVE  CallsKnow' /\ RejectedOrdersClaimNothing' /\ KillSwitchBlocks'
    <2>1. switch' = switch
      BY <1>2 DEF Validate, Submit, CheckSwitch, CheckLimits, Trim, Claim, Expire, Return,
                  CallFails, switchVars
    <2>2. /\ call'[c].won => call'[c].pc \in {"expire", "answered"}
          /\ call'[c].pc # "answered" => call'[c].answer = "allowed"
          /\ call'[c].pc = "switch" /\ ~switch => call'[c].sawOff
          /\ call'[c].pc \in {"limits", "duplicate", "claim", "expire"} => call'[c].sawOff
          /\ call'[c].answer \in Refusals => ~call'[c].won
          /\ call'[c].pc = "answered" /\ call'[c].answer = "allowed" => call'[c].sawOff
      <3> PICK q \in CallState : call' = [call EXCEPT ![c] = q] /\ CallStep(c, q)
        BY <1>2, CallSteps
      <3>1. call'[c] = q
        BY DEF GuardTypes
      <3> QED BY <3>1 DEF CallStep, CheckSwitch, CheckLimits, Trim, Claim, Expire
    <2>3. \A d \in Callers \ {c} : call'[d] = call[d]
      BY <1>2, CallSteps DEF GuardTypes
    <2> QED BY <2>1, <2>2, <2>3
  <1>3. CASE SwitchMoves
    BY <1>3, SwitchMovesCalls
  <1>4. CASE Tick
    <2>1. switch' = switch
      BY <1>4 DEF Tick, switchVars
    <2> QED BY <1>4, <2>1, TickCalls
  <1> QED BY <1>1, <1>2, <1>3, <1>4 DEF Next

(* Hence it is true always. *)
LEMMA CallsKnowAlways ==
  Spec => [](CallsKnow /\ RejectedOrdersClaimNothing /\ KillSwitchBlocks)
  <1> DEFINE Inv == CallsKnow /\ RejectedOrdersClaimNothing /\ KillSwitchBlocks
  <1>1. Init => Inv
    BY CallsKnowInit
  <1>2. GuardTypes /\ Inv /\ [Next]_vars => Inv'
    BY CallsKnowStep
  <1> QED BY <1>1, <1>2, TypesCorrect, PTL DEF Spec

(* "Running it after the read-only checks avoids claiming a slot we'd then  *)
(* immediately reject for another reason": an order that is refused has     *)
(* claimed nothing, whatever the other calls and the switch do.             *)
THEOREM RefusedOrdersClaimNothing == Spec => []RejectedOrdersClaimNothing
  BY CallsKnowAlways, PTL

(* "if active, all automation is blocked": no call is told to go ahead that *)
(* found the switch on all the time it ran.                                 *)
THEOREM SwitchBlocks == Spec => []KillSwitchBlocks
  BY CallsKnowAlways, PTL

-----------------------------------------------------------------------------
(* The rolling window. A call has to be done with the sorted set before the *)
(* window it read has passed, and if its claim is one that a failure may    *)
(* leave without a time to live, then within the unit of time.              *)

Prompt == Latency < Window /\ (CallsFail => Latency = 0)

(* What the proofs below use of the types, as numbers. *)
LEMMA Ranges ==
  ASSUME GuardTypes
  PROVE  /\ Window \in Nat /\ Latency \in Nat /\ Window > 0
         /\ OldAge = Window + Latency /\ Absent = Window + Latency + 1
         /\ ttl \in Nat
         /\ \A f \in Forms : /\ recent[f] \in Nat /\ recent[f] <= Absent
                             /\ claimed[f] \in Nat /\ claimed[f] <= OldAge
         /\ \A c \in Callers : /\ call[c].age \in Nat /\ call[c].age <= Latency
                               /\ call[c].form \in Forms
  BY GuardianAssumption, CallFields DEF GuardTypes, OldAge, Absent

(* At the start the sorted set is empty and nothing was submitted. *)
LEMMA ScoresInit == GuardTypes /\ Init => ScoresTell /\ PendingTell
  <1> SUFFICES ASSUME GuardTypes, Init PROVE ScoresTell /\ PendingTell
    OBVIOUS
  <1>1. Key = {} /\ ttl = 0 /\ \A f \in Forms : claimed[f] = OldAge
    BY DEF Init, Key
  <1> QED BY <1>1, Ranges DEF ScoresTell, PendingTell

(* What the steps of the other checks leave as it is.                       *)
LEMMA ScoresFrame ==
  ASSUME ScoresTell, PendingTell, UNCHANGED <<recent, ttl, claimed>>,
         \A c \in Callers :
            /\ At(c, "claim")' => At(c, "claim") /\ call'[c].age = call[c].age
            /\ Pending(c)' <=> Pending(c)
            /\ Pending(c) => call'[c].form = call[c].form /\ call'[c].age = call[c].age
  PROVE  ScoresTell' /\ PendingTell'
  <1>1. Key' = Key
    BY DEF Key
  <1>2. \A f \in Forms : Settled(f)' <=> Settled(f)
    BY DEF Settled
  <1>3. ScoresTell'
    BY <1>1, <1>2 DEF ScoresTell, Key
  <1>4. PendingTell'
    BY <1>1 DEF PendingTell
  <1> QED BY <1>3, <1>4

(* ZREMRANGEBYSCORE takes out only what the window has passed. *)
LEMMA TrimScores ==
  ASSUME GuardTypes, Prompt, ScoresTell, PendingTell, NEW c \in Callers, Trim(c)
  PROVE  ScoresTell' /\ PendingTell'
  <1>1. call[c] \in CallState
    BY DEF GuardTypes
  <1>2. /\ call'[c].pc = "claim" /\ call'[c].age = call[c].age
        /\ \A d \in Callers \ {c} : call'[d] = call[d]
    BY <1>1 DEF GuardTypes, Trim, CallState
  <1>3. /\ \A f \in Forms : recent'[f] = IF recent[f] >= Window + call[c].age
                                       THEN Absent ELSE recent[f]
        /\ claimed' = claimed /\ ttl' = IF Key' = {} THEN 0 ELSE ttl
    BY DEF Trim, Key
  <1>4. \A d \in Callers : /\ Pending(d)' <=> Pending(d)
                           /\ Pending(d) => call'[d] = call[d]
    BY <1>2 DEF Pending, At, Trim
  <1>5. \A f \in Key' : f \in Key /\ recent'[f] = recent[f] /\ (Settled(f)' <=> Settled(f))
    BY <1>3, <1>4 DEF Key, Settled
  <1>6. ScoresTell'
    <2>1. ASSUME NEW f \in Forms, recent'[f] = Absent PROVE claimed[f] >= Window - Latency
      BY <1>3, <2>1, Ranges DEF ScoresTell, Key
    <2> QED BY <1>3, <1>5, <2>1 DEF ScoresTell
  <1>7. PendingTell'
    <2> SUFFICES ASSUME ~CallsFail PROVE PendingTell'
      BY DEF PendingTell
    <2>1. \A f \in Key' : claimed'[f] <= recent'[f]
      BY <1>3, <1>5 DEF PendingTell
    <2>2. ASSUME NEW d \in Callers, NEW f \in Key', At(d, "claim")'
          PROVE  recent'[f] < Window + call'[d].age
      <3>1. CASE d = c
        BY <3>1, <1>2, <1>3, Ranges DEF Key
      <3>2. CASE d # c
        BY <3>2, <2>2, <1>2, <1>5 DEF PendingTell, At
      <3> QED BY <3>1, <3>2
    <2>3. ASSUME ttl' # 0, NEW d \in Callers, Pending(d)'
          PROVE  \E e \in Callers : Pending(e)' /\ ttl' > Window - call'[e].age
      <3>1. ttl' = ttl
        BY <2>3, <1>3
      <3>2. PICK e \in Callers : Pending(e) /\ ttl > Window - call[e].age
        BY <2>3, <3>1, <1>4 DEF PendingTell
      <3> QED BY <3>1, <3>2, <1>4
    <2> QED BY <2>1, <2>2, <2>3 DEF PendingTell
  <1> QED BY <1>6, <1>7

(* A ZADD NX that adds a member is the first in its window. *)
LEMMA ClaimScores ==
  ASSUME GuardTypes, Prompt, ScoresTell, PendingTell, NEW c \in Callers, Claim(c)
  PROVE  ScoresTell' /\ PendingTell'
  <1>0. PICK g \in Forms : g = call[c].form
    BY CallFields DEF GuardTypes
  <1>1. call[c] \in CallState /\ g \in Forms /\ call[c].age \in 0 .. Latency /\ At(c, "claim")
    BY CallFields DEF GuardTypes, Claim
  <1>2. /\ call'[c].pc = "expire" /\ call'[c].age = call[c].age /\ call'[c].form = g
        /\ call'[c].won = (recent[g] = Absent)
        /\ \A d \in Callers \ {c} : call'[d] = call[d]
    BY <1>0, <1>1 DEF GuardTypes, Claim, CallState
  <1>3. /\ ttl' = ttl
        /\ \A f \in Forms \ {g} : recent'[f] = recent[f] /\ claimed'[f] = claimed[f]
        /\ IF recent[g] = Absent THEN recent'[g] = call[c].age /\ claimed'[g] = 0
           ELSE recent'[g] = recent[g] /\ claimed'[g] = claimed[g]
    BY <1>0, <1>1 DEF Claim, GuardTypes
  <1>4. \A d \in Callers \ {c} : Pending(d)' <=> Pending(d)
    BY <1>2 DEF Pending, At
  <1>5. (Pending(c)' <=> recent[g] = Absent) /\ ~Pending(c)
    BY <1>1, <1>2 DEF Pending, At
  <1>6. \A f \in Forms : f # g \/ recent[g] # Absent => (Settled(f)' <=> Settled(f))
    BY <1>2, <1>4, <1>5 DEF Settled
  <1>7. recent[g] = Absent => ~Settled(g)'
    BY <1>2, <1>5 DEF Settled
  <1>8. \A f \in Forms : f \in Key' <=> f \in Key \/ f = g
    BY <1>1, <1>3, Ranges DEF Key
  <1>9. ScoresTell'
    <2>1. ASSUME NEW f \in Forms, recent'[f] = Absent PROVE claimed'[f] >= Window - Latency
      BY <2>1, <1>3, <1>1, Ranges DEF ScoresTell
    <2>2. ASSUME NEW f \in Key' PROVE recent'[f] <= claimed'[f] + Latency
      BY <2>2, <1>1, <1>3, <1>8, Ranges DEF ScoresTell, Key
    <2>3. ASSUME NEW f \in Key', Settled(f)'
          PROVE  ttl' + claimed'[f] >= 2 * Window \/ claimed'[f] = OldAge
      <3>1. f \in Forms /\ (f # g \/ recent[g] # Absent)
        BY <2>3, <1>7 DEF Key
      <3>2. f \in Key /\ Settled(f) /\ claimed'[f] = claimed[f]
        BY <2>3, <3>1, <1>1, <1>3, <1>6, <1>8 DEF Key
      <3> QED BY <3>2, <1>3 DEF ScoresTell
    <2>4. Key' # {}
      BY <1>1, <1>8 DEF Key
    <2> QED BY <2>1, <2>2, <2>3, <2>4 DEF ScoresTell
  <1>10. PendingTell'
    <2> SUFFICES ASSUME ~CallsFail PROVE PendingTell'
      BY DEF PendingTell
    <2>1. ASSUME NEW f \in Key' PROVE claimed'[f] <= recent'[f]
      BY <2>1, <1>1, <1>3, <1>8, Ranges DEF PendingTell, Key
    <2>2. ASSUME NEW d \in Callers, NEW f \in Key', At(d, "claim")'
          PROVE  recent'[f] < Window + call'[d].age
      <3>1. d # c /\ At(d, "claim") /\ call'[d] = call[d]
        BY <2>2, <1>2 DEF At
      <3>2. CASE f # g \/ recent[g] # Absent
        BY <3>1, <3>2, <1>3, <1>8 DEF PendingTell, Key
      <3>3. CASE f = g /\ recent[g] = Absent
        BY <3>1, <3>3, <1>1, <1>3, Ranges DEF Prompt
      <3> QED BY <3>2, <3>3
    <2>3. ASSUME ttl' # 0, NEW d \in Callers, Pending(d)'
          PROVE  \E e \in Callers : Pending(e)' /\ ttl' > Window - call'[e].age
      <3>1. CASE \E e \in Callers : Pending(e)
        <4>1. PICK e \in Callers : Pending(e) /\ ttl > Window - call[e].age
          BY <2>3, <3>1, <1>3 DEF PendingTell
        <4> QED BY <4>1, <1>2, <1>3, <1>4, <1>5
      <3>2. CASE ~\E e \in Callers : Pending(e)
        <4>1. d = c /\ Pending(c)'
          BY <2>3, <3>2, <1>4
        <4>2. PICK f \in Key : f \in Forms /\ Settled(f)
          BY <2>3, <3>2, <1>3 DEF ScoresTell, Settled, Key
        <4>3. ttl + claimed[f] >= 2 * Window \/ claimed[f] = OldAge
          BY <4>2 DEF ScoresTell
        <4>4. claimed[f] <= recent[f] /\ recent[f] < Window + call[c].age
          BY <4>2, <1>1 DEF PendingTell
        <4>5. ttl > Window - call[c].age
          BY <4>2, <4>3, <4>4, Ranges
        <4> QED BY <4>1, <4>5, <1>2, <1>3
      <3> QED BY <3>1, <3>2
    <2> QED BY <2>1, <2>2, <2>3 DEF PendingTell
  <1> QED BY <1>9, <1>10

(* EXPIRE gives the sorted set a whole window more. *)
LEMMA ExpireScores ==
  ASSUME GuardTypes, Prompt, ScoresTell, PendingTell, NEW c \in Callers, Expire(c)
  PROVE  ScoresTell' /\ PendingTell'
  <1>1. call[c] \in CallState /\ 0 \in 0 .. Latency
    BY GuardianAssumption DEF GuardTypes
  <1>2. call'[c].pc = "answered" /\ \A d \in Callers \ {c} : call'[d] = call[d]
    BY <1>1, ThenValues DEF GuardTypes, Expire, CallState, Refused
  <1>3. /\ recent' = recent /\ claimed' = claimed /\ Key' = Key
        /\ ttl' = IF Key = {} THEN 0 ELSE 2 * Window
    BY DEF Expire, Key
  <1>4. ScoresTell'
    BY <1>3, Ranges DEF ScoresTell, Key
  <1>5. PendingTell'
    <2> SUFFICES ASSUME ~CallsFail PROVE PendingTell'
      BY DEF PendingTell
    <2>1. ASSUME NEW d \in Callers, NEW f \in Key', At(d, "claim")'
          PROVE  recent'[f] < Window + call'[d].age
      BY <2>1, <1>2, <1>3 DEF PendingTell, At
    <2>2. ASSUME ttl' # 0, NEW d \in Callers, Pending(d)'
          PROVE  ttl' > Window - call'[d].age
      <3>1. call'[d] = call[d]
        BY <2>2, <1>2 DEF Pending, At
      <3> QED BY <2>2, <3>1, <1>3, Ranges
    <2> QED BY <2>1, <2>2, <1>3 DEF PendingTell
  <1> QED BY <1>4, <1>5

(* A call that fails leaves the sorted set as it is. *)
LEMMA FailScores ==
  ASSUME GuardTypes, Prompt, ScoresTell, PendingTell, NEW c \in Callers, CallFails(c)
  PROVE  ScoresTell' /\ PendingTell'
  <1> DEFINE g == call[c].form
  <1>1. CallsFail /\ g \in Forms
    BY CallFields DEF CallFails, GuardTypes
  <1>2. recent' = recent /\ ttl' = ttl /\ Key' = Key
    BY DEF CallFails, Key
  <1>3. \A f \in Forms : claimed'[f] = claimed[f] \/ claimed'[f] = OldAge
    BY DEF CallFails, GuardTypes
  <1>4. call[c].won => claimed'[g] = OldAge
    BY <1>1 DEF CallFails, GuardTypes
  <1>5. \A d \in Callers \ {c} : call'[d] = call[d]
    BY DEF CallFails, GuardTypes
  <1>6. \A f \in Forms : Settled(f)' => Settled(f) \/ claimed'[f] = OldAge
    BY <1>4, <1>5 DEF Settled, Pending, At
  <1>7. ScoresTell'
    <2>1. ASSUME NEW f \in Forms, recent'[f] = Absent PROVE claimed'[f] >= Window - Latency
      BY <2>1, <1>2, <1>3, Ranges DEF ScoresTell
    <2>2. ASSUME NEW f \in Key' PROVE recent'[f] <= claimed'[f] + Latency
      BY <2>2, <1>2, <1>3, Ranges DEF ScoresTell, Key
    <2>3. ASSUME NEW f \in Key', Settled(f)'
          PROVE  ttl' + claimed'[f] >= 2 * Window \/ claimed'[f] = OldAge
      BY <2>3, <1>2, <1>3, <1>6 DEF ScoresTell, Key
    <2> QED BY <2>1, <2>2, <2>3, <1>2 DEF ScoresTell
  <1> QED BY <1>1, <1>7 DEF PendingTell

(* As time passes, a score leaves the window only with its submission. *)
LEMMA TickScores ==
  ASSUME GuardTypes, Prompt, ScoresTell, PendingTell, Tick
  PROVE  ScoresTell' /\ PendingTell'
  <1>1. \A c \in Callers :
          /\ At(c, "claim")' <=> At(c, "claim")
          /\ Pending(c)' <=> Pending(c)
          /\ call'[c].form = call[c].form
          /\ At(c, "claim") \/ Pending(c) => call'[c].age = call[c].age + 1
    BY TickCalls DEF At, Pending, Dated
  <1>2. /\ \A f \in Forms : recent'[f] = IF ttl = 1 THEN Absent
                              ELSE IF recent[f] < OldAge THEN recent[f] + 1 ELSE recent[f]
        /\ \A f \in Forms : claimed'[f] = IF claimed[f] < OldAge THEN claimed[f] + 1 ELSE OldAge
        /\ ttl' = IF ttl = 0 THEN 0 ELSE ttl - 1
    BY DEF Tick
  <1>3. \A f \in Forms : Settled(f)' <=> Settled(f)
    BY <1>1 DEF Settled
  <1>4. \A f \in Key' : f \in Key /\ f \in Forms /\ ttl # 1
    BY <1>2, Ranges DEF Key
  <1>5. ASSUME NEW c \in Callers, Pending(c) \/ At(c, "claim")
        PROVE  call[c].age < Latency /\ ~CallsFail
    BY <1>5, Ranges DEF Tick, Prompt, Pending, At, Dated
  <1>6. ASSUME ttl = 1, NEW c \in Callers PROVE ~Pending(c)
    <2> SUFFICES ASSUME Pending(c) PROVE FALSE
      OBVIOUS
    <2>1. ~CallsFail
      BY <1>5
    <2>2. PICK d \in Callers : Pending(d) /\ ttl > Window - call[d].age
      BY <1>6, <2>1 DEF PendingTell
    <2>3. call[d].age < Latency
      BY <2>2, <1>5
    <2> QED BY <1>6, <2>2, <2>3, Ranges DEF Prompt
  <1>7. ScoresTell'
    <2>1. ASSUME NEW f \in Forms, recent'[f] = Absent PROVE claimed'[f] >= Window - Latency
      <3>1. CASE recent[f] = Absent
        BY <3>1, <1>2, Ranges DEF ScoresTell
      <3>2. CASE recent[f] # Absent
        <4>1. ttl = 1 /\ f \in Key
          BY <2>1, <3>2, <1>2, Ranges DEF Key
        <4>2. Settled(f)
          BY <4>1, <1>6 DEF Settled
        <4>3. ttl + claimed[f] >= 2 * Window \/ claimed[f] = OldAge
          BY <4>1, <4>2 DEF ScoresTell
        <4> QED BY <4>1, <4>3, <1>2, Ranges
      <3> QED BY <3>1, <3>2
    <2>2. ASSUME NEW f \in Key' PROVE recent'[f] <= claimed'[f] + Latency
      BY <1>2, <1>4, Ranges DEF ScoresTell, Key
    <2>3. ASSUME NEW f \in Key', Settled(f)'
          PROVE  ttl' + claimed'[f] >= 2 * Window \/ claimed'[f] = OldAge
      <3>1. ttl + claimed[f] >= 2 * Window \/ claimed[f] = OldAge
        BY <2>3, <1>3, <1>4 DEF ScoresTell
      <3> QED BY <3>1, <1>2, <1>4, Ranges
    <2>4. Key' = {} => ttl' = 0
      <3>1. CASE ttl = 0 \/ ttl = 1
        BY <3>1, <1>2
      <3>2. CASE ttl # 0 /\ ttl # 1
        <4>1. PICK f \in Forms : recent[f] # Absent
          BY <3>2 DEF ScoresTell, Key
        <4>2. recent'[f] # Absent
          BY <4>1, <3>2, <1>2, Ranges
        <4> QED BY <4>2 DEF Key
      <3> QED BY <3>1, <3>2
    <2> QED BY <2>1, <2>2, <2>3, <2>4 DEF ScoresTell
  <1>8. PendingTell'
    <2> SUFFICES ASSUME ~CallsFail PROVE PendingTell'
      BY DEF PendingTell
    <2>1. ASSUME NEW f \in Key' PROVE claimed'[f] <= recent'[f]
      <3>1. claimed[f] <= recent[f] /\ recent[f] # Absent /\ f \in Forms /\ ttl # 1
        BY <1>4 DEF PendingTell, Key
      <3> QED BY <3>1, <1>2, Ranges
    <2>2. ASSUME NEW c \in Callers, NEW f \in Key', At(c, "claim")'
          PROVE  recent'[f] < Window + call'[c].age
      <3>1. At(c, "claim") /\ call'[c].age = call[c].age + 1
        BY <2>2, <1>1
      <3>2. recent[f] < Window + call[c].age /\ f \in Forms /\ ttl # 1
        BY <3>1, <1>4 DEF PendingTell
      <3> QED BY <3>1, <3>2, <1>2, Ranges
    <2>3. ASSUME ttl' # 0, NEW c \in Callers, Pending(c)'
          PROVE  \E d \in Callers : Pending(d)' /\ ttl' > Window - call'[d].age
      <3>1. ttl # 0 /\ ttl' = ttl - 1 /\ Pending(c)
        BY <2>3, <1>1, <1>2
      <3>2. PICK d \in Callers : Pending(d) /\ ttl > Window - call[d].age
        BY <3>1 DEF PendingTell
      <3>3. Pending(d)' /\ call'[d].age = call[d].age + 1
        BY <3>2, <1>1
      <3> QED BY <3>1, <3>2, <3>3, Ranges
    <2> QED BY <2>1, <2>2, <2>3 DEF PendingTell
  <1> QED BY <1>7, <1>8

(* The steps of the calls, of the switch and of time together. *)
LEMMA ScoresStep ==
  ASSUME GuardTypes, GuardTypes', Prompt, ScoresTell, PendingTell, [Next]_vars
  PROVE  ScoresTell' /\ PendingTell'
  <1>1. CASE UNCHANGED vars
    BY <1>1, ScoresFrame DEF vars, switchVars, At, Pending
  <1>2. ASSUME NEW c \in Callers,
               Submit(c) \/ CheckSwitch(c) \/ CheckLimits(c) \/ Return(c)
        PROVE  ScoresTell' /\ PendingTell'
    <2>1. PICK q \in CallState : call' = [call EXCEPT ![c] = q] /\ CallStep(c, q)
      BY <1>2, CallSteps DEF Validate
    <2>2. call'[c] = q /\ \A d \in Callers \ {c} : call'[d] = call[d]
      BY <2>1 DEF GuardTypes
    <2>3. /\ call[c].pc \notin {"claim", "expire"} /\ q.pc \notin {"claim", "expire"}
          /\ UNCHANGED <<recent, ttl, claimed>>
      BY <1>2, <2>1, ThenValues
         DEF CallStep, Submit, CheckSwitch, CheckLimits, Return, Trim, Claim, Expire,
             CallFails, At
    <2> QED BY <2>2, <2>3, ScoresFrame DEF At, Pending
  <1>3. CASE SwitchMoves
    BY <1>3, SwitchMovesCalls, ScoresFrame DEF SwitchMoves, At, Pending
  <1> QED
    BY <1>1, <1>2, <1>3, TrimScores, ClaimScores, ExpireScores, FailScores, TickScores
       DEF Next, Validate

(* "The same (symbol, side, qty) triple cannot be submitted twice inside a  *)
(* short rolling window": if every triple is written in one way, between    *)
(* two claims of it there is a window, short of the time that a call may    *)
(* take from its clock to its ZADD.                                         *)
THEOREM NoDuplicateSubmitted ==
  ASSUME Prompt, \A f, h \in Forms : TripleOf[f] = TripleOf[h] => f = h
  PROVE  Spec => NoDuplicateInWindow
  <1> DEFINE Inv == GuardTypes /\ ScoresTell /\ PendingTell
             Step == \A c \in Callers : Claim(c) /\ call'[c].won =>
                        \A f \in Forms : TripleOf[f] = TripleOf[call[c].form] =>
                            claimed[f] >= Window - Latency
  <1>1. Init => Inv
    BY GuardTypesInit, ScoresInit
  <1>2. Inv /\ [Next]_vars => Inv'
    BY GuardTypesStep, ScoresStep
  <1>3. Inv => Step
    <2> SUFFICES ASSUME Inv, NEW c \in Callers, Claim(c), call'[c].won,
                        NEW f \in Forms, TripleOf[f] = TripleOf[call[c].form]
                 PROVE  claimed[f] >= Window - Latency
      OBVIOUS
    <2>1. call[c] \in CallState /\ call[c].form \in Forms
      BY CallFields DEF GuardTypes
    <2>2. f = call[c].form
      BY <2>1
    <2>3. recent[f] = Absent
      BY <2>1, <2>2 DEF Claim, GuardTypes, CallState
    <2> QED BY <2>3 DEF ScoresTell
  <1>4. Inv /\ [Next]_vars => [Step]_vars
    BY <1>3
  <1>5. Spec => [][Step]_vars
    BY <1>1, <1>2, <1>4, PTL DEF Spec
  <1> QED BY <1>5 DEF NoDuplicateInWindow
=============================================================================
