----------------------------- MODULE KillSwitch -----------------------------
(***************************************************************************)
(* The kill switch of one user: POST and DELETE /api/safety/kill-switch    *)
(* (backend/app/api/safety.py) over KillSwitchService                      *)
(* (backend/app/safety/kill_switch.py). The flag is a Redis key; the trail *)
(* is audit_log, in a transaction that the handler opened when it read the *)
(* user, before the flip, and commits after it.                            *)
(***************************************************************************)
EXTENDS Sequences, SequencesExt

CONSTANTS
    Handlers,      \* concurrent handlers of the two routes
    HandlersFail   \* can a handler die, or an await in it raise?

VARIABLES
    switch,   \* Redis: does safety:kill_switch:{user} exist?
    newest,   \* Postgres: what the newest safety.kill_switch_* row says; the
              \* row of a user who never touched the switch says FALSE
    newer,    \* the open transactions that began after that row's, oldest
              \* first: occurred_at is now(), the start of the transaction
    toggle    \* what each handler has in hand

switchVars == <<switch, newest, newer, toggle>>

InitSwitch ==
    /\ switch = FALSE /\ newest = FALSE /\ newer = <<>>
    /\ toggle = [h \in Handlers |-> [pc |-> "idle", on |-> FALSE]]

(* The dependencies run: get_current_user reads the user.                  *)
Open(h) ==
    /\ toggle[h].pc = "idle"
    /\ \E on \in BOOLEAN : toggle' = [toggle EXCEPT ![h] = [pc |-> "flip", on |-> on]]
    /\ newer' = Append(newer, h)
    /\ UNCHANGED <<switch, newest>>

(* SET or DELETE.                                                          *)
Flip(h) ==
    /\ toggle[h].pc = "flip"
    /\ switch' = toggle[h].on
    /\ toggle' = [toggle EXCEPT ![h].pc = "commit"]
    /\ UNCHANGED <<newest, newer>>

(* The INSERT and the COMMIT. The row is the newest one, unless another    *)
(* that is stamped later has been committed.                               *)
Record(h) ==
    /\ toggle[h].pc = "commit"
    /\ IF Contains(newer, h)
       THEN /\ newest' = toggle[h].on
            /\ newer' = SubSeq(newer, 1 + CHOOSE i \in DOMAIN newer : newer[i] = h,
                               Len(newer))
       ELSE UNCHANGED <<newest, newer>>
    /\ toggle' = [toggle EXCEPT ![h] = [pc |-> "idle", on |-> FALSE]]
    /\ UNCHANGED switch

(* The handler dies or raises: the transaction is rolled back, the flip is *)
(* not.                                                                    *)
Fail(h) ==
    /\ HandlersFail /\ toggle[h].pc # "idle"
    /\ newer' = SelectSeq(newer, LAMBDA u : u # h)
    /\ toggle' = [toggle EXCEPT ![h] = [pc |-> "idle", on |-> FALSE]]
    /\ UNCHANGED <<switch, newest>>

Toggle == \E h \in Handlers : Open(h) \/ Flip(h) \/ Record(h) \/ Fail(h)

-----------------------------------------------------------------------------
SwitchTypeOK ==
    /\ switch \in BOOLEAN /\ newest \in BOOLEAN
    /\ newer \in Seq(Handlers)
    /\ toggle \in [Handlers -> [pc : {"idle", "flip", "commit"}, on : BOOLEAN]]

(* "Activation is also audit-logged so the flip can be traced after the    *)
(* fact": with no toggle under way, the newest row of the trail, the one   *)
(* GET /status lists first, says what the switch is.                       *)
TrailTellsTheSwitch ==
    (\A h \in Handlers : toggle[h].pc = "idle") => newest = switch
=============================================================================
