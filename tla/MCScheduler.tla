---------------------------- MODULE MCScheduler ----------------------------
(* Finite instances of Scheduler: two exchanges, one of which closes while  *)
(* the other is open and has a recalculation and a sync due.               *)
EXTENDS Scheduler

CONSTANTS w1, w2

MCExchanges == <<"XNYS", "XNAS">>
MCSessions ==
    {[mic |-> "XNYS", date |-> 0, open |-> 2, close |-> 3],
     [mic |-> "XNAS", date |-> 0, open |-> 1, close |-> 2]}

OneExchange == <<"XNYS">>
OneSession == {[mic |-> "XNYS", date |-> 0, open |-> 2, close |-> 3]}

(* The include list of celery_app.py.                                       *)
CeleryInclude ==
    {"tasks.in_session", "tasks.post_close", "tasks.always",
     "tasks.calendar_verify", "tasks.ai_analysis"}
WithScheduler == CeleryInclude \union {"scheduling.scheduler"}
=============================================================================
