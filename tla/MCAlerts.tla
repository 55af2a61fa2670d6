----------------------------- MODULE MCAlerts -----------------------------
(* A finite instance of Alerts: one user with two accounts that hold the   *)
(* same symbol, another with one that holds it too and another that was    *)
(* sold, histories on both sides of the average daily range, and changes   *)
(* below, at and above the threshold.                                      *)
EXTENDS Alerts

CONSTANTS u1, u2, i1, i2

MCRows ==
    << [user |-> u1, inst |-> i1, open |-> TRUE],
       [user |-> u1, inst |-> i1, open |-> TRUE],
       [user |-> u2, inst |-> i1, open |-> TRUE],
       [user |-> u2, inst |-> i2, open |-> FALSE] >>
MCHistories == {<<5, 1, 1>>, <<4, 2, 2>>, <<3, 0, 0>>, <<9, 1>>}
MCEarningsIn == [i \in Instruments |-> IF i = i1 THEN 5 ELSE 6]
MCSeries == <<"DFF">>
MCMoves == {-11, 10, 9}
=============================================================================
