---------------------------- MODULE SplitLedger ----------------------------
(***************************************************************************)
(* What CorporateActionsService promises of the database: a split is       *)
(* recorded, and is then applied as a whole or not at all. Whoever looks   *)
(* sees the bars of its window multiplied and the row marked, or neither.  *)
(***************************************************************************)
EXTENDS Naturals

CONSTANTS Splits, Days,
          Window(_)   \* the days whose bars a split rescales

VARIABLES row,    \* corporate_actions: is the split recorded, is it applied?
          times   \* price_history: how often a split has multiplied a bar

Init ==
    /\ row = [s \in Splits |-> "none"]
    /\ times = [s \in Splits |-> [d \in Days |-> 0]]

Record(s) ==
    /\ row[s] = "none"
    /\ row' = [row EXCEPT ![s] = "recorded"]
    /\ times' = times

Apply(s) ==
    /\ row[s] # "none"
    /\ row' = [row EXCEPT ![s] = "applied"]
    /\ times' = [times EXCEPT ![s] =
                    [d \in Days |-> IF d \in Window(s) THEN @[d] + 1 ELSE @[d]]]

Next == \E s \in Splits : Record(s) \/ Apply(s)

Spec == Init /\ [][Next]_<<row, times>>
=============================================================================
