-------------------------- MODULE MCSafetyGuardian --------------------------
(* Finite instances of SafetyGuardian: one proposal for each way the limits *)
(* may decide, and two members that mean different triples.                 *)
EXTENDS SafetyGuardian

CONSTANTS f1, f2

Order(proposed, portfolio, startOfDay, peak) ==
    [proposed |-> proposed, portfolio |-> portfolio,
     startOfDay |-> startOfDay, peak |-> peak]

MCProposals ==
    {Order(10, 100, 100, 100),   \* at the limit of a position
     Order(0, 0, 0, 0),          \* no portfolio
     Order(5, 98, 100, 100),     \* a loss of exactly 2 per cent today
     Order(5, 90, 0, 100)}       \* exactly 10 per cent below the peak

OneProposal == {Order(10, 100, 100, 100)}

ApartTripleOf == [f \in {f1, f2} |-> f]
=============================================================================
