-------------------------- MODULE MCPriceHistory --------------------------
(* A finite instance of PriceHistory: one split with a day on either side  *)
(* of its window, one detection with a factor of 1, two calls, two         *)
(* indicators and two requests.                                            *)
EXTENDS PriceHistory

CONSTANTS s1, s2, c1, c2, q1, q2

MCExDay == [s \in Splits |-> 3]
MCIndicators == <<"rsi", "macd">>
MCEnoughAt == [i \in {"rsi", "macd"} |-> IF i = "rsi" THEN 0 ELSE 1]
MCSymmetry == Permutations(Calls) \union Permutations(Requests)
=============================================================================
