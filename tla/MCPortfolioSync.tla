-------------------------- MODULE MCPortfolioSync --------------------------
(* Finite instances of PortfolioSync: two handlers; an account on which one *)
(* unit is bought and sold again, and another bought under a second symbol  *)
(* of the same instrument.                                                  *)
EXTENDS PortfolioSync, TLC

CONSTANTS r1, r2, c1, c2, o1, o2, o3, sX, sY, iX

MCSymbolOf == (o1 :> sX) @@ (o2 :> sX) @@ (o3 :> sY)
MCSideOf == (o1 :> "buy") @@ (o2 :> "sell") @@ (o3 :> "buy")
MCInstrumentOf == (sX :> iX) @@ (sY :> iX)

(* One purchase, for the run with liveness.                                 *)
OneSymbolOf == o1 :> sX
OneSideOf == o1 :> "buy"
OneInstrumentOf == sX :> iX

Handlers == Permutations({r1, r2})
=============================================================================
