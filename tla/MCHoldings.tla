---------------------------- MODULE MCHoldings ----------------------------
(* A finite instance of Holdings: two users whose accounts have the same   *)
(* two symbols, one symbol listed on both Indian exchanges, listed in      *)
(* opposite orders, with an order, a flat net position and net positions   *)
(* of two products of one symbol.                                          *)
EXTENDS Holdings

nse == [symbol |-> "R", exchange |-> "NSE"]
bse == [symbol |-> "R", exchange |-> "BSE"]
nasdaq == [symbol |-> "A", exchange |-> "NASDAQ"]
MCListings == {nse, bse, nasdaq}
MCOwner == [c \in Conns |-> IF c = "c1" THEN "u1" ELSE "u2"]
MCLists == [a \in Accounts |->
    IF a = "a1"
    THEN [broker |-> "zerodha", held |-> <<Lot("R", "NSE", 2), Lot("R", "BSE", 3)>>,
          net |-> <<Lot("R", "NSE", 1)>>, orders |-> <<>>]
    ELSE [broker |-> "zerodha", held |-> <<Lot("R", "BSE", 5)>>,
          net |-> <<Lot("A", "XNAS", 0), Lot("A", "XNAS", 4), Lot("A", "XNAS", 1)>>,
          orders |-> <<"R">>]]
MCHome == [e \in {"NSE", "BSE", "NASDAQ"} |-> IF e = "NASDAQ" THEN "USD" ELSE "INR"]
=============================================================================
