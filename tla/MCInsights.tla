----------------------------- MODULE MCInsights -----------------------------
(***************************************************************************)
(* A portfolio of two American rows and an Indian one and one nobody has a *)
(* rate for, and readings on both sides of the thresholds.                 *)
(***************************************************************************)
EXTENDS Insights

CONSTANTS r1, q1, q2, n1, n2, w1, w2, c1, c2, us, in, gb, al, ze

MCBook == (us :> [currency |-> "USD", exchange |-> "ARCA", cost |-> 1])
          @@ (in :> [currency |-> "INR", exchange |-> "NSE", cost |-> 6])
          @@ (gb :> [currency |-> "GBP", exchange |-> "LSE", cost |-> 2])
MCBooks == {(us :> 1) @@ (in :> 1) @@ (gb :> 1), (us :> 3) @@ (in :> 0) @@ (gb :> 0),
            (us :> -1) @@ (in :> 2) @@ (gb :> 0)}
MCRateOn == [fred |-> (0 :> 2) @@ (1 :> 3), ecb |-> (0 :> 1) @@ (1 :> 3)]

P(values, var95, drawdown, events, fundamentals, technicals, sharpe) ==
    [values |-> values, var95 |-> var95, drawdown |-> drawdown, events |-> events,
     fundamentals |-> fundamentals, technicals |-> technicals, sharpe |-> sharpe]
MCFeelings == {-100, 0, 70}
MCPortfolios ==
    {P(<<50, 50>>, 20, 100, <<0, 5, 9>>, <<80, Null>>, <<40, -20>>, 50),
     P(<<100>>, Null, Null, Null, <<Null>>, <<Null>>, Null),
     P(<<90, -10>>, 70, 500, <<0, 0, 1, 2, 3, 4>>, <<10, 30>>, <<-90, Null>>, -150)}

MCArticles == {<<>>, <<[score |-> 60, age |-> 0], [score |-> -40, age |-> 2]>>}
MCMacros == {Null, [unrate |-> 50, funds |-> Null, gdp |-> 300]}

MCSymbols == [AAPL |-> [exchange |-> "NASDAQ", cik |-> TRUE],
              FAKE |-> [exchange |-> "NYSE", cik |-> FALSE],
              TCS |-> [exchange |-> "NSE", cik |-> FALSE],
              BTC |-> [exchange |-> "COIN", cik |-> FALSE]]
O(end, value) == [end |-> end, value |-> value, tenK |-> TRUE]
Q(end, value) == [end |-> end, value |-> value, tenK |-> FALSE]
MCReports ==
    {[revenue |-> <<O(1, 100), O(2, 120), Q(3, 33)>>, earnings |-> <<O(1, 10), O(2, 8)>>,
      debt |-> <<O(2, 50)>>, equity |-> <<O(2, 100)>>, cash |-> <<O(2, 20)>>,
      capex |-> <<O(2, 5)>>, eps |-> <<O(2, 4)>>],
     [revenue |-> <<O(2, 90), O(2, 60)>>, earnings |-> <<Q(3, -4)>>, debt |-> <<O(2, 50)>>,
      equity |-> <<O(2, -20)>>, cash |-> <<>>, capex |-> <<>>, eps |-> <<O(2, -1)>>]}
MCInfos == {[revenue |-> 100, pe |-> 1200, eps |-> 3], [revenue |-> Null, pe |-> Null, eps |-> Null]}

M(n, gain, loss, hist, sma20, sma50, sma200, close, lower, upper, vol, range) ==
    [bars |-> n, gain |-> gain, loss |-> loss, hist |-> hist, sma20 |-> sma20,
     sma50 |-> sma50, sma200 |-> sma200, close |-> close, previous |-> 100, lower |-> lower,
     upper |-> upper, vol |-> vol, avgVol |-> 100, range |-> range]
MCReadings ==
    {M(250, 1, 9, 5, 110, 105, 100, 101, 100, 120, 300, 1),
     M(250, 9, 1, -5, 90, 95, 100, 95, 80, 96, 300, 4),
     M(250, 0, 0, 0, 100, 100, 100, 100, 100, 100, 100, 0),
     M(40, 2, 8, 1, 100, 100, 100, 102, 100, 130, 150, 2),
     M(20, 5, 5, 0, 100, 100, 100, 100, 90, 110, 100, 1)}
F(revenue, prior, earnings, earningsPrior, debt, eps, fcf) ==
    [revenue |-> revenue, revenuePrior |-> prior, earnings |-> earnings,
     earningsPrior |-> earningsPrior, debt |-> debt, price |-> 60, eps |-> eps, pe |-> Null,
     fcf |-> fcf]
MCFiled == {F(130, 100, 13, 10, 0, 6, 30), F(80, 100, 5, 10, 250, -1, -5),
            F(Null, Null, Null, Null, 100, Null, Null)}
R(closes, returns, vol90, var95, sector) ==
    [closes |-> closes, returns |-> returns, vol30 |-> 20, vol90 |-> vol90, var95 |-> var95,
     sector |-> sector]
MCHazards == {R(<<10, Null, 12, 11>>, 60, 10, 8, Null), R(<<Null, 10, 4>>, 60, Null, 70, Null),
              R(<<>>, 0, Null, Null, "crypto"), R(<<>>, 0, Null, Null, Null)}
MCAiAnswers == {[outlook |-> 100, risks |-> 0, confidence |-> 100],
                [outlook |-> 0, risks |-> 100, confidence |-> 50]}
MCBrokerOf == (al :> "alpaca") @@ (ze :> "zerodha")
Env(production, shadow, legal, enabled, weight) ==
    [production |-> production, shadow |-> shadow, legal |-> legal, enabled |-> enabled,
     weight |-> weight]
MCSettings == {Env(TRUE, FALSE, FALSE, TRUE, 90), Env(FALSE, TRUE, FALSE, FALSE, 20)}
=============================================================================
