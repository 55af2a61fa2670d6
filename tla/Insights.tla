------------------------------ MODULE Insights ------------------------------
(***************************************************************************)
(* What the service says of a portfolio, of a symbol and of an account:    *)
(* the modules Money, HealthPanel, News, Filings and Advice, all over      *)
(* Scores, and BrokerSessions.                                             *)
(*                                                                         *)
(* They share the engines and no state. So a behaviour is one of one of    *)
(* them, its scene, and the others keep still: what is checked of the sum  *)
(* of their behaviours holds of the product.                               *)
(***************************************************************************)
EXTENDS Money, HealthPanel, News, Filings, Advice, BrokerSessions

VARIABLE scene

vars == <<scene, moneyVars, healthVars, newsVars, filingVars, adviceVars, sessionVars>>

Scenes == {"money", "health", "news", "filings", "engines", "advice", "sessions"}

Init ==
    /\ scene \in Scenes
    /\ InitMoney /\ InitHealth /\ InitNews /\ InitFilings /\ InitAdvice /\ InitSessions
    /\ scene # "advice" => setting = CHOOSE s \in Settings : TRUE

Next ==
    \/ /\ scene = "money" /\ MoneyStep
       /\ UNCHANGED <<scene, healthVars, newsVars, filingVars, adviceVars, sessionVars>>
    \/ /\ scene = "health" /\ HealthStep
       /\ UNCHANGED <<scene, moneyVars, newsVars, filingVars, adviceVars, sessionVars>>
    \/ /\ scene = "news" /\ NewsStep
       /\ UNCHANGED <<scene, moneyVars, healthVars, filingVars, adviceVars, sessionVars>>
    \/ /\ scene = "filings" /\ FilingStep
       /\ UNCHANGED <<scene, moneyVars, healthVars, newsVars, adviceVars, sessionVars>>
    \/ /\ scene = "engines" /\ Consult
       /\ UNCHANGED <<scene, moneyVars, healthVars, newsVars, filingVars, sessionVars>>
    \/ /\ scene = "advice" /\ AdviceStep
       /\ UNCHANGED <<scene, moneyVars, healthVars, newsVars, filingVars, sessionVars>>
    \/ /\ scene = "sessions" /\ SessionStep
       /\ UNCHANGED <<scene, moneyVars, healthVars, newsVars, filingVars, adviceVars>>

Spec == Init /\ [][Next]_vars

-----------------------------------------------------------------------------
Within(v, lo, hi) == \A k \in Present(v) : v[k] \in lo .. hi

(* Every blend lies between the least and the greatest of what was there   *)
(* to blend, whatever was missing: a source that is down, a symbol without *)
(* history or filings, a market without a benchmark never pulls a score    *)
(* towards zero or beyond its components (synthesizer.py:158,              *)
(* sentiment.py:145, fundamental.py:171, risk_meter.py:327,                *)
(* health_score.py:212, intelligence/portfolio.py:438). And the components *)
(* keep to their scale. A portfolio with short positions has markets of    *)
(* negative weight, which is another matter, and one that is worth nothing *)
(* has no return (intelligence/portfolio.py:466).                          *)
BlendsStayBetween ==
    /\ \A q \in Readers :
          (ask[q].pc = "done" /\ ask[q].kind = "intelligence"
             /\ LongOnly(q) /\ WorthOf(q, Counted(q)) > 0) =>
          Between(BlendedReturn(q), MarketReturns(q))
    /\ scene = "health" =>
          Between(OverallRisk(portfolio), Meter(portfolio)) /\ Within(Meter(portfolio), 0, 100)
    /\ \A v \in Visitors : visit[v].answer # Null =>
          /\ Between(visit[v].answer.overall, visit[v].answer.health)
          /\ Within(visit[v].answer.health, 0, 100)
    /\ \A c \in Callers : story[c].pc = "done" =>
          Between(Sentiment(story[c]), Legs(story[c])) /\ Within(Legs(story[c]), -100, 100)
    /\ \A q \in Seekers : seek[q].filing # Null =>
          /\ Between(Fundamental(seek[q].filing), Fundamentals(seek[q].filing))
          /\ Within(Fundamentals(seek[q].filing), 0, 100)
    /\ opinion.of.technical # Null =>
          /\ Between(Technical(opinion.of.technical), Signals(opinion.of.technical))
          /\ Within(Signals(opinion.of.technical), -100, 100)
    /\ opinion.of.risk # Null => RiskScore(opinion.of.risk) \in 0 .. 100
    /\ scene = "engines" => Between(Blend(SynthWeights, opinion.scores), opinion.scores)
    /\ Within(opinion.scores, -100, 100)
=============================================================================
