-------------------------------- MODULE News --------------------------------
(***************************************************************************)
(* The sentiment of a symbol: the request of api/analysis.py, the engine   *)
(* analysis/sentiment.py, FinBERT, and the sources GNews with its daily    *)
(* budget (data/gnews.py), RSS (data/rss.py) and Reddit (data/reddit.py).  *)
(*                                                                         *)
(* Concurrent requests check the budget before they ask GNews and count    *)
(* after it has answered; a day may end in between. An article or a post   *)
(* is its score in hundredths and its age in half-lives.                   *)
(***************************************************************************)
EXTENDS Scores, FiniteSets

CONSTANTS
    Callers,      \* requests, concurrent or one after another
    Articles,     \* what a source may answer: sequences of [score, age]
    Macros,       \* FRED: changes [unrate, funds, gdp] in hundredths, or Null
    DailyBudget,  \* GNEWS_DAILY_BUDGET
    LastDay,      \* bound: the last day
    MaxRequests   \* bound: answers GNews gives in a day

ASSUME NewsAssumption ==
    /\ IsFiniteSet(Callers) /\ Callers # {}
    /\ DailyBudget \in Nat /\ LastDay \in Nat /\ MaxRequests \in Nat
    /\ <<>> \in Articles /\ Articles \subseteq Seq([score : -100 .. 100, age : Nat])
    /\ \A m \in Macros \ {Null} : {m.unrate, m.funds, m.gdp} \subseteq MaybeInt

VARIABLES
    day,
    usage,     \* Redis: the counter of each day
    answered,  \* GNews: what it has answered, and counts, on each day
    lost,      \* history: answers of a day that nobody will count
    story      \* the requests: [pc, from, articles, posts, macro, finbert]

newsVars == <<day, usage, answered, lost, story>>

Untold == [pc |-> "idle", from |-> 0, articles |-> <<>>, posts |-> Null,
           macro |-> Null, finbert |-> TRUE]

InitNews ==
    /\ day = 0
    /\ usage = [d \in 0 .. LastDay |-> 0]
    /\ answered = [d \in 0 .. LastDay |-> 0]
    /\ lost = [d \in 0 .. LastDay |-> 0]
    /\ story = [c \in Callers |-> Untold]

-----------------------------------------------------------------------------
(* The sources.                                                            *)

Midnight ==
    /\ day < LastDay
    /\ day' = day + 1
    /\ UNCHANGED <<usage, answered, lost, story>>

(* GET /{symbol}/sentiment.                                                *)
AskSentiment(c) ==
    /\ story[c].pc = "idle"
    /\ story' = [story EXCEPT ![c].pc = "check"]
    /\ UNCHANGED <<day, usage, answered, lost>>

(* Mutant of MayAsk: the budget may be overdrawn.                          *)
MayAskAgain == usage[day] <= DailyBudget

MayAsk == usage[day] < DailyBudget

(* search: without a key, or without budget, RSS is next.                  *)
CheckBudget(c) ==
    /\ story[c].pc = "check"
    /\ \/ MayAsk /\ story' = [story EXCEPT ![c].pc = "request"]
       \/ story' = [story EXCEPT ![c].pc = "rss"]
    /\ UNCHANGED <<day, usage, answered, lost>>

(* GNews answers, or refuses, or is down.                                  *)
AskGNews(c) ==
    /\ story[c].pc = "request"
    /\ \/ /\ answered[day] < MaxRequests
          /\ answered' = [answered EXCEPT ![day] = @ + 1]
          /\ \E a \in Articles :
                story' = [story EXCEPT ![c].pc = "bump", ![c].from = day, ![c].articles = a]
       \/ story' = [story EXCEPT ![c].pc = "rss"] /\ UNCHANGED answered
    /\ UNCHANGED <<day, usage, lost>>

(* _bump_usage: the counter of the day on which it is called.              *)
Bump(c) ==
    /\ story[c].pc = "bump"
    /\ usage' = [usage EXCEPT ![day] = @ + 1]
    /\ lost' = [lost EXCEPT ![story[c].from] = @ + IF day = story[c].from THEN 0 ELSE 1]
    /\ story' = [story EXCEPT ![c].pc = IF story[c].articles = <<>> THEN "rss" ELSE "reddit"]
    /\ UNCHANGED <<day, answered>>

(* The feeds; one that fails is skipped, and so is a feed parser that is   *)
(* not installed.                                                          *)
AskRss(c) ==
    /\ story[c].pc = "rss"
    /\ \E a \in Articles : story' = [story EXCEPT ![c].pc = "reddit", ![c].articles = a]
    /\ UNCHANGED <<day, usage, answered, lost>>

(* Reddit: posts, none of them, or Null without credentials. The endpoint  *)
(* has no FRED observations; other callers may.                            *)
AskReddit(c) ==
    /\ story[c].pc = "reddit"
    /\ \E p \in Articles \union {Null}, m \in Macros, f \in BOOLEAN :
          story' = [story EXCEPT ![c].pc = "done", ![c].posts = p, ![c].macro = m,
                                 ![c].finbert = f]
    /\ UNCHANGED <<day, usage, answered, lost>>

(* Redis raises, the worker dies, or the answer has been read. What GNews  *)
(* has answered and nobody has counted stays uncounted.                    *)
EndStory(c) ==
    /\ story[c].pc # "idle"
    /\ lost' = IF story[c].pc = "bump" THEN [lost EXCEPT ![story[c].from] = @ + 1] ELSE lost
    /\ story' = [story EXCEPT ![c] = Untold]
    /\ UNCHANGED <<day, usage, answered>>

-----------------------------------------------------------------------------
(* The engine.                                                             *)

HalfLives == 4

(* _decay_weight: half the weight with every half-life.                    *)
Decay(age) == 2 ^ (HalfLives - Min({age, HalfLives}))

(* A leg: the mean of its items' scores. Without FinBERT a leg that has    *)
(* items is 0, and keeps its weight.                                       *)
Leg(items, finbert) ==
    IF items = <<>> \/ ~finbert THEN 0
    ELSE Floor(Blend([n \in DOMAIN items |-> Decay(items[n].age)],
                     [n \in DOMAIN items |-> items[n].score]))

(* compute_macro_score: each change against the range it is scaled to.     *)
MacroParts(m) ==
    [unrate |-> IF m.unrate = Null THEN Null ELSE Clamp(-m.unrate, -100, 100),
     funds |-> IF m.funds = Null THEN Null ELSE Clamp(-2 * m.funds, -100, 100),
     gdp |-> IF m.gdp = Null THEN Null ELSE Clamp(m.gdp \div 5, -100, 100)]

MacroScore(m) ==
    LET f == Blend([k \in {"unrate", "funds", "gdp"} |-> 1], MacroParts(m))
    IN  IF f.den = 0 THEN 0 ELSE Floor(f)

(* Mutant of LegWeights: what is missing keeps its weight.                 *)
LegWeightsFixed(news, social, macro) == <<50, 20, 30>>

(* _resolve_weights.                                                       *)
LegWeights(news, social, macro) ==
    CASE news /\ social /\ macro   -> <<50, 20, 30>>
      [] news /\ ~social /\ macro  -> <<60, 0, 40>>
      [] news /\ social /\ ~macro  -> <<70, 30, 0>>
      [] news /\ ~social /\ ~macro -> <<100, 0, 0>>
      [] ~news /\ social /\ macro  -> <<0, 40, 60>>
      [] ~news /\ social /\ ~macro -> <<0, 100, 0>>
      [] ~news /\ ~social /\ macro -> <<0, 0, 100>>
      [] OTHER -> <<0, 0, 0>>

(* The legs that are available: news when there are articles, social when  *)
(* Reddit answered, if only with nothing.                                  *)
Legs(s) ==
    <<IF s.articles = <<>> THEN Null ELSE Leg(s.articles, s.finbert),
      IF s.posts = Null THEN Null ELSE Leg(s.posts, s.finbert),
      IF s.macro = Null THEN Null ELSE MacroScore(s.macro)>>

(* The composite, in hundredths of hundredths.                             *)
Sentiment(s) ==
    LET legs == Legs(s)
        w == LegWeights(legs[1] # Null, legs[2] # Null, legs[3] # Null)
    IN  [num |-> SumFunctionOnSet([n \in Present(legs) |-> w[n] * legs[n]], Present(legs)),
         den |-> 100]

NewsStep ==
    \/ Midnight
    \/ \E c \in Callers : AskSentiment(c) \/ CheckBudget(c) \/ AskGNews(c) \/ Bump(c)
                          \/ AskRss(c) \/ AskReddit(c) \/ EndStory(c)

-----------------------------------------------------------------------------
(* GNews answers no more in a day than the budget and what the concurrent  *)
(* callers had checked before: each overdraws by at most one, and one more *)
(* for every answer of the day that was counted on the next, or never      *)
(* (gnews.py:143-168).                                                     *)
NewsStaysInBudget ==
    \A d \in 0 .. LastDay :
        answered[d] <= DailyBudget + Cardinality(Callers) - 1 + lost[d]
=============================================================================
