------------------------------- MODULE Advice -------------------------------
(***************************************************************************)
(* Recommendations: what the synthesizer makes of the engines' scores      *)
(* (intelligence/synthesizer.py, staleness.py), the endpoints that         *)
(* generate and list them (api/recommendations.py), and the AI analysis    *)
(* that runs beside them (tasks/ai_analysis.py, intelligence/ai_analysis). *)
(*                                                                         *)
(* A composite is a fraction in hundredths. The endpoint runs the          *)
(* technical engine alone; the synthesizer takes any of the four.          *)
(***************************************************************************)
EXTENDS Scores, FiniteSets

CONSTANTS
    Readings,     \* of bars, for the technical engine; see Scores
    Filed,        \* filings, for the fundamental engine
    Feelings,     \* sentiment composites
    Hazards,      \* readings for the risk engine
    AiAnswers,    \* what the model answers: [outlook, risks, confidence]
    Ages,         \* of the oldest score, in hours
    Settings,     \* [production, shadow, legal, enabled, weight]
    MaxTime,      \* bound: hours
    MaxAdvice,    \* bound: recommendations
    MaxTasks      \* bound: AI tasks

ASSUME AdviceAssumption ==
    /\ \A m \in Readings : IsReading(m)
    /\ \A f \in Filed : IsFiling(f)
    /\ \A r \in Hazards : IsExposure(r)
    /\ Feelings \subseteq Int /\ Ages \subseteq Nat
    /\ \A a \in AiAnswers : {a.outlook, a.risks, a.confidence} \subseteq Int
    /\ \A s \in Settings : s.weight \in Int

VARIABLES
    time,
    setting,      \* the environment
    bars,         \* price_history of the instrument: a reading, or Null
    brief,        \* the request: [pc, now, reading]
    advice,       \* recommendations, oldest first, each with its audit row
    queued,       \* AI tasks that were sent
    log,          \* ai_analysis_logs
    opinion       \* what a caller hands to the synthesizer

adviceVars == <<time, setting, bars, brief, advice, queued, log, opinion>>

NoOpinion == [technical |-> Null, fundamental |-> Null, sentiment |-> Null,
              risk |-> Null, age |-> 0]
NoScores == [technical |-> Null, fundamental |-> Null, sentiment |-> Null, risk |-> Null]
NoBrief == [pc |-> "idle", now |-> 0, reading |-> Null]

InitAdvice ==
    /\ time = 0 /\ setting \in Settings /\ bars = Null
    /\ brief = NoBrief /\ advice = <<>>
    /\ queued = 0 /\ log = <<>>
    /\ opinion = [of |-> NoOpinion, scores |-> NoScores]

-----------------------------------------------------------------------------
(* The synthesizer.                                                        *)

SynthWeights == [technical |-> 40, fundamental |-> 25, sentiment |-> 20, risk |-> 15]
MaxAiWeight == 30

OfScore(x, factor) == IF x = Null THEN Null ELSE Clamp(2 * factor * (x - 50), -100, 100)

(* _normalize_engines: each on -100 .. 100; a high risk counts against.    *)
(* The fundamental opinion is anything with a composite_score, as the      *)
(* tests hand it over: FundamentalScore calls it composite, and handed     *)
(* over as it is it would count as Null.                                   *)
Normalised(o) ==
    [technical |-> IF o.technical = Null THEN Null ELSE Floor(Technical(o.technical)),
     fundamental |-> IF o.fundamental = Null THEN Null
                     ELSE OfScore(Floor(Fundamental(o.fundamental)), 1),
     sentiment |-> IF o.sentiment = Null THEN Null ELSE Clamp(o.sentiment, -100, 100),
     risk |-> IF o.risk = Null THEN Null ELSE OfScore(RiskScore(o.risk), -1)]

(* _action_for.                                                            *)
ActionOf(f) ==
    CASE f.num > 60 * f.den -> "strong_buy"
      [] f.num > 30 * f.den /\ f.num <= 60 * f.den -> "buy"
      [] f.num >= -30 * f.den /\ f.num <= 30 * f.den -> "hold"
      [] f.num >= -60 * f.den /\ f.num < -30 * f.den -> "sell"
      [] OTHER -> "strong_sell"

(* classify_staleness and the penalty of each band; Null is suppressed.    *)
Penalty(age) ==
    CASE age < 1 -> 0 [] age \in 1 .. 5 -> 5 [] age \in 6 .. 23 -> 15 [] OTHER -> Null

(* ai_score_from_output.                                                   *)
AiScore(a) == ((a.outlook + 100 - a.risks) * a.confidence) \div 100 - 100

(* Mutant of AiWeight: the configured weight is not capped.                *)
AiWeightUncapped(weight, shadow, ai) == IF shadow \/ ai = Null THEN 0 ELSE weight

AiWeight(weight, shadow, ai) ==
    IF shadow \/ ai = Null THEN 0 ELSE Clamp(weight, 0, MaxAiWeight)

(* _blend_ai and the composite, of normalised scores v.                    *)
Composite(v, w, ai) ==
    LET engines == Blend(SynthWeights, v)
    IN  IF w = 0 THEN engines
        ELSE [num |-> (100 - w) * engines.num + w * Clamp(ai, -100, 100) * engines.den,
              den |-> 100 * engines.den]

(* How far the engines are from the composite, on average.                 *)
Dispersion(v, f) ==
    SumFunctionOnSet([k \in Present(v) |-> Abs(v[k] * f.den - f.num)], Present(v))
        \div (f.den * Cardinality(Present(v)))

Confidence(v, f, age) == Clamp(100 - Min({Dispersion(v, f), 100}) - Penalty(age), 0, 100)

(* synthesize.                                                             *)
Silent(v, age) == Present(v) = {} \/ Penalty(age) = Null
Synthesize(v, age, w, ai) ==
    IF Silent(v, age) THEN [status |-> "stale", action |-> Null, confidence |-> Null]
    ELSE LET f == Composite(v, w, ai)
         IN  [status |-> "ok", action |-> ActionOf(f), confidence |-> Confidence(v, f, age)]

(* A caller with any of the engines, its oldest score age hours old.       *)
Consult ==
    /\ opinion.of = NoOpinion
    /\ \E t \in Readings \union {Null}, f \in Filed \union {Null},
          s \in Feelings \union {Null}, r \in Hazards \union {Null}, a \in Ages :
          LET o == [technical |-> t, fundamental |-> f, sentiment |-> s, risk |-> r,
                    age |-> a]
          IN  opinion' = [of |-> o, scores |-> Normalised(o)]
    /\ UNCHANGED <<time, setting, bars, brief, advice, queued, log>>

-----------------------------------------------------------------------------
(* The endpoints.                                                          *)

(* _resolve_shadow_mode.                                                   *)
ShadowMode == setting.shadow \/ (setting.production /\ ~setting.legal)

(* Half a day passes.                                                      *)
HalfDay ==
    /\ time + 12 <= MaxTime /\ time' = time + 12
    /\ UNCHANGED <<setting, bars, brief, advice, queued, log, opinion>>

(* Bars are fetched.                                                       *)
FetchBars ==
    /\ bars' \in Readings \ {bars}
    /\ UNCHANGED <<time, setting, brief, advice, queued, log, opinion>>

(* generate_recommendation loads the bars; an engine that fails is left    *)
(* out. The time of its score is now, however old the bars are.            *)
LoadTechnical ==
    /\ brief.pc = "idle" /\ Len(advice) < MaxAdvice
    /\ \E b \in {bars, Null} : brief' = [pc |-> "dispatch", now |-> time, reading |-> b]
    /\ UNCHANGED <<time, setting, bars, advice, queued, log, opinion>>

(* The AI task is sent and forgotten; a broker that is down is logged.     *)
DispatchAi ==
    /\ brief.pc = "dispatch"
    /\ queued' \in IF setting.enabled /\ queued + Len(log) < MaxTasks THEN {queued, queued + 1} ELSE {queued}
    /\ brief' = [brief EXCEPT !.pc = "synthesize"]
    /\ UNCHANGED <<time, setting, bars, advice, log, opinion>>

(* The recommendation and its audit row, in one commit, if there is one:   *)
(* the AI has no say in it. A commit that fails leaves neither.            *)
CommitAdvice ==
    LET o == [NoOpinion EXCEPT !.technical = brief.reading]
        v == Synthesize(Normalised(o), o.age, AiWeight(setting.weight, ShadowMode, Null), Null)
        rec == [action |-> v.action, confidence |-> v.confidence, until |-> brief.now + 24,
                audit |-> [action |-> v.action, shadow |-> ShadowMode]]
    IN  /\ brief.pc = "synthesize"
        /\ advice' \in {advice, IF v.status = "ok" THEN Append(advice, rec) ELSE advice}
        /\ brief' = NoBrief
        /\ UNCHANGED <<time, setting, bars, queued, log, opinion>>

(* list_recommendations: what has not expired, newest first.               *)
Listed == SelectSeq([n \in DOMAIN advice |-> advice[Len(advice) + 1 - n]],
                    LAMBDA r : r.until > time)

(* run_shadow_analysis: the provider answers, times out or fails; the row  *)
(* holds the setting itself, and an error of the database discards it.     *)
RunAi ==
    /\ queued > 0
    /\ queued' = queued - 1
    /\ \E row \in {[status |-> "success", score |-> AiScore(a)] : a \in AiAnswers}
                  \union [status : {"timeout", "error"}, score : {Null}] :
          log' \in {log, Append(log, [status |-> row.status, score |-> row.score,
                                      shadow |-> setting.shadow])}
    /\ UNCHANGED <<time, setting, bars, brief, advice, opinion>>

AdviceStep == HalfDay \/ FetchBars \/ LoadTechnical \/ DispatchAi \/ CommitAdvice
              \/ RunAi

-----------------------------------------------------------------------------
Buys == {"buy", "strong_buy"}
Sells == {"sell", "strong_sell"}

(* Whatever the AI answers and whatever weight is configured, it may talk  *)
(* the engines out of an advice but never into the opposite one: neither   *)
(* from a sell to a buy nor back (synthesizer.py:165-184).                 *)
AiNeverReversesAdvice ==
    ~Silent(opinion.scores, opinion.of.age) =>
        LET engines == Composite(opinion.scores, 0, Null)
            alone == ActionOf(engines)
        IN  \A a \in AiAnswers, weight \in {s.weight : s \in Settings} :
                LET w == AiWeight(weight, FALSE, AiScore(a))
                    blended == Synthesize(opinion.scores, opinion.of.age, w, AiScore(a)).action
                IN  /\ alone \in Sells => blended \notin Buys
                    /\ alone \in Buys => blended \notin Sells

(* "Whether this result was suppressed from the composite"                 *)
(* (models/ai_analysis_log.py:6): false, no composite has the AI in it, and *)
(* the log holds the setting.                                              *)
LogTellsTheMode == \A n \in DOMAIN log : log[n].shadow
=============================================================================
