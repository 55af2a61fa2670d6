------------------------------- MODULE Scores -------------------------------
(***************************************************************************)
(* The scores of the analysis engines (analysis/) and of the panels built  *)
(* on them, as functions of readings.                                      *)
(*                                                                         *)
(* A reading holds what pandas computes from a window of bars: a moving    *)
(* average, a percentile, a deviation. A signal is in hundredths, -100 ..  *)
(* 100; a score is 0 .. 100; both rounded down. None is Null. A blend is a *)
(* fraction [num, den], with den = 0 when there was nothing to blend.      *)
(***************************************************************************)
EXTENDS Integers, Sequences, FiniteSetsExt, Functions

CONSTANT Null

ASSUME ScoresAssumption == Null \notin Int /\ Null \notin [num : Int, den : Int]

MaybeInt == Int \union {Null}

Clamp(x, lo, hi) == IF x < lo THEN lo ELSE IF x > hi THEN hi ELSE x
Sign(x) == IF x > 0 THEN 1 ELSE IF x < 0 THEN -1 ELSE 0
Abs(x) == IF x < 0 THEN -x ELSE x

-----------------------------------------------------------------------------
(* Blending. An engine that has nothing to say is left out, and the        *)
(* weights of the others are what they are divided by.                     *)

Present(v) == {k \in DOMAIN v : v[k] # Null}

(* Mutant of Blend: what is missing counts as zero.                        *)
BlendOverAll(w, v) ==
    [num |-> SumFunctionOnSet([k \in Present(v) |-> w[k] * v[k]], Present(v)),
     den |-> IF Present(v) = {} THEN 0 ELSE SumFunction(w)]

Blend(w, v) ==
    [num |-> SumFunctionOnSet([k \in Present(v) |-> w[k] * v[k]], Present(v)),
     den |-> SumFunctionOnSet(w, Present(v))]

(* Is the fraction between the least and the greatest of the values?       *)
Between(f, v) ==
    Present(v) # {} =>
        /\ f.den > 0
        /\ \E k \in Present(v) : v[k] * f.den <= f.num
        /\ \E k \in Present(v) : f.num <= v[k] * f.den

Floor(f) == IF f.den = 0 THEN Null ELSE f.num \div f.den

-----------------------------------------------------------------------------
(* The technical engine. m.gain and m.loss are Wilder's averages, m.hist   *)
(* the MACD histogram, m.sma20 .. the moving averages, m.lower and m.upper *)
(* the bands, m.avgVol the average volume, m.range the average true range. *)

IsReading(m) ==
    /\ {m.bars, m.gain, m.loss, m.close, m.range} \subseteq Nat
    /\ {m.hist, m.sma20, m.sma50, m.sma200, m.previous, m.vol, m.avgVol, m.lower, m.upper}
          \subseteq Int
    /\ m.lower <= m.upper

(* RSI 30 is +1, 50 is 0, 70 is -1.                                        *)
RsiSignal(m) ==
    IF m.gain + m.loss = 0 THEN 0
    ELSE Clamp((250 * (m.loss - m.gain)) \div (m.gain + m.loss), -100, 100)

(* A histogram of 3 % of the price is a full signal.                       *)
MacdSignal(m) ==
    IF m.close = 0 THEN 0 ELSE Clamp((10000 * m.hist) \div (3 * m.close), -100, 100)

(* A tie between two averages counts against.                              *)
MaSignal(m) ==
    LET vote(x, y) == IF x > y THEN 1 ELSE -1
    IN  (100 * (vote(m.sma20, m.sma50) + vote(m.sma50, m.sma200)
                + vote(m.sma20, m.sma200))) \div 3

BollingerSignal(m) ==
    IF m.upper = m.lower THEN 0
    ELSE Clamp(100 - (200 * (m.close - m.lower)) \div (m.upper - m.lower), -100, 100)

(* The direction of the day, as strong as the volume is above its average. *)
VolumeSignal(m) ==
    IF m.avgVol <= 0 THEN 0
    ELSE Sign(m.close - m.previous) * Clamp((50 * (m.vol - m.avgVol)) \div m.avgVol, 0, 100)

(* A range of 0 is +0.3, of 1.5 % is 0, of 3 % is -1.                      *)
AtrSignal(m) ==
    IF m.close = 0 THEN 0
    ELSE IF 1000 * m.range <= 15 * m.close
         THEN 30 - (2000 * m.range) \div m.close
         ELSE Clamp(100 - (20000 * m.range) \div (3 * m.close), -100, 100)

MinBars == [rsi |-> 14, macd |-> 35, ma |-> 200, bollinger |-> 20, volume |-> 20, atr |-> 14]
TechnicalWeights ==
    [rsi |-> 20, macd |-> 20, ma |-> 25, bollinger |-> 15, volume |-> 10, atr |-> 10]

Signals(m) ==
    LET all == [rsi |-> RsiSignal(m), macd |-> MacdSignal(m), ma |-> MaSignal(m),
                bollinger |-> BollingerSignal(m), volume |-> VolumeSignal(m),
                atr |-> AtrSignal(m)]
    IN  [k \in DOMAIN MinBars |-> IF m.bars < 30 \/ m.bars < MinBars[k] THEN Null ELSE all[k]]

Technical(m) == Blend(TechnicalWeights, Signals(m))

-----------------------------------------------------------------------------
(* The fundamental engine. A filing f has the facts, in whole numbers.     *)

IsFiling(f) ==
    {f.revenue, f.revenuePrior, f.earnings, f.earningsPrior, f.debt, f.price, f.eps, f.pe,
     f.fcf} \subseteq MaybeInt

(* num / den on the scale from lo to hi, which are in hundredths.          *)
Window(num, den, lo, hi) ==
    Clamp((100 * (100 * num - lo * den)) \div ((hi - lo) * den), 0, 100)

(* The growth over the year, against the size of the earlier one.          *)
Growth(latest, prior, lo, hi) ==
    IF Null \in {latest, prior} \/ prior = 0 THEN Null
    ELSE Window(latest - prior, Abs(prior), lo, hi)

(* Price over earnings, in hundredths: as the source has it, or from the   *)
(* price and the earnings per share. A loss has no such ratio.             *)
PeRatio(f) ==
    IF f.pe # Null THEN f.pe
    ELSE IF Null \in {f.price, f.eps} \/ f.eps = 0 THEN Null
    ELSE Sign(f.eps) * ((100 * f.price) \div Abs(f.eps))

PeScore(f) ==
    LET pe == PeRatio(f)
    IN  IF pe = Null THEN Null
        ELSE IF pe <= 0 THEN Null ELSE 100 - Window(pe, 100, 1000, 4000)

FundamentalWeights ==
    [revenue |-> 25, earnings |-> 25, debt |-> 20, pe |-> 15, cash |-> 15]

Fundamentals(f) ==
    [revenue |-> Growth(f.revenue, f.revenuePrior, -10, 30),
     earnings |-> Growth(f.earnings, f.earningsPrior, -20, 30),
     debt |-> IF f.debt = Null THEN Null ELSE 100 - Window(f.debt, 100, 0, 200),
     pe |-> PeScore(f),
     cash |-> IF Null \in {f.fcf, f.revenue} \/ f.revenue = 0 THEN Null
              ELSE Window(Sign(f.revenue) * f.fcf, Abs(f.revenue), 0, 20)]

Fundamental(f) == Blend(FundamentalWeights, Fundamentals(f))

-----------------------------------------------------------------------------
(* The risk engine, over closes in which Null is a day without one.        *)

FillLimit == 5

(* prepare_close_series: a gap is filled for up to FillLimit days; what is *)
(* left of a longer one, or before the first close, is dropped.            *)
Filled(s) ==
    [n \in DOMAIN s |->
        LET known == {k \in 1 .. n : s[k] # Null /\ n - k <= FillLimit}
        IN  IF known = {} THEN Null ELSE s[Max(known)]]

(* The fall from the highest close to the last one, in hundredths.         *)
Drawdown(s) ==
    LET days == Present(s)
        peak == Max({s[n] : n \in days})
    IN  IF days = {} THEN Null
        ELSE IF peak <= 0 THEN Null ELSE (100 * (peak - s[Max(days)])) \div peak

(* A value from low to high on 0 .. 100. All three in the same unit.       *)
Saturate(x, low, high) ==
    IF x = Null THEN Null ELSE Clamp((100 * (x - low)) \div (high - low), 0, 100)

RiskWeights == [vol |-> 5, drawdown |-> 3, var |-> 2]

(* r.vol30, r.vol90: annualised, in hundredths; r.var95 in thousandths.    *)
IsExposure(r) ==
    /\ r.closes \in Seq(MaybeInt) /\ r.returns \in Nat
    /\ {r.vol30, r.vol90, r.var95} \subseteq MaybeInt

RiskSubScores(r) ==
    [vol |-> Saturate(IF r.vol90 # Null THEN r.vol90 ELSE r.vol30, 5, 60),
     drawdown |-> Saturate(Drawdown(Filled(r.closes)), 0, 60),
     var |-> IF r.returns < 30 THEN Null ELSE Saturate(r.var95, 5, 60)]

SectorProxy == [technology |-> 60, energy |-> 70, utilities |-> 35, crypto |-> 85]

(* With fewer than 30 returns the score is the sector's.                   *)
RiskScore(r) ==
    IF r.returns < 30
    THEN IF r.sector \in DOMAIN SectorProxy THEN SectorProxy[r.sector] ELSE 55
    ELSE LET f == Blend(RiskWeights, RiskSubScores(r))
         IN  IF f.den = 0 THEN 55 ELSE Floor(f)

-----------------------------------------------------------------------------
(* The risk meter and the health score of a portfolio. Values are a        *)
(* function of its holdings; the concentration is the sum of the squared   *)
(* shares, in hundredths.                                                  *)

Gross(values) == SumFunction([k \in DOMAIN values |-> Abs(values[k])])

Concentration(values) ==
    IF Gross(values) = 0 THEN Null
    ELSE (100 * SumFunction([k \in DOMAIN values |-> values[k] * values[k]]))
            \div (Gross(values) * Gross(values))

MeterWeights == [concentration |-> 30, var |-> 30, drawdown |-> 20, events |-> 20]

(* p.var95 and p.drawdown in thousandths, Null without prices; p.events    *)
(* the days until each event, Null without a calendar, which counts as no  *)
(* event.                                                                  *)
Meter(p) ==
    [concentration |-> Concentration(p.values),
     var |-> IF p.var95 = Null THEN Null ELSE Saturate(p.var95, 0, 50),
     drawdown |-> IF p.drawdown = Null THEN Null ELSE Saturate(p.drawdown, 0, 400),
     events |-> IF p.events = Null THEN 0
                ELSE Clamp(20 * SumFunction([n \in DOMAIN p.events |->
                                    IF p.events[n] \in 0 .. 5 THEN 5 - p.events[n] ELSE 0]),
                           0, 100)]

OverallRisk(p) == Blend(MeterWeights, Meter(p))

(* p.fundamentals and p.technicals: a score of each holding, or Null;      *)
(* p.sharpe in hundredths, Null without a benchmark.                       *)
IsPanel(p) ==
    /\ p.values \in Seq(Int) /\ {p.var95, p.drawdown, p.sharpe} \subseteq MaybeInt
    /\ p.events \in Seq(Int) \union {Null}
    /\ p.fundamentals \in Seq(0 .. 100 \union {Null})
    /\ p.technicals \in Seq(-100 .. 100 \union {Null})

HealthWeights == [diversification |-> 1, fundamental |-> 1, technical |-> 1, riskAdjusted |-> 1]

Mean(v) == Floor(Blend([k \in DOMAIN v |-> 1], v))

Health(p) ==
    [diversification |-> IF Concentration(p.values) = Null THEN Null
                         ELSE Clamp((100 * (100 - Concentration(p.values))) \div 95, 0, 100),
     fundamental |-> Mean(p.fundamentals),
     technical |-> IF Mean(p.technicals) = Null THEN Null ELSE (Mean(p.technicals) + 100) \div 2,
     riskAdjusted |-> Saturate(p.sharpe, -100, 200)]

OverallHealth(p) == Blend(HealthWeights, Health(p))
=============================================================================
