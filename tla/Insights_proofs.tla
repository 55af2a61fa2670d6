-------------------------- MODULE Insights_proofs --------------------------
(* Theorems about Insights, for any requests, callers and lifetimes.        *)
EXTENDS Insights, Sums, FiniteSetTheorems, TLAPS

-----------------------------------------------------------------------------
(* The health score.                                                        *)

(* What a request stores it has computed, at the hour it names.             *)
IsAnswer(a) ==
    /\ DOMAIN a = {"read", "label", "health", "overall", "took"}
    /\ a.read \in Int /\ a.took \in Int

(* An entry is gone a life after it was stored, and it was stored when the  *)
(* request that computed it had taken its time.                             *)
IsEntry(e) ==
    /\ e.answer.read \in Int /\ e.answer.took \in Int
    /\ e.until = e.answer.read + e.answer.took + HealthTTL
    /\ hour < e.until

HealthInv ==
    /\ hour \in Nat
    /\ visit = [v \in Visitors |-> [pc |-> visit[v].pc, answer |-> visit[v].answer]]
    /\ \A v \in Visitors : visit[v].pc = "set" => IsAnswer(visit[v].answer)
    /\ stored # Null => IsEntry(stored)

(* A request moves on, with an answer that it has computed.                 *)
LEMMA HealthInvVisit ==
  ASSUME HealthInv, NEW v \in Visitors, NEW p, NEW a,
         visit' = [visit EXCEPT ![v].pc = p, ![v].answer = a],
         p = "set" => IsAnswer(a), hour' = hour,
         stored' # Null => IsEntry(stored')
  PROVE  HealthInv'
  <1> DEFINE x == [pc |-> p, answer |-> a]
  <1>1. visit[v] = [pc |-> visit[v].pc, answer |-> visit[v].answer]
    BY DEF HealthInv
  <1>2. [[visit[v] EXCEPT !.pc = p] EXCEPT !.answer = a] = x
    <2> DEFINE old == visit[v]
               y == [old EXCEPT !.pc = p]
    <2>1. y = [pc |-> p, answer |-> old.answer]
      <3>1. old = [pc |-> old.pc, answer |-> old.answer]
        BY <1>1
      <3> HIDE DEF old
      <3> QED
        BY <3>1
    <2>2. [y EXCEPT !.answer = a] = x
      <3> HIDE DEF y
      <3> QED
        BY <2>1
    <2> QED
      BY <2>2
  <1>3. visit' = [visit EXCEPT ![v] = x]
    BY <1>2 DEF HealthInv
  <1>4. x.pc = p /\ x.answer = a /\ x = [pc |-> x.pc, answer |-> x.answer]
    OBVIOUS
  <1> HIDE DEF x
  <1>5. DOMAIN visit = Visitors /\ DOMAIN visit' = Visitors
    BY <1>3 DEF HealthInv
  <1>6. \A w \in Visitors : visit'[w] = IF w = v THEN x ELSE visit[w]
    BY <1>3, <1>5
  <1>7. \A w \in Visitors : visit'[w] = [pc |-> visit'[w].pc, answer |-> visit'[w].answer]
    BY <1>4, <1>6 DEF HealthInv
  <1>8. visit' = [w \in Visitors |-> [pc |-> visit'[w].pc, answer |-> visit'[w].answer]]
    BY <1>3, <1>5, <1>7
  <1>9. \A w \in Visitors : visit'[w].pc = "set" => IsAnswer(visit'[w].answer)
    BY <1>4, <1>6 DEF HealthInv
  <1> QED
    BY <1>8, <1>9 DEF HealthInv, IsEntry, IsAnswer

(* The steps of a request, and the hours that pass, keep it.                *)
LEMMA HealthInvStep == HealthInv /\ HealthStep => HealthInv'
  <1> SUFFICES ASSUME HealthInv, HealthStep PROVE HealthInv'
    OBVIOUS
  <1>1. CASE PassHour
    BY <1>1, HealthAssumption DEF PassHour, HealthInv, IsEntry
  <1>2. CASE ForgetHealth
    BY <1>2 DEF ForgetHealth, HealthInv, IsEntry
  <1>3. ASSUME NEW c \in Links, SyncLink(c) PROVE HealthInv'
    BY <1>3 DEF SyncLink, HealthInv, IsEntry
  <1>4. ASSUME NEW v \in Visitors, Visit(v) PROVE HealthInv'
    BY <1>4 DEF Visit, HealthInv, IsEntry
  <1>5. ASSUME NEW v \in Visitors, Hit(v) PROVE HealthInv'
    BY <1>5, HealthInvVisit DEF Hit, HealthInv
  <1>6. ASSUME NEW v \in Visitors, EndVisit(v) PROVE HealthInv'
    BY <1>6 DEF EndVisit, Away, HealthInv, IsEntry
  <1>7. ASSUME NEW v \in Visitors, Compute(v) PROVE HealthInv'
    <2>1. IsAnswer(Computed)
      BY DEF Computed, IsAnswer, HealthInv
    <2> HIDE DEF Computed
    <2> QED
      BY <1>7, <2>1, HealthInvVisit DEF Compute, HealthInv
  <1>8. ASSUME NEW v \in Visitors, SetHealth(v) PROVE HealthInv'
    <2> DEFINE a == [visit[v].answer EXCEPT !.took = hour - visit[v].answer.read]
    <2>1. a.read \in Int /\ a.took = hour - a.read
      BY <1>8 DEF SetHealth, HealthInv, IsAnswer
    <2>2. stored' \in {stored, Kept(a)} /\ hour' = hour
          /\ visit' = [visit EXCEPT ![v].pc = "done", ![v].answer = a]
      BY <1>8 DEF SetHealth
    <2> HIDE DEF a
    <2>3. IsEntry(Kept(a))
      BY <2>1, HealthAssumption DEF Kept, IsEntry, HealthInv
    <2>4. stored' # Null => IsEntry(stored')
      BY <2>2, <2>3 DEF HealthInv
    <2>5. "done" = "set" => IsAnswer(a)
      OBVIOUS
    <2> QED
      BY ONLY HealthInv, v \in Visitors, <2>2, <2>4, <2>5, HealthInvVisit
  <1> QED
    BY <1>1, <1>2, <1>3, <1>4, <1>5, <1>6, <1>7, <1>8 DEF HealthStep

(* No entry is older than its life and the time its request took.           *)
THEOREM HealthScoresExpire == Spec => []HealthScoresAreRecent
  <1>1. Init => HealthInv
    BY DEF Init, InitHealth, HealthInv, Away
  <1>2. HealthInv /\ [Next]_vars => HealthInv'
    <2>1. HealthInv /\ UNCHANGED healthVars => HealthInv'
      BY DEF healthVars, HealthInv, IsEntry
    <2> QED
      BY <2>1, HealthInvStep DEF Next, vars
  <1>3. HealthInv => HealthScoresAreRecent
    BY HealthAssumption DEF HealthInv, IsEntry, HealthScoresAreRecent
  <1> QED
    BY <1>1, <1>2, <1>3, PTL DEF Spec

-----------------------------------------------------------------------------
(* The budget of the news service.                                          *)

StoryFields == {"pc", "from", "articles", "posts", "macro", "finbert"}

IsStory(x) ==
    /\ DOMAIN x = StoryFields /\ x = [f \in StoryFields |-> x[f]]
    /\ x.pc = "bump" => x.from \in 0 .. day

Pending == {c \in Callers : story[c].pc \in {"request", "bump"}}
Uncounted(d) == {c \in Callers : story[c].pc = "bump" /\ story[c].from = d}

NewsTypes ==
    /\ day \in 0 .. LastDay
    /\ usage \in [0 .. LastDay -> Nat]
    /\ answered \in [0 .. LastDay -> Nat]
    /\ lost \in [0 .. LastDay -> Nat]
    /\ story = [c \in Callers |-> story[c]]
    /\ \A c \in Callers : IsStory(story[c])

(* What was answered today is counted, lost, or about to be counted; what   *)
(* is counted, and those who have passed the check, are no more than the    *)
(* budget and all callers but one; other days stay as they are.             *)
TodayIsKnown == answered[day] <= usage[day] + lost[day] + Cardinality(Uncounted(day))

PendingFits ==
    /\ usage[day] + Cardinality(Pending) <= DailyBudget + Cardinality(Callers) - 1
    /\ DailyBudget = 0 => Pending = {}

OtherDaysFit ==
    \A d \in 0 .. LastDay :
        /\ d < day => answered[d] <= DailyBudget + Cardinality(Callers) - 1 + lost[d]
        /\ d > day => answered[d] = 0 /\ usage[d] = 0

NewsInv == NewsTypes /\ TodayIsKnown /\ PendingFits /\ OtherDaysFit

(* These sets are finite.                                                   *)
LEMMA CallersCount ==
  /\ IsFiniteSet(Callers) /\ Cardinality(Callers) \in Nat /\ Cardinality(Callers) >= 1
  /\ \A S \in SUBSET Callers : /\ IsFiniteSet(S) /\ Cardinality(S) \in Nat
                               /\ Cardinality(S) <= Cardinality(Callers)
  <1>1. IsFiniteSet(Callers) /\ Callers # {}
    BY NewsAssumption
  <1>2. Cardinality(Callers) \in Nat
    BY <1>1, FS_CardinalityType
  <1>3. Cardinality(Callers) # 0
    BY <1>1, FS_EmptySet
  <1>4. ASSUME NEW S \in SUBSET Callers
        PROVE  IsFiniteSet(S) /\ Cardinality(S) \in Nat /\ Cardinality(S) <= Cardinality(Callers)
    BY <1>1, FS_Subset, FS_CardinalityType
  <1> QED
    BY <1>1, <1>2, <1>3, <1>4

(* The sets are of callers.                                                 *)
LEMMA SetsOfCallers ==
  /\ Pending \in SUBSET Callers /\ \A d : Uncounted(d) \in SUBSET Pending
  BY DEF Pending, Uncounted

(* At any time the budget is kept.                                          *)
LEMMA NewsInvTells == NewsInv => NewsStaysInBudget
  <1> SUFFICES ASSUME NewsInv, NEW d \in 0 .. LastDay
               PROVE  answered[d] <= DailyBudget + Cardinality(Callers) - 1 + lost[d]
    BY DEF NewsStaysInBudget
  <1> DEFINE n == Cardinality(Callers)
             p == Cardinality(Pending)
             u == Cardinality(Uncounted(day))
  <1>1. n \in Nat /\ n >= 1 /\ p \in Nat /\ u \in Nat /\ u <= p
    <2>1. IsFiniteSet(Pending) /\ Pending \in SUBSET Callers /\ Uncounted(day) \in SUBSET Pending
      BY CallersCount, SetsOfCallers
    <2> QED
      BY <2>1, CallersCount, FS_Subset
  <1>2. answered[d] \in Nat /\ lost[d] \in Nat /\ usage[d] \in Nat /\ DailyBudget \in Nat
        /\ LastDay \in Nat /\ day \in 0 .. LastDay
    BY NewsAssumption DEF NewsInv, NewsTypes
  <1>3. answered[day] <= usage[day] + lost[day] + u /\ usage[day] + p <= DailyBudget + n - 1
    BY DEF NewsInv, TodayIsKnown, PendingFits
  <1>4. d < day => answered[d] <= DailyBudget + n - 1 + lost[d]
    BY DEF NewsInv, OtherDaysFit
  <1>5. d > day => answered[d] = 0
    BY DEF NewsInv, OtherDaysFit
  <1>6. d = day \/ d < day \/ d > day
    BY <1>2
  <1>7. ASSUME NEW N \in Nat, NEW P \in Nat, NEW U \in Nat, N >= 1, U <= P,
               answered[day] <= usage[day] + lost[day] + U,
               usage[day] + P <= DailyBudget + N - 1, d >= day
        PROVE  answered[d] <= DailyBudget + N - 1 + lost[d]
    BY <1>2, <1>5, <1>6, <1>7
  <1>8. d >= day => answered[d] <= DailyBudget + n - 1 + lost[d]
    <2> SUFFICES ASSUME d >= day PROVE answered[d] <= DailyBudget + n - 1 + lost[d]
      OBVIOUS
    <2> HIDE DEF n, p, u
    <2> QED
      BY <1>1, <1>3, <1>7
  <1>9. d < day \/ d >= day
    BY <1>2
  <1> QED
    BY <1>4, <1>8, <1>9

(* One caller moves on.                                                     *)
Moves(c, x) == story' = [story EXCEPT ![c] = x] /\ day' = day

(* The sets after that.                                                     *)
LEMMA MovesSets ==
  ASSUME NewsTypes, NEW c \in Callers, NEW x, Moves(c, x)
  PROVE  /\ Pending' = (Pending \ {c}) \union (IF x.pc \in {"request", "bump"} THEN {c} ELSE {})
         /\ Uncounted(day)' = (Uncounted(day) \ {c})
                \union (IF x.pc = "bump" /\ x.from = day THEN {c} ELSE {})
         /\ story' = [o \in Callers |-> story'[o]]
         /\ IsStory(x) => \A o \in Callers : IsStory(story[o])'
  <1>1. DOMAIN story = Callers /\ DOMAIN story' = Callers /\ day' = day
    BY DEF NewsTypes, Moves
  <1>2. \A o \in Callers : story'[o] = IF o = c THEN x ELSE story[o]
    BY <1>1 DEF Moves
  <1>3. story' = [o \in Callers |-> story'[o]]
    BY <1>1, <1>2 DEF Moves
  <1>4. ASSUME IsStory(x), NEW o \in Callers PROVE IsStory(story[o])'
    <2>1. IsStory(story[o])
      BY DEF NewsTypes
    <2> QED
      BY <1>1, <1>2, <1>4, <2>1 DEF IsStory
  <1>5. Pending' = {o \in Callers : story'[o].pc \in {"request", "bump"}}
    BY DEF Pending
  <1>6. Uncounted(day)' = {o \in Callers : story'[o].pc = "bump" /\ story'[o].from = day}
    BY <1>1 DEF Uncounted
  <1>7. Pending' = (Pending \ {c}) \union (IF x.pc \in {"request", "bump"} THEN {c} ELSE {})
    BY <1>2, <1>5 DEF Pending
  <1>8. Uncounted(day)' = (Uncounted(day) \ {c})
                \union (IF x.pc = "bump" /\ x.from = day THEN {c} ELSE {})
    BY <1>2, <1>6 DEF Uncounted
  <1> QED
    BY <1>3, <1>4, <1>7, <1>8

(* One element leaves a set, or does not, and comes in again, or does not.  *)
LEMMA SwapCount ==
  ASSUME NEW S, IsFiniteSet(S), NEW c, NEW in \in BOOLEAN
  PROVE  /\ IsFiniteSet((S \ {c}) \union (IF in THEN {c} ELSE {}))
         /\ Cardinality(S) \in Nat
         /\ Cardinality((S \ {c}) \union (IF in THEN {c} ELSE {}))
                = Cardinality(S) - (IF c \in S THEN 1 ELSE 0) + (IF in THEN 1 ELSE 0)
  <1> DEFINE R == S \ {c}
  <1>1. IsFiniteSet(R) /\ Cardinality(S) \in Nat /\ Cardinality(R) \in Nat
    BY FS_RemoveElement, FS_CardinalityType
  <1>2. Cardinality(R) = Cardinality(S) - (IF c \in S THEN 1 ELSE 0)
    <2>1. CASE c \in S
      BY <2>1, FS_RemoveElement
    <2>2. CASE c \notin S
      <3>1. R = S
        BY <2>2
      <3> QED
        BY <1>1, <2>2, <3>1
    <2> QED
      BY <2>1, <2>2
  <1>3. c \notin R
    OBVIOUS
  <1> HIDE DEF R
  <1>4. IsFiniteSet(R \union {c}) /\ Cardinality(R \union {c}) = Cardinality(R) + 1
    BY <1>1, <1>3, FS_AddElement
  <1>5. R \union {} = R
    OBVIOUS
  <1>6. /\ IsFiniteSet(R \union (IF in THEN {c} ELSE {}))
        /\ Cardinality(R \union (IF in THEN {c} ELSE {})) = Cardinality(R) + (IF in THEN 1 ELSE 0)
    BY <1>1, <1>4, <1>5
  <1> QED
    BY <1>1, <1>2, <1>6 DEF R

(* How many are pending, and how many answers of today are uncounted, after *)
(* one caller has moved on.                                                 *)
LEMMA MovesCount ==
  ASSUME NewsTypes, NEW c \in Callers, NEW x, Moves(c, x)
  PROVE  /\ Cardinality(Pending) \in Nat /\ Cardinality(Uncounted(day)) \in Nat
         /\ Cardinality(Pending)' = Cardinality(Pending)
                - (IF story[c].pc \in {"request", "bump"} THEN 1 ELSE 0)
                + (IF x.pc \in {"request", "bump"} THEN 1 ELSE 0)
         /\ Cardinality(Uncounted(day))' = Cardinality(Uncounted(day))
                - (IF story[c].pc = "bump" /\ story[c].from = day THEN 1 ELSE 0)
                + (IF x.pc = "bump" /\ x.from = day THEN 1 ELSE 0)
  <1>1. IsFiniteSet(Pending) /\ IsFiniteSet(Uncounted(day))
    BY CallersCount, SetsOfCallers
  <1>2. c \in Pending <=> story[c].pc \in {"request", "bump"}
    BY DEF Pending
  <1>3. c \in Uncounted(day) <=> story[c].pc = "bump" /\ story[c].from = day
    BY DEF Uncounted
  <1>4. /\ Cardinality(Pending) \in Nat
        /\ Cardinality((Pending \ {c}) \union (IF x.pc \in {"request", "bump"} THEN {c} ELSE {}))
             = Cardinality(Pending) - (IF c \in Pending THEN 1 ELSE 0)
                + (IF x.pc \in {"request", "bump"} THEN 1 ELSE 0)
    BY <1>1, SwapCount, (x.pc \in {"request", "bump"}) \in BOOLEAN
  <1>5. /\ Cardinality(Uncounted(day)) \in Nat
        /\ Cardinality((Uncounted(day) \ {c})
                \union (IF x.pc = "bump" /\ x.from = day THEN {c} ELSE {}))
             = Cardinality(Uncounted(day)) - (IF c \in Uncounted(day) THEN 1 ELSE 0)
                + (IF x.pc = "bump" /\ x.from = day THEN 1 ELSE 0)
    BY <1>1, SwapCount, (x.pc = "bump" /\ x.from = day) \in BOOLEAN
  <1> QED
    BY <1>2, <1>3, <1>4, <1>5, MovesSets

(* The tables of the days are functions to numbers.                         *)
LEMMA NewsNumbers ==
  ASSUME NewsInv
  PROVE  /\ DailyBudget \in Nat /\ LastDay \in Nat /\ day \in 0 .. LastDay /\ day \in Nat
         /\ Cardinality(Callers) \in Nat /\ Cardinality(Callers) >= 1
         /\ \A d \in 0 .. LastDay : usage[d] \in Nat /\ answered[d] \in Nat /\ lost[d] \in Nat
  BY NewsAssumption, CallersCount DEF NewsInv, NewsTypes

(* A caller goes on without having passed the check.                        *)
LEMMA NewsInvQuiet ==
  ASSUME NewsInv, NEW c \in Callers, NEW x, Moves(c, x), IsStory(x),
         x.pc \notin {"request", "bump"}, story[c].pc # "bump",
         UNCHANGED <<usage, answered, lost>>
  PROVE  NewsInv'
  <1>1. NewsTypes'
    BY MovesSets DEF NewsInv, NewsTypes, Moves
  <1>2. TodayIsKnown'
    <2>1. Cardinality(Uncounted(day))' = Cardinality(Uncounted(day))
      BY MovesCount DEF NewsInv
    <2> QED
      BY <2>1 DEF NewsInv, TodayIsKnown, Moves
  <1>3. PendingFits'
    <2>1. /\ Cardinality(Pending)' <= Cardinality(Pending)
          /\ Cardinality(Pending) \in Nat /\ Cardinality(Pending)' \in Int
      BY MovesCount DEF NewsInv
    <2>2. Pending' \subseteq Pending
      BY MovesSets DEF NewsInv
    <2>3. usage[day] + Cardinality(Pending)' <= DailyBudget + Cardinality(Callers) - 1
      BY <2>1, NewsNumbers DEF NewsInv, PendingFits
    <2> QED
      BY <2>2, <2>3 DEF NewsInv, PendingFits, Moves
  <1>4. OtherDaysFit'
    BY DEF NewsInv, OtherDaysFit, Moves
  <1> QED
    BY <1>1, <1>2, <1>3, <1>4 DEF NewsInv

(* A caller passes the check.                                               *)
LEMMA NewsInvPass ==
  ASSUME NewsInv, NEW c \in Callers, NEW x, Moves(c, x), IsStory(x),
         x.pc = "request", story[c].pc = "check", MayAsk,
         UNCHANGED <<usage, answered, lost>>
  PROVE  NewsInv'
  <1>1. NewsTypes'
    BY MovesSets DEF NewsInv, NewsTypes, Moves
  <1>2. TodayIsKnown'
    <2>1. Cardinality(Uncounted(day))' = Cardinality(Uncounted(day))
      BY MovesCount DEF NewsInv
    <2> QED
      BY <2>1 DEF NewsInv, TodayIsKnown, Moves
  <1>3. PendingFits'
    <2>1. Pending' \in SUBSET Callers
      BY MovesSets, SetsOfCallers DEF NewsInv
    <2>2. Cardinality(Pending') <= Cardinality(Callers) /\ Cardinality(Pending') \in Nat
      BY <2>1, CallersCount
    <2>3. usage[day] < DailyBudget
      BY DEF MayAsk
    <2>4. usage[day] + Cardinality(Pending') <= DailyBudget + Cardinality(Callers) - 1
      BY <2>2, <2>3, NewsNumbers
    <2>5. DailyBudget # 0
      BY <2>3, NewsNumbers
    <2> QED
      BY <2>4, <2>5 DEF PendingFits, Moves
  <1>4. OtherDaysFit'
    BY DEF NewsInv, OtherDaysFit, Moves
  <1> QED
    BY <1>1, <1>2, <1>3, <1>4 DEF NewsInv

(* GNews answers.                                                           *)
LEMMA NewsInvAnswer ==
  ASSUME NewsInv, NEW c \in Callers, NEW x, Moves(c, x), IsStory(x),
         x.pc = "bump", x.from = day, story[c].pc = "request",
         answered' = [answered EXCEPT ![day] = @ + 1],
         UNCHANGED <<usage, lost>>
  PROVE  NewsInv'
  <1>1. NewsTypes'
    <2>1. answered \in [0 .. LastDay -> Nat] /\ answered[day] + 1 \in Nat
      BY NewsNumbers DEF NewsInv, NewsTypes
    <2>2. answered' \in [0 .. LastDay -> Nat]
      BY <2>1
    <2> QED
      BY <2>2, MovesSets DEF NewsInv, NewsTypes, Moves
  <1>2. answered'[day] = answered[day] + 1
        /\ \A d \in 0 .. LastDay : d # day => answered'[d] = answered[d]
    BY NewsNumbers DEF NewsInv, NewsTypes
  <1>3. TodayIsKnown'
    <2>1. Cardinality(Uncounted(day))' = Cardinality(Uncounted(day)) + 1
          /\ Cardinality(Uncounted(day)) \in Nat
      BY MovesCount DEF NewsInv
    <2>2. answered'[day] <= usage[day] + lost[day] + Cardinality(Uncounted(day))'
      BY <1>2, <2>1, NewsNumbers DEF NewsInv, TodayIsKnown
    <2> QED
      BY <2>2 DEF TodayIsKnown, Moves
  <1>4. PendingFits'
    <2>1. Cardinality(Pending)' = Cardinality(Pending)
      BY MovesCount DEF NewsInv
    <2>2. Pending # {}
      BY DEF Pending
    <2> QED
      BY <2>1, <2>2 DEF NewsInv, PendingFits, Moves
  <1>5. OtherDaysFit'
    <2>1. \A d \in 0 .. LastDay : d < day \/ d > day => d # day
      BY NewsNumbers
    <2> QED
      BY <1>2, <2>1 DEF NewsInv, OtherDaysFit, Moves
  <1> QED
    BY <1>1, <1>3, <1>4, <1>5 DEF NewsInv

(* An answer is counted today, or is lost: not counted on its day or never. *)
LEMMA NewsInvSettle ==
  ASSUME NewsInv, NEW c \in Callers, NEW x, Moves(c, x), IsStory(x),
         x.pc \notin {"request", "bump"}, story[c].pc = "bump",
         NEW n \in {0, 1}, NEW m \in {0, 1},
         usage' = [usage EXCEPT ![day] = @ + n],
         lost' = [lost EXCEPT ![story[c].from] = @ + m],
         story[c].from = day => n + m >= 1,
         UNCHANGED answered
  PROVE  NewsInv'
  <1>1. story[c].from \in 0 .. LastDay /\ story[c].from <= day
    BY NewsNumbers DEF NewsInv, NewsTypes, IsStory
  <1>2. NewsTypes'
    <2>1. usage[day] + n \in Nat /\ lost[story[c].from] + m \in Nat
      BY <1>1, NewsNumbers
    <2>2. usage' \in [0 .. LastDay -> Nat] /\ lost' \in [0 .. LastDay -> Nat]
      BY <2>1 DEF NewsInv, NewsTypes
    <2> QED
      BY <2>2, MovesSets DEF NewsInv, NewsTypes, Moves
  <1>3. /\ usage'[day] = usage[day] + n
        /\ \A d \in 0 .. LastDay : d # day => usage'[d] = usage[d]
        /\ \A d \in 0 .. LastDay : lost'[d] \in Nat /\ lost'[d] >= lost[d]
        /\ story[c].from = day => lost'[day] = lost[day] + m
    <2>1. /\ usage'[day] = usage[day] + n
          /\ \A d \in 0 .. LastDay : d # day => usage'[d] = usage[d]
      BY NewsNumbers DEF NewsInv, NewsTypes
    <2>2. \A d \in 0 .. LastDay :
            lost[d] \in Nat /\ lost'[d] = IF d = story[c].from THEN lost[d] + m ELSE lost[d]
      BY <1>1 DEF NewsInv, NewsTypes
    <2> QED
      BY <1>1, <2>1, <2>2, NewsNumbers
  <1>4. TodayIsKnown'
    <2>1. /\ Cardinality(Uncounted(day)) \in Nat
          /\ Cardinality(Uncounted(day))' = Cardinality(Uncounted(day))
                - (IF story[c].from = day THEN 1 ELSE 0)
      BY MovesCount DEF NewsInv
    <2>2. answered[day] <= usage'[day] + lost'[day] + Cardinality(Uncounted(day))'
      BY <1>3, <2>1, NewsNumbers DEF NewsInv, TodayIsKnown
    <2> QED
      BY <2>2 DEF TodayIsKnown, Moves
  <1>5. PendingFits'
    <2>1. Cardinality(Pending)' = Cardinality(Pending) - 1 /\ Cardinality(Pending) \in Nat
      BY MovesCount DEF NewsInv
    <2>2. Pending # {}
      BY DEF Pending
    <2>3. usage'[day] + Cardinality(Pending)' <= DailyBudget + Cardinality(Callers) - 1
      BY <1>3, <2>1, NewsNumbers DEF NewsInv, PendingFits
    <2> QED
      BY <2>2, <2>3 DEF NewsInv, PendingFits, Moves
  <1>6. OtherDaysFit'
    <2> SUFFICES ASSUME NEW d \in 0 .. LastDay
                 PROVE  /\ d < day => answered[d] <= DailyBudget + Cardinality(Callers)
                           - 1 + lost'[d]
                        /\ d > day => answered[d] = 0 /\ usage'[d] = 0
      BY DEF OtherDaysFit, Moves
    <2>1. d < day => answered[d] <= DailyBudget + Cardinality(Callers) - 1 + lost'[d]
      BY <1>3, NewsNumbers DEF NewsInv, OtherDaysFit
    <2>2. d > day => d # day
      BY NewsNumbers
    <2> QED
      BY <1>3, <2>1, <2>2 DEF NewsInv, OtherDaysFit
  <1> QED
    BY <1>2, <1>4, <1>5, <1>6 DEF NewsInv

(* Midnight: nobody has counted anything today.                             *)
LEMMA NewsInvMidnight ==
  ASSUME NewsInv, Midnight
  PROVE  NewsInv'
  <1>1. day' = day + 1 /\ day' \in 0 .. LastDay /\ UNCHANGED <<usage, answered, lost, story>>
    BY NewsNumbers DEF Midnight
  <1>2. NewsTypes'
    <2>1. \A o \in Callers : IsStory(story[o])'
      BY <1>1, NewsNumbers DEF NewsInv, NewsTypes, IsStory
    <2> QED
      BY <1>1, <2>1 DEF NewsInv, NewsTypes
  <1>3. usage[day'] = 0 /\ answered[day'] = 0 /\ lost[day'] \in Nat
    BY <1>1, NewsNumbers DEF NewsInv, OtherDaysFit
  <1>4. TodayIsKnown'
    <2>1. Uncounted(day)' \in SUBSET Callers
      BY DEF Uncounted
    <2>2. Cardinality(Uncounted(day)') \in Nat
      BY <2>1, CallersCount
    <2> QED
      BY <1>1, <1>3, <2>2 DEF TodayIsKnown
  <1>5. PendingFits'
    <2>1. Pending' = Pending
      BY <1>1 DEF Pending
    <2>2. Cardinality(Pending) \in Nat /\ Cardinality(Pending) <= Cardinality(Callers)
      BY SetsOfCallers, CallersCount
    <2>3. DailyBudget = 0 => Cardinality(Pending) = 0
      BY FS_EmptySet DEF NewsInv, PendingFits
    <2>4. Cardinality(Pending) <= DailyBudget + Cardinality(Callers) - 1
      BY <2>2, <2>3, NewsNumbers
    <2> QED
      BY <1>1, <1>3, <2>1, <2>2, <2>4 DEF NewsInv, PendingFits
  <1>6. OtherDaysFit'
    <2> SUFFICES ASSUME NEW d \in 0 .. LastDay
                 PROVE  /\ d < day + 1 => answered[d] <= DailyBudget + Cardinality(Callers)
                           - 1 + lost[d]
                        /\ d > day + 1 => answered[d] = 0 /\ usage[d] = 0
      BY <1>1 DEF OtherDaysFit
    <2>1. answered[d] <= DailyBudget + Cardinality(Callers) - 1 + lost[d]
      BY NewsInvTells DEF NewsStaysInBudget
    <2>2. d > day + 1 => d > day
      BY NewsNumbers
    <2> QED
      BY <2>1, <2>2 DEF NewsInv, OtherDaysFit
  <1> QED
    BY <1>2, <1>4, <1>5, <1>6 DEF NewsInv
(* What a field of a request becomes.                                       *)
LEMMA StoryFieldSet ==
  ASSUME NEW x, x = [f \in StoryFields |-> x[f]], NEW k \in StoryFields, NEW v, NEW y,
         y = [x EXCEPT ![k] = v]
  PROVE  /\ DOMAIN y = StoryFields /\ y = [f \in StoryFields |-> y[f]]
         /\ y[k] = v /\ \A f \in StoryFields \ {k} : y[f] = x[f]
  <1>1. y = [f \in StoryFields |-> IF f = k THEN v ELSE x[f]]
    OBVIOUS
  <1> QED
    BY <1>1

(* A request at a line that is not "bump" has a story for every field.      *)
LEMMA MovesTo ==
  ASSUME NewsInv, NEW c \in Callers, NEW p, day' = day,
         story' = [story EXCEPT ![c].pc = p], p # "bump"
  PROVE  \E x : Moves(c, x) /\ IsStory(x) /\ x.pc = p
  <1> DEFINE y == [story[c] EXCEPT !.pc = p]
  <1>1. story[c] = [f \in StoryFields |-> story[c][f]] /\ story' = [story EXCEPT ![c] = y]
    BY DEF NewsInv, NewsTypes, IsStory
  <1>2. DOMAIN y = StoryFields /\ y = [f \in StoryFields |-> y[f]] /\ y["pc"] = p
    BY <1>1, StoryFieldSet, "pc" \in StoryFields DEF StoryFields
  <1> HIDE DEF y
  <1>3. Moves(c, y) /\ IsStory(y) /\ y.pc = p
    BY <1>1, <1>2 DEF Moves, IsStory
  <1> QED
    BY <1>3

(* Every step of a request, and midnight, keep it.                          *)
LEMMA NewsInvStep == NewsInv /\ NewsStep => NewsInv'
  <1> SUFFICES ASSUME NewsInv, NewsStep PROVE NewsInv'
    OBVIOUS
  <1>1. CASE Midnight
    BY <1>1, NewsInvMidnight
  <1>2. ASSUME NEW c \in Callers, AskSentiment(c) PROVE NewsInv'
    <2>1. PICK x : Moves(c, x) /\ IsStory(x) /\ x.pc = "check"
      BY <1>2, MovesTo DEF AskSentiment
    <2> QED
      BY <1>2, <2>1, NewsInvQuiet DEF AskSentiment
  <1>3. ASSUME NEW c \in Callers, CheckBudget(c) PROVE NewsInv'
    <2>1. CASE MayAsk /\ story' = [story EXCEPT ![c].pc = "request"]
      <3>1. PICK x : Moves(c, x) /\ IsStory(x) /\ x.pc = "request"
        BY <1>3, <2>1, MovesTo DEF CheckBudget
      <3> QED
        BY <1>3, <2>1, <3>1, NewsInvPass DEF CheckBudget
    <2>2. CASE story' = [story EXCEPT ![c].pc = "rss"]
      <3>1. PICK x : Moves(c, x) /\ IsStory(x) /\ x.pc = "rss"
        BY <1>3, <2>2, MovesTo DEF CheckBudget
      <3> QED
        BY <1>3, <3>1, NewsInvQuiet DEF CheckBudget
    <2> QED
      BY <1>3, <2>1, <2>2 DEF CheckBudget
  <1>4. ASSUME NEW c \in Callers, AskGNews(c) PROVE NewsInv'
    <2>1. CASE story' = [story EXCEPT ![c].pc = "rss"] /\ UNCHANGED answered
      <3>1. PICK x : Moves(c, x) /\ IsStory(x) /\ x.pc = "rss"
        BY <1>4, <2>1, MovesTo DEF AskGNews
      <3> QED
        BY <1>4, <2>1, <3>1, NewsInvQuiet DEF AskGNews
    <2>2. ASSUME NEW a,
                 story' = [story EXCEPT ![c].pc = "bump", ![c].from = day, ![c].articles = a],
                 answered' = [answered EXCEPT ![day] = @ + 1]
          PROVE  NewsInv'
      <3> DEFINE y == [story[c] EXCEPT !.pc = "bump"]
                 z == [y EXCEPT !.from = day]
                 x == [z EXCEPT !.articles = a]
      <3>1. story[c] = [f \in StoryFields |-> story[c][f]] /\ story' = [story EXCEPT ![c] = x]
        BY <2>2 DEF NewsInv, NewsTypes, IsStory
      <3>2. y = [f \in StoryFields |-> y[f]] /\ y["pc"] = "bump"
        BY <3>1, StoryFieldSet, "pc" \in StoryFields DEF StoryFields
      <3> HIDE DEF y
      <3>3. z = [f \in StoryFields |-> z[f]] /\ z["pc"] = "bump" /\ z["from"] = day
        BY <3>2, StoryFieldSet, "from" \in StoryFields,
           "pc" \in StoryFields \ {"from"} DEF StoryFields
      <3> HIDE DEF z
      <3>4. /\ DOMAIN x = StoryFields /\ x = [f \in StoryFields |-> x[f]]
            /\ x["pc"] = "bump" /\ x["from"] = day
        BY <3>3, StoryFieldSet, "articles" \in StoryFields, "pc" \in StoryFields \ {"articles"},
           "from" \in StoryFields \ {"articles"} DEF StoryFields
      <3> HIDE DEF x
      <3>5. Moves(c, x) /\ IsStory(x)
        <4>1. day \in 0 .. day /\ day' = day
          BY <1>4, NewsNumbers DEF AskGNews
        <4>2. IsStory(x)
          BY <3>4, <4>1 DEF IsStory
        <4> QED
          BY <3>1, <4>1, <4>2 DEF Moves
      <3> QED
        BY <1>4, <2>2, <3>4, <3>5, NewsInvAnswer DEF AskGNews
    <2> QED
      BY <1>4, <2>1, <2>2 DEF AskGNews
  <1>5. ASSUME NEW c \in Callers, Bump(c) PROVE NewsInv'
    <2> DEFINE p == IF story[c].articles = <<>> THEN "rss" ELSE "reddit"
               m == IF day = story[c].from THEN 0 ELSE 1
    <2>1. story' = [story EXCEPT ![c].pc = p] /\ day' = day /\ p \in {"rss", "reddit"}
          /\ m \in {0, 1}
          /\ usage' = [usage EXCEPT ![day] = @ + 1]
          /\ lost' = [lost EXCEPT ![story[c].from] = @ + m]
          /\ story[c].pc = "bump" /\ UNCHANGED answered
      BY <1>5 DEF Bump
    <2>2. 1 + m >= 1
      OBVIOUS
    <2> HIDE DEF p, m
    <2>3. PICK x : Moves(c, x) /\ IsStory(x) /\ x.pc = p
      BY <2>1, MovesTo
    <2> QED
      BY <2>1, <2>2, <2>3, NewsInvSettle
  <1>6. ASSUME NEW c \in Callers, AskRss(c) PROVE NewsInv'
    <2>1. PICK a : story' = [story EXCEPT ![c].pc = "reddit", ![c].articles = a]
      BY <1>6 DEF AskRss
    <2> DEFINE y == [story[c] EXCEPT !.pc = "reddit"]
               x == [y EXCEPT !.articles = a]
    <2>2. story[c] = [f \in StoryFields |-> story[c][f]] /\ story' = [story EXCEPT ![c] = x]
      BY <2>1 DEF NewsInv, NewsTypes, IsStory
    <2>3. y = [f \in StoryFields |-> y[f]] /\ y["pc"] = "reddit"
      BY <2>2, StoryFieldSet, "pc" \in StoryFields DEF StoryFields
    <2> HIDE DEF y
    <2>4. DOMAIN x = StoryFields /\ x = [f \in StoryFields |-> x[f]] /\ x["pc"] = "reddit"
      BY <2>3, StoryFieldSet, "articles" \in StoryFields,
         "pc" \in StoryFields \ {"articles"} DEF StoryFields
    <2> HIDE DEF x
    <2>5. Moves(c, x) /\ IsStory(x)
      BY <1>6, <2>2, <2>4 DEF Moves, IsStory, AskRss
    <2> QED
      BY <1>6, <2>4, <2>5, NewsInvQuiet DEF AskRss
  <1>7. ASSUME NEW c \in Callers, AskReddit(c) PROVE NewsInv'
    <2>1. PICK p, m, b : story' = [story EXCEPT ![c].pc = "done", ![c].posts = p, ![c].macro = m,
                                               ![c].finbert = b]
      BY <1>7 DEF AskReddit
    <2> DEFINE y == [story[c] EXCEPT !.pc = "done"]
               z == [y EXCEPT !.posts = p]
               w == [z EXCEPT !.macro = m]
               x == [w EXCEPT !.finbert = b]
    <2>2. story[c] = [f \in StoryFields |-> story[c][f]] /\ story' = [story EXCEPT ![c] = x]
      BY <2>1 DEF NewsInv, NewsTypes, IsStory
    <2>3. y = [f \in StoryFields |-> y[f]] /\ y["pc"] = "done"
      BY <2>2, StoryFieldSet, "pc" \in StoryFields DEF StoryFields
    <2> HIDE DEF y
    <2>4. z = [f \in StoryFields |-> z[f]] /\ z["pc"] = "done"
      BY <2>3, StoryFieldSet, "posts" \in StoryFields,
         "pc" \in StoryFields \ {"posts"} DEF StoryFields
    <2> HIDE DEF z
    <2>5. w = [f \in StoryFields |-> w[f]] /\ w["pc"] = "done"
      BY <2>4, StoryFieldSet, "macro" \in StoryFields,
         "pc" \in StoryFields \ {"macro"} DEF StoryFields
    <2> HIDE DEF w
    <2>6. DOMAIN x = StoryFields /\ x = [f \in StoryFields |-> x[f]] /\ x["pc"] = "done"
      BY <2>5, StoryFieldSet, "finbert" \in StoryFields,
         "pc" \in StoryFields \ {"finbert"} DEF StoryFields
    <2> HIDE DEF x
    <2>7. Moves(c, x) /\ IsStory(x)
      BY <1>7, <2>2, <2>6 DEF Moves, IsStory, AskReddit
    <2> QED
      BY <1>7, <2>6, <2>7, NewsInvQuiet DEF AskReddit
  <1>8. ASSUME NEW c \in Callers, EndStory(c) PROVE NewsInv'
    <2>1. Moves(c, Untold) /\ IsStory(Untold) /\ Untold.pc = "idle"
      BY <1>8 DEF Moves, IsStory, Untold, StoryFields, EndStory
    <2>2. CASE story[c].pc # "bump"
      BY <1>8, <2>1, <2>2, NewsInvQuiet DEF EndStory
    <2>3. CASE story[c].pc = "bump"
      <3>1. /\ lost' = [lost EXCEPT ![story[c].from] = @ + 1] /\ UNCHANGED <<usage, answered>>
            /\ 0 \in {0, 1} /\ 1 \in {0, 1} /\ 0 + 1 >= 1
        BY <1>8, <2>3 DEF EndStory
      <3>2. usage' = [usage EXCEPT ![day] = @ + 0]
        <4>1. usage[day] + 0 = usage[day]
          BY NewsNumbers
        <4> QED
          BY <3>1, <4>1 DEF NewsInv, NewsTypes
      <3> QED
        BY <2>1, <2>3, <3>1, <3>2, NewsInvSettle
    <2> QED
      BY <2>2, <2>3
  <1> QED
    BY <1>1, <1>2, <1>3, <1>4, <1>5, <1>6, <1>7, <1>8 DEF NewsStep

(* GNews is asked no more than the budget, the concurrent callers and the   *)
(* answers that were lost allow.                                            *)
THEOREM NewsBudgetHolds == Spec => []NewsStaysInBudget
  <1>1. Init => NewsInv
    <2> SUFFICES ASSUME Init PROVE NewsInv
      OBVIOUS
    <2>1. NewsTypes
      <3>1. IsStory(Untold)
        BY DEF IsStory, Untold, StoryFields
      <3>2. DOMAIN story = Callers /\ \A c \in Callers : story[c] = Untold
        BY DEF Init, InitNews
      <3>3. story = [c \in Callers |-> story[c]]
        BY <3>2 DEF Init, InitNews
      <3>4. \A c \in Callers : IsStory(story[c])
        BY <3>1, <3>2
      <3> QED
        BY <3>3, <3>4, NewsAssumption DEF Init, InitNews, NewsTypes
    <2>2. Pending = {} /\ Uncounted(day) = {}
      BY DEF Init, InitNews, Pending, Uncounted, Untold
    <2>3. Cardinality(Pending) = 0 /\ Cardinality(Uncounted(day)) = 0
      BY <2>2, FS_EmptySet
    <2>4. TodayIsKnown
      BY <2>3, NewsAssumption DEF TodayIsKnown, Init, InitNews
    <2>5. PendingFits
      BY <2>2, <2>3, CallersCount, NewsAssumption DEF PendingFits, Init, InitNews
    <2>6. OtherDaysFit
      BY NewsAssumption DEF OtherDaysFit, Init, InitNews
    <2> QED
      BY <2>1, <2>4, <2>5, <2>6 DEF NewsInv
  <1>2. NewsInv /\ [Next]_vars => NewsInv'
    <2>1. NewsInv /\ UNCHANGED newsVars => NewsInv'
      BY DEF newsVars, NewsInv, NewsTypes, IsStory, TodayIsKnown, PendingFits, OtherDaysFit,
             Pending, Uncounted
    <2> QED
      BY <2>1, NewsInvStep DEF Next, vars
  <1> QED
    BY <1>1, <1>2, NewsInvTells, PTL DEF Spec
-----------------------------------------------------------------------------
(* The tokens of Kite.                                                      *)

(* A row of Zerodha is as it was stored: valid until the cutoff after that. *)
TokenInv ==
    /\ clock \in Nat
    /\ DOMAIN account = Tokens
    /\ \A k \in Tokens : account[k] # Null /\ BrokerOf[k] = "zerodha" =>
          /\ account[k].status = "active" /\ account[k].stub = FALSE
          /\ account[k].issued \in 0 .. clock
          /\ account[k].until = LastCutoff(account[k].issued) + DayHours

(* A day has an hour.                                                       *)
LEMMA DayHasHours == DayHours \in Nat /\ DayHours > 0 /\ CutHour \in Nat /\ CutHour < DayHours
  BY SessionAssumption

(* Hours that have the same place in their days are whole days apart.       *)
LEMMA DaysApart ==
  ASSUME NEW a \in Int, NEW b \in Int, a % DayHours = b % DayHours, a < b
  PROVE  b >= a + DayHours
  <1> DEFINE D == DayHours
             p == a \div D
             q == b \div D
             r == a % D
  <1>1. a = D * p + r /\ b = D * q + r /\ p \in Int /\ q \in Int /\ r \in Int /\ D \in Int /\ D > 0
    BY DayHasHours
  <1> HIDE DEF D, p, q, r
  <1>2. D * (q - p) = D * q - D * p
    BY <1>1
  <1>3. D * (q - p) > 0
    BY <1>1, <1>2
  <1>4. q - p >= 1
    BY <1>1, <1>3
  <1>5. D * (q - p) >= D
    BY <1>1, <1>4
  <1> QED
    BY <1>1, <1>2, <1>5 DEF D

(* Every day has the hour of the cutoff.                                    *)
LEMMA CutoffOfDay ==
  ASSUME NEW q \in Int
  PROVE  (DayHours * q + CutHour) % DayHours = CutHour
  BY DayHasHours

(* The last cutoff is at the cutoff's hour, not later than now and less     *)
(* than a day ago.                                                          *)
LEMMA CutoffIsLast ==
  ASSUME NEW n \in Nat
  PROVE  /\ LastCutoff(n) \in Int
         /\ LastCutoff(n) % DayHours = CutHour
         /\ LastCutoff(n) <= n /\ n < LastCutoff(n) + DayHours
  <1> DEFINE r == n % DayHours
             t == n - r + CutHour
  <1>1. r \in Int /\ 0 <= r /\ r < DayHours /\ t \in Int
    BY DayHasHours
  <1>2. PICK q \in Int : t = DayHours * q + CutHour
    <2>1. n - r = DayHours * (n \div DayHours) /\ n \div DayHours \in Int
      BY DayHasHours
    <2> QED
      BY <2>1
  <1>3. LastCutoff(n) = IF n >= t THEN t ELSE t - DayHours
    BY DEF LastCutoff
  <1>4. t % DayHours = CutHour /\ (t - DayHours) % DayHours = CutHour
    <2>1. DayHours * (q - 1) = DayHours * q - DayHours
      BY DayHasHours
    <2>2. q - 1 \in Int /\ t - DayHours = DayHours * (q - 1) + CutHour
      BY <1>2, <2>1, DayHasHours
    <2> HIDE DEF t
    <2> QED
      BY <1>2, <2>2, CutoffOfDay
  <1>5. t - DayHours <= n /\ n < t + DayHours
    BY <1>1, DayHasHours
  <1> HIDE DEF t, r
  <1> QED
    BY <1>1, <1>3, <1>4, <1>5, DayHasHours

(* Kite has refused since the cutoff after the token was issued.            *)
LEMMA KiteRefusesAt ==
  ASSUME NEW i \in Nat, NEW n \in Nat, i <= n
  PROVE  (\E c \in i + 1 .. n : c % DayHours = CutHour)
         <=> LastCutoff(i) + DayHours <= LastCutoff(n)
  <1> DEFINE a == LastCutoff(i)
             b == LastCutoff(n)
  <1>1. /\ a \in Int /\ a % DayHours = CutHour /\ a <= i /\ i < a + DayHours
        /\ b \in Int /\ b % DayHours = CutHour /\ b <= n /\ n < b + DayHours
    BY CutoffIsLast
  <1> HIDE DEF a, b
  <1>2. ASSUME a + DayHours <= b PROVE \E c \in i + 1 .. n : c % DayHours = CutHour
    <2>1. b \in i + 1 .. n
      BY <1>1, <1>2, DayHasHours
    <2> QED
      BY <1>1, <2>1
  <1>3. ASSUME NEW c \in i + 1 .. n, c % DayHours = CutHour PROVE a + DayHours <= b
    <2>1. c \in Int /\ a < c
      BY <1>1, <1>3
    <2>2. c >= a + DayHours
      BY <1>1, <1>3, <2>1, DaysApart
    <2>3. ~(b < c)
      <3> SUFFICES ASSUME b < c PROVE FALSE
        OBVIOUS
      <3>1. c >= b + DayHours
        BY <1>1, <1>3, <2>1, DaysApart
      <3> QED
        BY <1>1, <1>3, <3>1, DayHasHours
    <2> QED
      BY <1>1, <2>1, <2>2, <2>3, DayHasHours
  <1> QED
    BY <1>2, <1>3 DEF a, b

(* The dashboard shows an account as connected as long as Kite accepts it,  *)
(* and the adapter refuses no token that Kite accepts.                      *)
THEOREM TokensJudged == Spec => []TokensAreJudgedRight
  <1>1. Init => TokenInv
    BY SessionAssumption DEF Init, InitSessions, TokenInv
  <1>2. TokenInv /\ SessionStep => TokenInv'
    <2> SUFFICES ASSUME TokenInv, SessionStep PROVE TokenInv'
      OBVIOUS
    <2>1. CASE Elapse
      BY <2>1 DEF Elapse, TokenInv, LastCutoff
    <2>2. ASSUME NEW k \in Tokens, LinkAlpaca(k) PROVE TokenInv'
      BY <2>2 DEF LinkAlpaca, TokenInv, LastCutoff
    <2>3. ASSUME NEW k \in Tokens, LinkZerodha(k) PROVE TokenInv'
      <3>1. account' = [account EXCEPT ![k] = Row(clock, LastCutoff(clock) + DayHours, FALSE)]
            /\ clock' = clock
        BY <2>3 DEF LinkZerodha
      <3>2. clock \in 0 .. clock
        BY DEF TokenInv
      <3> QED
        BY <3>1, <3>2 DEF TokenInv, Row, LastCutoff
    <2>4. ASSUME NEW k \in Tokens, RetireStub(k) PROVE TokenInv'
      <3>1. BrokerOf[k] # "zerodha"
        BY <2>4 DEF RetireStub, TokenInv
      <3> QED
        BY <2>4, <3>1 DEF RetireStub, TokenInv, LastCutoff
    <2>5. ASSUME NEW k \in Tokens, Call(k) PROVE TokenInv'
      BY <2>5 DEF Call, TokenInv, LastCutoff
    <2> QED
      BY <2>1, <2>2, <2>3, <2>4, <2>5 DEF SessionStep
  <1>3. TokenInv => TokensAreJudgedRight
    <2> SUFFICES ASSUME TokenInv, NEW k \in Tokens, account[k] # Null, BrokerOf[k] = "zerodha"
                 PROVE  /\ (StatusOf(k) = "connected") <=> KiteAccepts(k)
                        /\ Preflight(k) => ~KiteAccepts(k)
      BY DEF TokensAreJudgedRight
    <2> DEFINE i == account[k].issued
    <2>1. /\ i \in Nat /\ i <= clock /\ clock \in Nat /\ account[k].status = "active"
          /\ account[k].until = LastCutoff(i) + DayHours
      BY DEF TokenInv
    <2>2. LastCutoff(i) + DayHours \in Int /\ LastCutoff(clock) \in Int
      BY <2>1, CutoffIsLast, DayHasHours
    <2>3. ~KiteAccepts(k) <=> LastCutoff(i) + DayHours <= LastCutoff(clock)
      BY <2>1, KiteRefusesAt DEF KiteAccepts
    <2>4. StatusOf(k) = IF LastCutoff(i) + DayHours <= LastCutoff(clock)
                        THEN "auth_expired" ELSE "connected"
      BY <2>1, <2>2, SessionAssumption, ScoresAssumption DEF StatusOf
    <2>5. Preflight(k) => LastCutoff(i) + DayHours <= LastCutoff(clock)
      BY <2>1, <2>2 DEF Preflight
    <2> QED
      BY <2>3, <2>4, <2>5
  <1>4. TokenInv /\ [Next]_vars => TokenInv'
    <2>1. TokenInv /\ UNCHANGED sessionVars => TokenInv'
      BY DEF sessionVars, TokenInv, LastCutoff
    <2> QED
      BY <1>2, <2>1 DEF Next, vars
  <1> QED
    BY <1>1, <1>3, <1>4, PTL DEF Spec
-----------------------------------------------------------------------------
(* The rates.                                                               *)

(* A worker has a rate of a day in hand.                                    *)
MoneyInv ==
    /\ today \in Days
    /\ DOMAIN rates = Days
    /\ DOMAIN fx = Refreshers
    /\ \A w \in Refreshers : fx[w].pc = "upsert" => fx[w].day \in Days /\ fx[w].rate # Null

(* A set of numbers that are not beyond a bound has a greatest one.         *)
LEMMA MaxIsGreatest ==
  ASSUME NEW S \in SUBSET Int, S # {}, NEW b \in Int, \A x \in S : x <= b
  PROVE  Max(S) \in S /\ \A x \in S : x <= Max(S)
  <1>1. PICK m \in S : \A x \in S : x <= m
    BY GreatestExists
  <1>2. \A x \in S : m >= x
    BY <1>1
  <1>3. Max(S) \in S /\ \A y \in S : Max(S) >= y
    BY <1>1, <1>2, Zenon DEF Max
  <1> QED
    BY <1>3

(* The days that have a row, and the one that is always there.              *)
KnownDays(table) == {-1} \union {d \in Days : table[d] # Null}

(* A day whose row is there is not after the newest.                        *)
LEMMA NewestIsGreatest ==
  ASSUME NEW table
  PROVE  /\ Max(KnownDays(table)) \in KnownDays(table) /\ Max(KnownDays(table)) \in Int
         /\ \A d \in KnownDays(table) : d <= Max(KnownDays(table))
  <1> DEFINE S == KnownDays(table)
  <1>1. S \in SUBSET Int /\ S # {} /\ MaxDay \in Int /\ \A x \in S : x <= MaxDay
    BY MoneyAssumption DEF Days, KnownDays
  <1> HIDE DEF S
  <1>2. Max(S) \in S /\ \A x \in S : x <= Max(S)
    BY <1>1, MaxIsGreatest
  <1> QED
    BY <1>1, <1>2 DEF S

(* No row goes.                                                             *)
LEMMA NewestStays ==
  ASSUME \A d \in Days : rates[d] # Null => rates'[d] # Null
  PROVE  Newest' >= Newest
  <1>1. Newest = Max(KnownDays(rates)) /\ Newest' = Max(KnownDays(rates'))
    BY DEF Newest, KnownDays
  <1>2. KnownDays(rates) \subseteq KnownDays(rates')
    BY DEF KnownDays
  <1>3. Max(KnownDays(rates)) <= Max(KnownDays(rates'))
    BY <1>2, NewestIsGreatest
  <1> QED
    BY <1>1, <1>3, NewestIsGreatest

(* No step loses a row.                                                     *)
LEMMA MoneyInvStep == MoneyInv /\ MoneyStep => MoneyInv' /\ Newest' >= Newest
  <1> SUFFICES ASSUME MoneyInv, MoneyStep PROVE MoneyInv' /\ Newest' >= Newest
    OBVIOUS
  <1>1. CASE NextDay
    BY <1>1, NewestStays, MoneyAssumption DEF NextDay, MoneyInv, Days
  <1>2. ASSUME NEW k \in DOMAIN bench, ForgetReturn(k) PROVE MoneyInv' /\ Newest' >= Newest
    BY <1>2, NewestStays DEF ForgetReturn, MoneyInv
  <1>3. ASSUME NEW w \in Refreshers, FetchRate(w) PROVE MoneyInv' /\ Newest' >= Newest
    <2>1. PICK s \in DOMAIN RateOn, d \in 0 .. today :
              fx' = [fx EXCEPT ![w] = [pc |-> "upsert", day |-> d, rate |-> RateOn[s][d]]]
      BY <1>3 DEF FetchRate
    <2>2. d \in Days /\ RateOn[s][d] # Null
      BY MoneyAssumption, ScoresAssumption DEF MoneyInv, Days
    <2>3. today' = today /\ rates' = rates
      BY <1>3 DEF FetchRate
    <2> QED
      BY <2>1, <2>2, <2>3, NewestStays DEF MoneyInv
  <1>4. ASSUME NEW w \in Refreshers, StoreRate(w) PROVE MoneyInv' /\ Newest' >= Newest
    <2>1. fx[w].day \in Days /\ fx[w].rate # Null
      BY <1>4 DEF StoreRate, MoneyInv
    <2>2. rates' = [rates EXCEPT ![fx[w].day] = fx[w].rate] /\ today' = today
          /\ fx' = [fx EXCEPT ![w] = Rested]
      BY <1>4 DEF StoreRate, Upserted
    <2>3. \A d \in Days : rates[d] # Null => rates'[d] # Null
      BY <2>1, <2>2 DEF MoneyInv
    <2>4. Rested.pc # "upsert"
      BY DEF Rested
    <2> HIDE DEF Rested
    <2> QED
      BY <2>2, <2>3, <2>4, NewestStays DEF MoneyInv
  <1>5. ASSUME NEW w \in Refreshers, LoseRate(w) PROVE MoneyInv' /\ Newest' >= Newest
    <2>1. Rested.pc # "upsert"
      BY DEF Rested
    <2> QED
      BY <1>5, <2>1, NewestStays DEF LoseRate, MoneyInv
  <1>6. ASSUME NEW q \in Readers, UNCHANGED <<today, rates, fx>>
        PROVE  MoneyInv' /\ Newest' >= Newest
    BY <1>6, NewestStays DEF MoneyInv
  <1>7. ASSUME NEW q \in Readers,
               \/ \E kind \in {"summary", "intelligence"}, base \in Bases : ReadRows(q, kind, base)
               \/ ReadRate(q) \/ RatesRead(q) \/ GetReturn(q) \/ EndRequest(q)
        PROVE  MoneyInv' /\ Newest' >= Newest
    <2>1. UNCHANGED <<today, rates, fx>>
      BY <1>7 DEF ReadRows, ReadRate, RatesRead, GetReturn, EndRequest
    <2> QED
      BY <2>1, <1>6
  <1> QED
    BY <1>1, <1>2, <1>3, <1>4, <1>5, <1>7 DEF MoneyStep

(* The newest day whose rate is known never goes back.                      *)
THEOREM RatesAdvance == Spec => RatesOnlyAdvance
  <1>1. Init => MoneyInv
    BY MoneyAssumption DEF Init, InitMoney, MoneyInv, Rested, Days
  <1>2. MoneyInv /\ [Next]_vars => MoneyInv' /\ [Newest' >= Newest]_moneyVars
    <2>1. MoneyInv /\ UNCHANGED moneyVars => MoneyInv'
      BY DEF moneyVars, MoneyInv
    <2> QED
      BY MoneyInvStep, <2>1 DEF Next, vars
  <1> QED
    BY <1>1, <1>2, PTL DEF Spec, RatesOnlyAdvance

-----------------------------------------------------------------------------
(* The blends.                                                              *)

Numbers(v) == \A k \in DOMAIN v : v[k] \in MaybeInt
Weighs(w, v) ==
    /\ \A k \in Present(v) : w[k] \in Nat
    /\ Present(v) # {} => \E k \in Present(v) : w[k] > 0

(* A blend of numbers is between the least and the greatest of them, and    *)
(* there is one when there is a number.                                     *)
LEMMA BlendIsBetween ==
  ASSUME NEW v, NEW w, IsFiniteSet(DOMAIN v), Numbers(v), Weighs(w, v)
  PROVE  /\ Blend(w, v).num \in Int /\ Blend(w, v).den \in Nat
         /\ Between(Blend(w, v), v)
         /\ Present(v) = {} <=> Blend(w, v).den = 0
  <1> DEFINE S == Present(v)
             f == [k \in S |-> w[k] * v[k]]
             n == SumFunctionOnSet(f, S)
             d == SumFunctionOnSet(w, S)
  <1>1. IsFiniteSet(S) /\ \A k \in S : v[k] \in Int /\ w[k] \in Nat
    BY FS_Subset DEF Present, Numbers, Weighs, MaybeInt
  <1>2. \A k \in S : f[k] = w[k] * v[k] /\ f[k] \in Int
    <2>1. ASSUME NEW k \in S PROVE f[k] = w[k] * v[k] /\ f[k] \in Int
      <3>1. v[k] \in Int /\ w[k] \in Int
        BY <1>1
      <3>2. w[k] * v[k] \in Int
        BY <3>1
      <3> QED
        BY <3>2
    <2> QED
      BY <2>1
  <1>3. Blend(w, v).num = n /\ Blend(w, v).den = d
    BY DEF Blend
  <1>4. S = {} => n = 0 /\ d = 0
    BY SumEmpty
  <1>5. S # {} => \E k \in S : w[k] > 0
    BY DEF Weighs
  <1> HIDE DEF S, f
  <1>6. n \in Int
    BY <1>1, <1>2, SumInt
  <1>7. d \in Nat /\ (d = 0 <=> \A k \in S : w[k] = 0)
    BY <1>1, SumNat
  <1> HIDE DEF n, d
  <1>8. S = {} <=> d = 0
    BY <1>1, <1>4, <1>5, <1>7
  <1>9. ASSUME S # {} PROVE /\ \E k \in S : v[k] * d <= n
                            /\ \E k \in S : n <= v[k] * d
    <2>1. PICK a \in S, b \in S : \A k \in S : v[a] <= v[k] /\ v[k] <= v[b]
      BY <1>1, <1>9, ExtremesExist
    <2> DEFINE g == [k \in S |-> v[a] * w[k]]
               h == [k \in S |-> v[b] * w[k]]
    <2>2. v[a] \in Int /\ v[b] \in Int
      BY <1>1
    <2>3. ASSUME NEW k \in S
          PROVE  /\ g[k] = v[a] * w[k] /\ h[k] = v[b] * w[k]
                 /\ g[k] \in Int /\ h[k] \in Int /\ f[k] \in Int
                 /\ g[k] <= f[k] /\ f[k] <= h[k]
      <3>1. v[k] \in Int /\ w[k] \in Nat /\ v[a] <= v[k] /\ v[k] <= v[b]
        BY <1>1, <2>1
      <3>2. ASSUME NEW x \in Int, NEW y \in Int, NEW z \in Nat, x <= y PROVE x * z <= z * y
        BY <3>2
      <3>3. v[a] * w[k] <= w[k] * v[k]
        BY <2>2, <3>1, <3>2
      <3>4. ASSUME NEW x \in Int, NEW y \in Int, NEW z \in Nat, x <= y PROVE z * x <= y * z
        BY <3>4
      <3>5. w[k] * v[k] <= v[b] * w[k]
        BY <2>2, <3>1, <3>4
      <3>6. v[a] * w[k] \in Int /\ v[b] * w[k] \in Int
        BY <2>2, <3>1
      <3>7. g[k] = v[a] * w[k] /\ h[k] = v[b] * w[k]
        OBVIOUS
      <3> HIDE DEF g, h
      <3> QED
        BY <1>2, <3>3, <3>5, <3>6, <3>7
    <2> HIDE DEF g, h
    <2>4. SumFunctionOnSet(g, S) <= n
      BY <1>1, <2>3, SumMonotonic DEF n
    <2>5. n <= SumFunctionOnSet(h, S)
      BY <1>1, <2>3, SumMonotonic DEF n
    <2>6. \A k \in S : w[k] \in Int
      BY <1>1
    <2>7. SumFunctionOnSet(g, S) = v[a] * d
      BY <1>1, <2>2, <2>3, <2>6, SumScaled DEF d
    <2>8. SumFunctionOnSet(h, S) = v[b] * d
      BY <1>1, <2>2, <2>3, <2>6, SumScaled DEF d
    <2> QED
      BY <2>4, <2>5, <2>7, <2>8
  <1>10. Between(Blend(w, v), v)
    <2>1. S # {} => d > 0
      BY <1>7, <1>8
    <2> QED
      BY <1>3, <1>9, <2>1 DEF S, Between
  <1> QED
    BY <1>3, <1>6, <1>7, <1>8, <1>10 DEF S

(* Rounded down it is on the scale of the numbers.                          *)
LEMMA FloorOfBlend ==
  ASSUME NEW v, NEW w, NEW lo \in Int, NEW hi \in Int, IsFiniteSet(DOMAIN v),
         Numbers(v), Within(v, lo, hi), Weighs(w, v)
  PROVE  /\ Present(v) = {} => Floor(Blend(w, v)) = Null
         /\ Present(v) # {} => Floor(Blend(w, v)) \in lo .. hi
  <1> DEFINE f == Blend(w, v)
  <1>1. /\ f.num \in Int /\ f.den \in Nat /\ Between(f, v)
        /\ Present(v) = {} <=> f.den = 0
    BY BlendIsBetween
  <1> HIDE DEF f
  <1>2. ASSUME Present(v) # {} PROVE f.num \div f.den \in lo .. hi
    <2>1. PICK a \in Present(v), b \in Present(v) :
              v[a] * f.den <= f.num /\ f.num <= v[b] * f.den
      BY <1>1, <1>2 DEF Between
    <2>2. v[a] \in lo .. hi /\ v[b] \in lo .. hi
      BY DEF Within
    <2>3. ASSUME NEW n \in Int, NEW d \in Nat, d > 0, NEW x \in Int, NEW y \in Int,
                 x * d <= n, n <= y * d
          PROVE  x <= n \div d /\ n \div d <= y /\ n \div d \in Int
      BY <2>3
    <2>4. f.den > 0
      BY <1>1, <1>2
    <2> QED
      BY <1>1, <2>1, <2>2, <2>3, <2>4
  <1> QED
    BY <1>1, <1>2 DEF Floor, f

(* The two ranges that scores are clamped to.                                 *)
LEMMA ClampIsWithin ==
  ASSUME NEW x \in Int
  PROVE  /\ Clamp(x, -100, 100) \in -100 .. 100
         /\ Clamp(x, 0, 100) \in 0 .. 100
  BY DEF Clamp

(* Division that rounds down stays in the integers.                           *)
LEMMA QuotientIsInt ==
  ASSUME NEW a \in Int, NEW b \in Int, b > 0
  PROVE  a \div b \in Int
  OBVIOUS

(* Engines have no more than six voices.                                    *)
LEMMA SixAreFinite ==
  ASSUME NEW a, NEW b, NEW c, NEW d, NEW e, NEW f
  PROVE  IsFiniteSet({a, b, c, d, e, f})
  <1>1. IsFiniteSet({})
    BY FS_EmptySet
  <1>2. IsFiniteSet({} \cup {a})
    BY <1>1, FS_AddElement
  <1>3. IsFiniteSet(({} \cup {a}) \cup {b})
    BY <1>2, FS_AddElement
  <1>4. IsFiniteSet((({} \cup {a}) \cup {b}) \cup {c})
    BY <1>3, FS_AddElement
  <1>5. IsFiniteSet(((({} \cup {a}) \cup {b}) \cup {c}) \cup {d})
    BY <1>4, FS_AddElement
  <1>6. IsFiniteSet((((({} \cup {a}) \cup {b}) \cup {c}) \cup {d}) \cup {e})
    BY <1>5, FS_AddElement
  <1>7. IsFiniteSet(((((({} \cup {a}) \cup {b}) \cup {c}) \cup {d}) \cup {e}) \cup {f})
    BY <1>6, FS_AddElement
  <1>8. ((((({} \cup {a}) \cup {b}) \cup {c}) \cup {d}) \cup {e}) \cup {f} = {a, b, c, d, e, f}
    OBVIOUS
  <1> QED
    BY <1>7, <1>8

(* The signals of the technical engine, each in -100 .. 100.                *)
LEMMA EachSignal ==
  ASSUME NEW m, IsReading(m)
  PROVE  {RsiSignal(m), MacdSignal(m), MaSignal(m), BollingerSignal(m), VolumeSignal(m),
          AtrSignal(m)} \subseteq -100 .. 100
  <1>1. /\ m.bars \in Nat /\ m.gain \in Nat /\ m.loss \in Nat /\ m.close \in Nat
        /\ m.range \in Nat
        /\ m.hist \in Int /\ m.sma20 \in Int /\ m.sma50 \in Int /\ m.sma200 \in Int
        /\ m.previous \in Int /\ m.vol \in Int /\ m.avgVol \in Int
        /\ m.lower \in Int /\ m.upper \in Int /\ m.lower <= m.upper
    BY DEF IsReading
  <1>2. RsiSignal(m) \in -100 .. 100
    <2> DEFINE q == (250 * (m.loss - m.gain)) \div (m.gain + m.loss)
    <2>1. ASSUME m.gain + m.loss # 0 PROVE q \in Int
      BY <1>1, <2>1, QuotientIsInt
    <2>2. RsiSignal(m) = IF m.gain + m.loss = 0 THEN 0 ELSE Clamp(q, -100, 100)
      BY DEF RsiSignal
    <2> HIDE DEF q
    <2> QED
      BY <2>1, <2>2, ClampIsWithin
  <1>3. MacdSignal(m) \in -100 .. 100
    <2> DEFINE q == (10000 * m.hist) \div (3 * m.close)
    <2>1. ASSUME m.close # 0 PROVE q \in Int
      BY <1>1, <2>1, QuotientIsInt
    <2>2. MacdSignal(m) = IF m.close = 0 THEN 0 ELSE Clamp(q, -100, 100)
      BY DEF MacdSignal
    <2> HIDE DEF q
    <2> QED
      BY <2>1, <2>2, ClampIsWithin
  <1>4. MaSignal(m) \in -100 .. 100
    <2> DEFINE vote(x, y) == IF x > y THEN 1 ELSE -1
               n == vote(m.sma20, m.sma50) + vote(m.sma50, m.sma200) + vote(m.sma20, m.sma200)
    <2>1. n \in -3 .. 3
      BY <1>1
    <2>2. MaSignal(m) = (100 * n) \div 3
      BY DEF MaSignal
    <2> HIDE DEF n
    <2> QED
      BY <2>1, <2>2
  <1>5. BollingerSignal(m) \in -100 .. 100
    <2> DEFINE q == 100 - (200 * (m.close - m.lower)) \div (m.upper - m.lower)
    <2>1. ASSUME m.upper # m.lower PROVE q \in Int
      <3>1. (200 * (m.close - m.lower)) \div (m.upper - m.lower) \in Int
        BY <1>1, <2>1, QuotientIsInt
      <3> QED
        BY <3>1
    <2>2. BollingerSignal(m) = IF m.upper = m.lower THEN 0 ELSE Clamp(q, -100, 100)
      BY DEF BollingerSignal
    <2> HIDE DEF q
    <2> QED
      BY <2>1, <2>2, ClampIsWithin
  <1>6. VolumeSignal(m) \in -100 .. 100
    <2> DEFINE q == (50 * (m.vol - m.avgVol)) \div m.avgVol
               c == Clamp(q, 0, 100)
    <2>1. ASSUME m.avgVol > 0 PROVE c \in 0 .. 100
      <3>1. q \in Int
        BY <1>1, <2>1, QuotientIsInt
      <3> HIDE DEF q
      <3> QED
        BY <3>1, ClampIsWithin
    <2>2. Sign(m.close - m.previous) \in {-1, 0, 1}
      BY DEF Sign
    <2>3. VolumeSignal(m) = IF m.avgVol <= 0 THEN 0 ELSE Sign(m.close - m.previous) * c
      BY DEF VolumeSignal
    <2> HIDE DEF c
    <2> QED
      BY <1>1, <2>1, <2>2, <2>3
  <1>7. AtrSignal(m) \in -100 .. 100
    <2> DEFINE p == (2000 * m.range) \div m.close
               q == 100 - (20000 * m.range) \div (3 * m.close)
    <2>1. ASSUME m.close # 0, 1000 * m.range <= 15 * m.close PROVE p \in 0 .. 30
      <3>1. ASSUME NEW a \in Nat, NEW b \in Nat, b > 0, a <= 30 * b PROVE a \div b \in 0 .. 30
        BY <3>1
      <3>2. 2000 * m.range \in Nat /\ m.close > 0 /\ 2000 * m.range <= 30 * m.close
        BY <1>1, <2>1
      <3> QED
        BY <1>1, <3>1, <3>2
    <2>2. ASSUME m.close # 0 PROVE q \in Int
      <3>1. (20000 * m.range) \div (3 * m.close) \in Int
        BY <1>1, <2>2, QuotientIsInt
      <3> QED
        BY <3>1
    <2>3. AtrSignal(m) = IF m.close = 0 THEN 0
                         ELSE IF 1000 * m.range <= 15 * m.close THEN 30 - p
                         ELSE Clamp(q, -100, 100)
      BY DEF AtrSignal
    <2> HIDE DEF p, q
    <2>4. CASE m.close = 0
      BY <2>3, <2>4
    <2>5. CASE m.close # 0 /\ 1000 * m.range <= 15 * m.close
      BY <2>1, <2>3, <2>5
    <2>6. CASE m.close # 0 /\ ~(1000 * m.range <= 15 * m.close)
      BY <2>2, <2>3, <2>6, ClampIsWithin
    <2> QED
      BY <2>4, <2>5, <2>6
  <1> QED
    BY <1>2, <1>3, <1>4, <1>5, <1>6, <1>7

Voices == {"rsi", "macd", "ma", "bollinger", "volume", "atr"}

(* TechnicalAnalysis: each of the six voices is within -100 .. 100, or        *)
(* silent.                                                                    *)
LEMMA SignalsAreWithin ==
  ASSUME NEW m, IsReading(m)
  PROVE  /\ DOMAIN Signals(m) = Voices /\ IsFiniteSet(Voices)
         /\ Numbers(Signals(m)) /\ Within(Signals(m), -100, 100)
         /\ Weighs(TechnicalWeights, Signals(m))
  <1> DEFINE all == [rsi |-> RsiSignal(m), macd |-> MacdSignal(m), ma |-> MaSignal(m),
                     bollinger |-> BollingerSignal(m), volume |-> VolumeSignal(m),
                     atr |-> AtrSignal(m)]
             v == Signals(m)
  <1>1. \A k \in Voices : all[k] \in -100 .. 100
    <2>1. /\ all["rsi"] \in -100 .. 100 /\ all["macd"] \in -100 .. 100
          /\ all["ma"] \in -100 .. 100 /\ all["bollinger"] \in -100 .. 100
          /\ all["volume"] \in -100 .. 100 /\ all["atr"] \in -100 .. 100
      BY EachSignal
    <2> HIDE DEF all
    <2> QED
      BY <2>1 DEF Voices
  <1>2. DOMAIN MinBars = Voices
    BY DEF MinBars, Voices
  <1>3. v = [k \in Voices |-> IF m.bars < 30 \/ m.bars < MinBars[k] THEN Null ELSE all[k]]
    BY <1>2 DEF Signals
  <1> HIDE DEF all, v
  <1>4. DOMAIN v = Voices /\ \A k \in Voices : v[k] = Null \/ v[k] \in -100 .. 100
    BY <1>1, <1>3
  <1>5. \A k \in Voices : TechnicalWeights[k] \in Nat /\ TechnicalWeights[k] > 0
    BY DEF Voices, TechnicalWeights
  <1>6. IsFiniteSet(Voices)
    BY SixAreFinite DEF Voices
  <1>7. Numbers(v) /\ Within(v, -100, 100) /\ Weighs(TechnicalWeights, v)
    BY <1>4, <1>5 DEF Numbers, Within, Weighs, Present, MaybeInt
  <1> QED
    BY <1>4, <1>6, <1>7 DEF v

(* The scores of the fundamental engine, each in 0 .. 100.                  *)
Percent == 0 .. 100 \union {Null}

(* A figure that is placed in a range becomes a score from 0 to 100.          *)
LEMMA WindowIsWithin ==
  ASSUME NEW num \in Int, NEW den \in Int, den > 0, NEW lo \in Int, NEW hi \in Int, lo < hi
  PROVE  Window(num, den, lo, hi) \in 0 .. 100
  <1> DEFINE d == (hi - lo) * den
             q == (100 * (100 * num - lo * den)) \div d
  <1>1. d \in Int /\ d > 0
    <2>1. ASSUME NEW a \in Int, NEW b \in Int, a > 0, b > 0 PROVE a * b \in Int /\ a * b > 0
      BY <2>1
    <2> QED
      BY <2>1
  <1>2. q \in Int
    <2>1. lo * den \in Int
      OBVIOUS
    <2>2. 100 * (100 * num - lo * den) \in Int
      BY <2>1
    <2> HIDE DEF d
    <2> QED
      BY <1>1, <2>2, QuotientIsInt
  <1>3. Window(num, den, lo, hi) = Clamp(q, 0, 100)
    BY DEF Window
  <1> HIDE DEF q
  <1> QED
    BY <1>2, <1>3, ClampIsWithin

(* The windows of the debt, of the price over earnings and of the cash flow. *)
LEMMA WindowsOfFacts ==
  ASSUME NEW n \in Int
  PROVE  /\ Window(n, 100, 0, 200) \in 0 .. 100
         /\ Window(n, 100, 1000, 4000) \in 0 .. 100
         /\ \A d \in Int : d > 0 => Window(n, d, 0, 20) \in 0 .. 100
  <1>1. 100 \in Int /\ 100 > 0 /\ 0 \in Int /\ 200 \in Int /\ 0 < 200
    OBVIOUS
  <1>2. Window(n, 100, 0, 200) \in 0 .. 100
    BY <1>1, WindowIsWithin, Zenon
  <1>3. 100 \in Int /\ 100 > 0
    OBVIOUS
  <1>4. Window(n, 100, 1000, 4000) \in 0 .. 100
    <2> DEFINE A == 1000
               B == 4000
    <2>1. A \in Int /\ B \in Int /\ A < B
      OBVIOUS
    <2> HIDE DEF A, B
    <2>2. Window(n, 100, A, B) \in 0 .. 100
      BY <1>3, <2>1, WindowIsWithin, Zenon
    <2> QED
      BY <2>2 DEF A, B
  <1>5. 0 \in Int /\ 20 \in Int /\ 0 < 20
    OBVIOUS
  <1>6. ASSUME NEW d \in Int, d > 0 PROVE Window(n, d, 0, 20) \in 0 .. 100
    BY <1>5, <1>6, WindowIsWithin, Zenon
  <1> QED
    BY <1>2, <1>4, <1>6

(* The growth over a year is a score, or silent.                              *)
LEMMA GrowthIsWithin ==
  ASSUME NEW a \in MaybeInt, NEW b \in MaybeInt, NEW lo \in Int, NEW hi \in Int, lo < hi
  PROVE  Growth(a, b, lo, hi) \in Percent
  <1>1. CASE Null \in {a, b} \/ b = 0
    BY <1>1 DEF Growth, Percent
  <1>2. CASE ~(Null \in {a, b} \/ b = 0)
    <2>1. a \in Int /\ b \in Int /\ b # 0
      BY <1>2 DEF MaybeInt
    <2>2. a - b \in Int /\ Abs(b) \in Int /\ Abs(b) > 0
      BY <2>1 DEF Abs
    <2>3. Window(a - b, Abs(b), lo, hi) \in 0 .. 100
      BY <2>2, WindowIsWithin
    <2> QED
      BY <1>2, <2>3 DEF Growth, Percent
  <1> QED
    BY <1>1, <1>2

(* The price-earnings ratio, taken or worked out, is a number or missing.     *)
LEMMA PeRatioIsNumber ==
  ASSUME NEW f, IsFiling(f)
  PROVE  PeRatio(f) \in MaybeInt
  <1>1. f.pe \in MaybeInt /\ f.price \in MaybeInt /\ f.eps \in MaybeInt
    BY DEF IsFiling
  <1>2. CASE f.pe # Null \/ Null \in {f.price, f.eps} \/ f.eps = 0
    BY <1>1, <1>2 DEF PeRatio, MaybeInt
  <1>3. CASE ~(f.pe # Null \/ Null \in {f.price, f.eps} \/ f.eps = 0)
    <2> DEFINE q == (100 * f.price) \div Abs(f.eps)
    <2>1. f.price \in Int /\ f.eps \in Int /\ f.eps # 0
      BY <1>1, <1>3 DEF MaybeInt
    <2>2. Abs(f.eps) \in Int /\ Abs(f.eps) > 0 /\ Sign(f.eps) \in {-1, 0, 1}
      BY <2>1 DEF Abs, Sign
    <2>3. q \in Int
      BY <2>1, <2>2, QuotientIsInt
    <2>4. PeRatio(f) = Sign(f.eps) * q
      BY <1>3 DEF PeRatio
    <2> HIDE DEF q
    <2> QED
      BY <2>2, <2>3, <2>4 DEF MaybeInt
  <1> QED
    BY <1>2, <1>3

Concepts == {"revenue", "earnings", "debt", "pe", "cash"}

(* FundamentalAnalysis: each of the five sub-scores is a score, or silent ... *)
LEMMA EachFundamental ==
  ASSUME NEW f, IsFiling(f)
  PROVE  /\ DOMAIN Fundamentals(f) = Concepts
         /\ \A k \in Concepts : Fundamentals(f)[k] \in Percent
  <1> DEFINE v == Fundamentals(f)
  <1>1. /\ f.revenue \in MaybeInt /\ f.revenuePrior \in MaybeInt /\ f.earnings \in MaybeInt
        /\ f.earningsPrior \in MaybeInt /\ f.debt \in MaybeInt /\ f.fcf \in MaybeInt
    BY DEF IsFiling
  <1>2. /\ v.revenue = Growth(f.revenue, f.revenuePrior, -10, 30)
        /\ v.earnings = Growth(f.earnings, f.earningsPrior, -20, 30)
        /\ v.debt = (IF f.debt = Null THEN Null ELSE 100 - Window(f.debt, 100, 0, 200))
        /\ v.pe = PeScore(f)
        /\ v.cash = (IF Null \in {f.fcf, f.revenue} \/ f.revenue = 0 THEN Null
                     ELSE Window(Sign(f.revenue) * f.fcf, Abs(f.revenue), 0, 20))
        /\ DOMAIN v = Concepts
    BY DEF Fundamentals, Concepts
  <1> HIDE DEF v
  <1>3. v.revenue \in Percent
    BY <1>2, <1>1, GrowthIsWithin
  <1>4. v.earnings \in Percent
    BY <1>2, <1>1, GrowthIsWithin
  <1>5. v.debt \in Percent
    <2>1. CASE f.debt = Null
      BY <1>2, <2>1 DEF Percent
    <2>2. CASE f.debt # Null
      <3>1. f.debt \in Int
        BY <1>1, <2>2 DEF MaybeInt
      <3>2. Window(f.debt, 100, 0, 200) \in 0 .. 100
        BY <3>1, WindowsOfFacts
      <3>3. v.debt = 100 - Window(f.debt, 100, 0, 200)
        BY <1>2, <2>2
      <3> QED
        BY <3>2, <3>3 DEF Percent
    <2> QED
      BY <2>1, <2>2
  <1>6. v.pe \in Percent
    <2> DEFINE pe == PeRatio(f)
    <2>1. v.pe = IF pe = Null THEN Null
                 ELSE IF pe <= 0 THEN Null ELSE 100 - Window(pe, 100, 1000, 4000)
      BY <1>2 DEF PeScore
    <2> HIDE DEF pe
    <2>2. CASE pe = Null \/ pe <= 0
      BY <2>1, <2>2 DEF Percent
    <2>3. CASE ~(pe = Null \/ pe <= 0)
      <3>1. pe \in Int
        BY <2>3, PeRatioIsNumber DEF MaybeInt, pe
      <3>2. Window(pe, 100, 1000, 4000) \in 0 .. 100
        BY <3>1, WindowsOfFacts
      <3> QED
        BY <2>1, <2>3, <3>2 DEF Percent
    <2> QED
      BY <2>2, <2>3
  <1>7. v.cash \in Percent
    <2>1. CASE Null \in {f.fcf, f.revenue} \/ f.revenue = 0
      BY <1>2, <2>1 DEF Percent
    <2>2. CASE ~(Null \in {f.fcf, f.revenue} \/ f.revenue = 0)
      <3>1. f.fcf \in Int /\ f.revenue \in Int /\ f.revenue # 0
        BY <1>1, <2>2 DEF MaybeInt
      <3>2. Sign(f.revenue) * f.fcf \in Int /\ Abs(f.revenue) \in Int /\ Abs(f.revenue) > 0
        BY <3>1 DEF Sign, Abs
      <3>3. Window(Sign(f.revenue) * f.fcf, Abs(f.revenue), 0, 20) \in 0 .. 100
        BY <3>2, WindowsOfFacts
      <3>4. v.cash = Window(Sign(f.revenue) * f.fcf, Abs(f.revenue), 0, 20)
        BY <1>2, <2>2
      <3> QED
        BY <3>3, <3>4 DEF Percent
    <2> QED
      BY <2>1, <2>2
  <1>8. \A k \in Concepts : v[k] \in Percent
    BY <1>3, <1>4, <1>5, <1>6, <1>7 DEF Concepts
  <1> QED
    BY <1>2, <1>8 DEF v

(* Scores in 0 .. 100 that all have a weight make a blend.                  *)
LEMMA PercentsBlend ==
  ASSUME NEW v, NEW w, \A k \in DOMAIN v : v[k] \in Percent /\ w[k] \in Nat \ {0}
  PROVE  Numbers(v) /\ Within(v, 0, 100) /\ Weighs(w, v)
  BY DEF Numbers, Within, Weighs, Present, Percent, MaybeInt

(* ... so that their blend is one of numbers within 0 .. 100.                 *)
LEMMA FundamentalsAreWithin ==
  ASSUME NEW f, IsFiling(f)
  PROVE  /\ IsFiniteSet(DOMAIN Fundamentals(f))
         /\ Numbers(Fundamentals(f)) /\ Within(Fundamentals(f), 0, 100)
         /\ Weighs(FundamentalWeights, Fundamentals(f))
  <1>1. \A k \in Concepts : FundamentalWeights[k] \in Nat \ {0}
    BY DEF Concepts, FundamentalWeights
  <1>2. IsFiniteSet(Concepts)
    <2>1. Concepts = {"revenue", "earnings", "debt", "pe", "cash", "cash"}
      BY DEF Concepts
    <2> QED
      BY <2>1, SixAreFinite
  <1> QED
    BY <1>1, <1>2, EachFundamental, PercentsBlend

(* The scores of the risk engine.                                           *)
LEMMA SequenceIsFinite ==
  ASSUME NEW S, NEW s \in Seq(S)
  PROVE  /\ DOMAIN s = 1 .. Len(s) /\ Len(s) \in Nat /\ IsFiniteSet(DOMAIN s)
         /\ \A k \in DOMAIN s : s[k] \in S
  <1>1. DOMAIN s = 1 .. Len(s) /\ Len(s) \in Nat /\ \A k \in DOMAIN s : s[k] \in S
    OBVIOUS
  <1>2. IsFiniteSet(1 .. Len(s))
    BY <1>1, FS_Interval
  <1> QED
    BY <1>1, <1>2

(* The five saturations that RiskScore and the risk meter use.                *)
LEMMA SaturateIsWithin ==
  ASSUME NEW x \in MaybeInt
  PROVE  /\ Saturate(x, 5, 60) \in Percent /\ Saturate(x, 0, 60) \in Percent
         /\ Saturate(x, 0, 50) \in Percent /\ Saturate(x, 0, 400) \in Percent
         /\ Saturate(x, -100, 200) \in Percent
  <1>1. CASE x = Null
    BY <1>1 DEF Saturate, Percent
  <1>2. CASE x # Null
    <2>1. x \in Int
      BY <1>2 DEF MaybeInt
    <2>2. Saturate(x, 5, 60) \in Percent
      BY <1>2, <2>1, ClampIsWithin DEF Saturate, Percent
    <2>3. Saturate(x, 0, 60) \in Percent
      BY <1>2, <2>1, ClampIsWithin DEF Saturate, Percent
    <2>4. Saturate(x, 0, 50) \in Percent
      BY <1>2, <2>1, ClampIsWithin DEF Saturate, Percent
    <2>5. Saturate(x, 0, 400) \in Percent
      BY <1>2, <2>1, ClampIsWithin DEF Saturate, Percent
    <2>6. Saturate(x, -100, 200) \in Percent
      BY <1>2, <2>1, ClampIsWithin DEF Saturate, Percent
    <2> QED
      BY <2>2, <2>3, <2>4, <2>5, <2>6
  <1> QED
    BY <1>1, <1>2

(* Filling gaps forward leaves numbers and gaps.                              *)
LEMMA FilledIsNumbers ==
  ASSUME NEW s \in Seq(MaybeInt)
  PROVE  DOMAIN Filled(s) = DOMAIN s /\ \A n \in DOMAIN s : Filled(s)[n] \in MaybeInt
  <1>1. ASSUME NEW n \in DOMAIN s PROVE Filled(s)[n] \in MaybeInt
    <2> DEFINE known == {k \in 1 .. n : s[k] # Null /\ n - k <= FillLimit}
    <2>1. Filled(s)[n] = IF known = {} THEN Null ELSE s[Max(known)]
      BY DEF Filled
    <2>2. ASSUME known # {} PROVE Max(known) \in known
      <3>1. known \in SUBSET Int /\ n \in Int /\ \A x \in known : x <= n
        OBVIOUS
      <3> HIDE DEF known
      <3> QED
        BY <2>2, <3>1, MaxIsGreatest
    <2>3. \A k \in known : s[k] \in MaybeInt
      OBVIOUS
    <2> HIDE DEF known
    <2> QED
      BY <2>1, <2>2, <2>3 DEF MaybeInt
  <1> QED
    BY <1>1 DEF Filled

(* The drawdown from the highest close is a number or missing.                *)
LEMMA DrawdownIsNumber ==
  ASSUME NEW t, NEW n \in Nat, DOMAIN t = 1 .. n, \A k \in 1 .. n : t[k] \in MaybeInt
  PROVE  Drawdown(t) \in MaybeInt
  <1> DEFINE days == Present(t)
             closes == {t[k] : k \in days}
             peak == Max(closes)
             last == Max(days)
             q == (100 * (peak - t[last])) \div peak
  <1>1. Drawdown(t) = IF days = {} THEN Null ELSE IF peak <= 0 THEN Null ELSE q
    BY DEF Drawdown
  <1>2. days \subseteq 1 .. n /\ \A k \in days : t[k] \in Int
    BY DEF Present, MaybeInt
  <1> HIDE DEF days
  <1>3. ASSUME days # {} PROVE peak \in Int /\ t[last] \in Int
    <2>1. IsFiniteSet(days)
      <3>1. IsFiniteSet(1 .. n)
        BY FS_Interval
      <3> QED
        BY <1>2, <3>1, FS_Subset
    <2>2. PICK b \in days : \A k \in days : t[k] <= t[b]
      BY <1>2, <1>3, <2>1, ExtremesExist
    <2>3. closes \in SUBSET Int /\ closes # {} /\ t[b] \in Int /\ \A x \in closes : x <= t[b]
      BY <1>2, <2>2
    <2> HIDE DEF closes
    <2>4. peak \in Int
      BY <2>3, MaxIsGreatest
    <2>5. days \in SUBSET Int /\ n \in Int /\ \A x \in days : x <= n
      BY <1>2
    <2>6. last \in days
      BY <1>3, <2>5, MaxIsGreatest
    <2> QED
      BY <1>2, <2>4, <2>6
  <1> HIDE DEF peak, last
  <1>4. ASSUME days # {}, ~(peak <= 0) PROVE q \in Int
    <2>1. peak \in Int /\ t[last] \in Int /\ peak > 0
      BY <1>3, <1>4
    <2> QED
      BY <2>1, QuotientIsInt
  <1> HIDE DEF q
  <1> QED
    BY <1>1, <1>4 DEF MaybeInt

RiskParts == {"vol", "drawdown", "var"}

(* RiskScore: the three sub-scores are scores, or silent ...                  *)
LEMMA RiskSubScoresAreWithin ==
  ASSUME NEW r, IsExposure(r)
  PROVE  /\ IsFiniteSet(DOMAIN RiskSubScores(r))
         /\ Numbers(RiskSubScores(r)) /\ Within(RiskSubScores(r), 0, 100)
         /\ Weighs(RiskWeights, RiskSubScores(r))
  <1> DEFINE v == RiskSubScores(r)
             x == IF r.vol90 # Null THEN r.vol90 ELSE r.vol30
  <1>1. /\ r.closes \in Seq(MaybeInt) /\ r.vol30 \in MaybeInt /\ r.vol90 \in MaybeInt
        /\ r.var95 \in MaybeInt
    BY DEF IsExposure
  <1>2. /\ v.vol = Saturate(x, 5, 60)
        /\ v.drawdown = Saturate(Drawdown(Filled(r.closes)), 0, 60)
        /\ v.var = (IF r.returns < 30 THEN Null ELSE Saturate(r.var95, 5, 60))
        /\ DOMAIN v = RiskParts
    BY DEF RiskSubScores, RiskParts
  <1>3. x \in MaybeInt
    BY <1>1
  <1> HIDE DEF v, x
  <1>4. Drawdown(Filled(r.closes)) \in MaybeInt
    <2>1. Len(r.closes) \in Nat /\ DOMAIN r.closes = 1 .. Len(r.closes)
      BY <1>1, SequenceIsFinite
    <2> QED
      BY <1>1, <2>1, FilledIsNumbers, DrawdownIsNumber
  <1>5. v.vol \in Percent /\ v.drawdown \in Percent
    BY <1>2, <1>3, <1>4, SaturateIsWithin
  <1>6. v.var \in Percent
    <2>1. Saturate(r.var95, 5, 60) \in Percent
      BY <1>1, SaturateIsWithin
    <2> QED
      BY <1>2, <2>1 DEF Percent
  <1>7. \A k \in DOMAIN v : v[k] \in Percent /\ RiskWeights[k] \in Nat \ {0}
    BY <1>2, <1>5, <1>6 DEF RiskParts, RiskWeights
  <1>8. IsFiniteSet(RiskParts)
    <2>1. RiskParts = {"vol", "drawdown", "var", "var", "var", "var"}
      BY DEF RiskParts
    <2> QED
      BY <2>1, SixAreFinite
  <1>9. Numbers(v) /\ Within(v, 0, 100) /\ Weighs(RiskWeights, v)
    BY <1>7, PercentsBlend
  <1> QED
    BY <1>2, <1>8, <1>9 DEF v

(* ... and so is the answer, also when a short history leaves it to the       *)
(* sector.                                                                    *)
LEMMA RiskScoreIsWithin ==
  ASSUME NEW r, IsExposure(r)
  PROVE  RiskScore(r) \in 0 .. 100
  <1>1. CASE r.returns < 30
    <2>1. \A k \in DOMAIN SectorProxy : SectorProxy[k] \in 0 .. 100
      BY DEF SectorProxy
    <2>2. RiskScore(r) = IF r.sector \in DOMAIN SectorProxy THEN SectorProxy[r.sector] ELSE 55
      BY <1>1 DEF RiskScore
    <2> QED
      BY <2>1, <2>2
  <1>2. CASE ~(r.returns < 30)
    <2> DEFINE v == RiskSubScores(r)
               f == Blend(RiskWeights, v)
    <2>1. RiskScore(r) = IF f.den = 0 THEN 55 ELSE Floor(f)
      BY <1>2 DEF RiskScore
    <2>2. IsFiniteSet(DOMAIN v) /\ Numbers(v) /\ Within(v, 0, 100) /\ Weighs(RiskWeights, v)
      BY RiskSubScoresAreWithin
    <2>3. Present(v) = {} <=> f.den = 0
      BY <2>2, BlendIsBetween
    <2> HIDE DEF v
    <2>4. Present(v) # {} => Floor(f) \in 0 .. 100
      <3>1. 0 \in Int /\ 100 \in Int
        OBVIOUS
      <3> QED
        BY <2>2, <3>1, FloorOfBlend, Zenon
    <2> QED
      BY <2>1, <2>3, <2>4
  <1> QED
    BY <1>1, <1>2

(* The risk meter and the health score.                                     *)

(* The squares of the shares add up to no more than one.                    *)
LEMMA ConcentrationIsWithin ==
  ASSUME NEW values \in Seq(Int)
  PROVE  Concentration(values) \in Percent
  <1> DEFINE D == DOMAIN values
             f == [k \in D |-> Abs(values[k])]
             h == [k \in D |-> values[k] * values[k]]
             g == SumFunctionOnSet(f, D)
             n == SumFunctionOnSet(h, D)
             q == (100 * n) \div (g * g)
  <1>1. IsFiniteSet(D) /\ \A k \in D : values[k] \in Int
    BY SequenceIsFinite
  <1>2. /\ Gross(values) = g
        /\ Concentration(values) = IF g = 0 THEN Null ELSE q
    BY DEF Gross, Concentration, SumFunction
  <1> HIDE DEF D
  <1>3. ASSUME NEW k \in D PROVE f[k] \in Nat /\ h[k] = f[k] * f[k] /\ h[k] \in Nat
    <2>1. values[k] \in Int /\ f[k] = Abs(values[k]) /\ h[k] = values[k] * values[k]
      BY <1>1
    <2>2. ASSUME NEW x \in Int PROVE Abs(x) \in Nat /\ x * x = Abs(x) * Abs(x) /\ x * x \in Nat
      BY DEF Abs
    <2> HIDE DEF f, h
    <2> QED
      BY <2>1, <2>2
  <1> HIDE DEF f, h
  <1>4. g \in Nat
    BY <1>1, <1>3, SumNat
  <1>5. n \in Nat
    BY <1>1, <1>3, SumNat
  <1>6. n <= g * g
    BY <1>1, <1>3, SumOfSquares
  <1> HIDE DEF g, n
  <1>7. ASSUME g # 0 PROVE q \in 0 .. 100
    <2>1. ASSUME NEW a \in Nat, NEW b \in Nat, b > 0, a <= b PROVE (100 * a) \div b \in 0 .. 100
      BY <2>1
    <2>2. ASSUME NEW a \in Nat, a # 0 PROVE a * a \in Nat /\ a * a > 0
      BY <2>2
    <2> QED
      BY <1>4, <1>5, <1>6, <1>7, <2>1, <2>2
  <1> HIDE DEF q
  <1> QED
    BY <1>2, <1>7 DEF Percent

MeterParts == {"concentration", "var", "drawdown", "events"}

(* The four components of the risk meter.                                     *)
LEMMA MeterIsWithin ==
  ASSUME NEW p, IsPanel(p)
  PROVE  /\ IsFiniteSet(DOMAIN Meter(p)) /\ Numbers(Meter(p)) /\ Within(Meter(p), 0, 100)
         /\ Weighs(MeterWeights, Meter(p))
  <1> DEFINE v == Meter(p)
             f == [n \in DOMAIN p.events |->
                      IF p.events[n] \in 0 .. 5 THEN 5 - p.events[n] ELSE 0]
             c == 20 * SumFunction(f)
  <1>1. /\ p.values \in Seq(Int) /\ p.var95 \in MaybeInt /\ p.drawdown \in MaybeInt
        /\ p.events \in Seq(Int) \union {Null}
    BY DEF IsPanel
  <1>2. /\ v.concentration = Concentration(p.values)
        /\ v.var = (IF p.var95 = Null THEN Null ELSE Saturate(p.var95, 0, 50))
        /\ v.drawdown = (IF p.drawdown = Null THEN Null ELSE Saturate(p.drawdown, 0, 400))
        /\ v.events = (IF p.events = Null THEN 0 ELSE Clamp(c, 0, 100))
        /\ DOMAIN v = MeterParts
    BY DEF Meter, MeterParts
  <1> HIDE DEF v
  <1>3. ASSUME p.events # Null PROVE c \in Int
    <2>1. IsFiniteSet(DOMAIN p.events) /\ \A n \in DOMAIN p.events : p.events[n] \in Int
      BY <1>1, <1>3, SequenceIsFinite
    <2>2. \A n \in DOMAIN p.events : f[n] \in Int
      BY <2>1
    <2>3. SumFunction(f) = SumFunctionOnSet(f, DOMAIN p.events)
      BY DEF SumFunction
    <2> HIDE DEF f
    <2>4. SumFunction(f) \in Int
      BY <2>1, <2>2, <2>3, SumInt
    <2> QED
      BY <2>4
  <1> HIDE DEF c
  <1>4. v.concentration \in Percent
    BY <1>1, <1>2, ConcentrationIsWithin
  <1>5. v.var \in Percent
    <2>1. Saturate(p.var95, 0, 50) \in Percent
      BY <1>1, SaturateIsWithin
    <2> QED
      BY <1>2, <2>1 DEF Percent
  <1>6. v.drawdown \in Percent
    <2>1. Saturate(p.drawdown, 0, 400) \in Percent
      BY <1>1, SaturateIsWithin
    <2> QED
      BY <1>2, <2>1 DEF Percent
  <1>7. v.events \in Percent
    BY <1>2, <1>3, ClampIsWithin DEF Percent
  <1>8. \A k \in DOMAIN v : v[k] \in Percent /\ MeterWeights[k] \in Nat \ {0}
    BY <1>2, <1>4, <1>5, <1>6, <1>7 DEF MeterParts, MeterWeights
  <1>9. IsFiniteSet(MeterParts)
    <2>1. MeterParts = {"concentration", "var", "drawdown", "events", "events", "events"}
      BY DEF MeterParts
    <2> QED
      BY <2>1, SixAreFinite
  <1>10. Numbers(v) /\ Within(v, 0, 100) /\ Weighs(MeterWeights, v)
    BY <1>8, PercentsBlend
  <1> QED
    BY <1>2, <1>9, <1>10 DEF v

(* A mean is on the scale of what it is the mean of.                        *)
LEMMA MeanIsWithin ==
  ASSUME NEW lo \in Int, NEW hi \in Int, NEW v \in Seq(lo .. hi \union {Null})
  PROVE  Mean(v) \in lo .. hi \union {Null}
  <1> DEFINE w == [k \in DOMAIN v |-> 1]
  <1>1. /\ IsFiniteSet(DOMAIN v)
        /\ \A k \in DOMAIN v : v[k] \in lo .. hi \union {Null}
    BY SequenceIsFinite
  <1>2. Numbers(v) /\ Within(v, lo, hi)
    BY <1>1 DEF Numbers, Within, Present, MaybeInt
  <1>3. Weighs(w, v)
    BY DEF Weighs, Present
  <1>4. Mean(v) = Floor(Blend(w, v))
    BY DEF Mean
  <1> HIDE DEF w
  <1> QED
    BY <1>1, <1>2, <1>3, <1>4, FloorOfBlend

HealthParts == {"diversification", "fundamental", "technical", "riskAdjusted"}

(* The four components of the health score.                                   *)
LEMMA HealthIsWithin ==
  ASSUME NEW p, IsPanel(p)
  PROVE  /\ IsFiniteSet(DOMAIN Health(p)) /\ Numbers(Health(p)) /\ Within(Health(p), 0, 100)
         /\ Weighs(HealthWeights, Health(p))
  <1> DEFINE v == Health(p)
             c == Concentration(p.values)
             t == Mean(p.technicals)
             q == (100 * (100 - c)) \div 95
  <1>1. /\ p.values \in Seq(Int) /\ p.sharpe \in MaybeInt
        /\ p.fundamentals \in Seq(0 .. 100 \union {Null})
        /\ p.technicals \in Seq(-100 .. 100 \union {Null})
    BY DEF IsPanel
  <1>2. /\ v.diversification = (IF c = Null THEN Null ELSE Clamp(q, 0, 100))
        /\ v.fundamental = Mean(p.fundamentals)
        /\ v.technical = (IF t = Null THEN Null ELSE (t + 100) \div 2)
        /\ v.riskAdjusted = Saturate(p.sharpe, -100, 200)
        /\ DOMAIN v = HealthParts
    BY DEF Health, HealthParts
  <1>3. c \in Percent
    BY <1>1, ConcentrationIsWithin
  <1>4. t \in -100 .. 100 \union {Null}
    <2>1. -100 \in Int /\ 100 \in Int
      OBVIOUS
    <2> QED
      BY <1>1, <2>1, MeanIsWithin
  <1>5. Mean(p.fundamentals) \in Percent
    <2>1. 0 \in Int /\ 100 \in Int
      OBVIOUS
    <2> QED
      BY <1>1, <2>1, MeanIsWithin DEF Percent
  <1> HIDE DEF v, c, t
  <1>6. v.diversification \in Percent
    <2>1. ASSUME c # Null PROVE q \in Int
      BY <1>3, <2>1 DEF Percent
    <2> HIDE DEF q
    <2> QED
      BY <1>2, <2>1, ClampIsWithin DEF Percent
  <1>7. v.technical \in Percent
    BY <1>2, <1>4 DEF Percent
  <1>8. v.riskAdjusted \in Percent
    BY <1>1, <1>2, SaturateIsWithin
  <1>9. \A k \in DOMAIN v : v[k] \in Percent /\ HealthWeights[k] \in Nat \ {0}
    BY <1>2, <1>5, <1>6, <1>7, <1>8 DEF HealthParts, HealthWeights
  <1>10. IsFiniteSet(HealthParts)
    <2>1. HealthParts = {"diversification", "fundamental", "technical", "riskAdjusted",
                         "riskAdjusted", "riskAdjusted"}
      BY DEF HealthParts
    <2> QED
      BY <2>1, SixAreFinite
  <1>11. Numbers(v) /\ Within(v, 0, 100) /\ Weighs(HealthWeights, v)
    BY <1>9, PercentsBlend
  <1> QED
    BY <1>2, <1>10, <1>11 DEF v

(* The sentiment.                                                           *)
Items == Seq([score : -100 .. 100, age : Nat])
IsMacro(m) == {m.unrate, m.funds, m.gdp} \subseteq MaybeInt

(* What a request has been told.                                            *)
IsTold(s) ==
    /\ s.articles \in Items /\ s.posts \in Items \union {Null}
    /\ s.macro # Null => IsMacro(s.macro)

(* No article is so old that it weighs nothing.                               *)
LEMMA DecayIsPositive ==
  ASSUME NEW age \in Nat
  PROVE  Decay(age) \in Nat \ {0}
  <1> DEFINE m == Min({age, HalfLives})
  <1>1. m = IF age <= HalfLives THEN age ELSE HalfLives
    <2>1. \E x \in {age, HalfLives} : \A y \in {age, HalfLives} : x <= y
      BY DEF HalfLives
    <2>2. m \in {age, HalfLives} /\ \A y \in {age, HalfLives} : m <= y
      BY <2>1, Zenon DEF Min
    <2> HIDE DEF m
    <2> QED
      BY <2>2 DEF HalfLives
  <1>2. Decay(age) = 2 ^ (4 - m)
    BY DEF Decay, HalfLives
  <1> HIDE DEF m
  <1>3. 4 - m \in {0, 1, 2, 3, 4}
    BY <1>1 DEF HalfLives
  <1>4. 2 ^ 0 = 1 /\ 2 ^ 1 = 2 /\ 2 ^ 2 = 4 /\ 2 ^ 3 = 8 /\ 2 ^ 4 = 16
    OBVIOUS
  <1>5. Decay(age) \in {1, 2, 4, 8, 16}
    <2>1. CASE 4 - m = 0
      BY <1>2, <1>4, <2>1
    <2>2. CASE 4 - m = 1
      BY <1>2, <1>4, <2>2
    <2>3. CASE 4 - m = 2
      BY <1>2, <1>4, <2>3
    <2>4. CASE 4 - m = 3
      BY <1>2, <1>4, <2>4
    <2>5. CASE 4 - m = 4
      BY <1>2, <1>4, <2>5
    <2> QED
      BY <1>3, <2>1, <2>2, <2>3, <2>4, <2>5
  <1> QED
    BY <1>5

(* A leg of the sentiment, from articles or posts, is within -100 .. 100.     *)
LEMMA LegIsWithin ==
  ASSUME NEW items \in Items, NEW finbert
  PROVE  Leg(items, finbert) \in -100 .. 100
  <1>1. CASE items = <<>> \/ ~finbert
    BY <1>1 DEF Leg
  <1>2. CASE ~(items = <<>> \/ ~finbert)
    <2> DEFINE D == DOMAIN items
               w == [n \in D |-> Decay(items[n].age)]
               v == [n \in D |-> items[n].score]
    <2>1. IsFiniteSet(D) /\ \A n \in D : items[n] \in [score : -100 .. 100, age : Nat]
      BY SequenceIsFinite DEF Items
    <2>2. D # {}
      <3>1. \A S : \A x \in Seq(S) : x # <<>> => 1 \in DOMAIN x
        OBVIOUS
      <3> QED
        BY <1>2, <3>1 DEF Items
    <2>3. Leg(items, finbert) = Floor(Blend(w, v))
      BY <1>2 DEF Leg
    <2> HIDE DEF D
    <2>4. \A n \in D : v[n] \in -100 .. 100 /\ v[n] # Null
      BY <2>1, ScoresAssumption
    <2>5. \A n \in D : w[n] \in Nat /\ w[n] > 0
      <3>1. ASSUME NEW n \in D PROVE w[n] \in Nat \ {0}
        BY <2>1, DecayIsPositive
      <3> QED
        BY <3>1
    <2>6. DOMAIN v = D
      OBVIOUS
    <2> HIDE DEF v, w
    <2>7. Present(v) = D
      BY <2>4, <2>6 DEF Present
    <2>8. Numbers(v) /\ Within(v, -100, 100) /\ Weighs(w, v)
      BY <2>2, <2>4, <2>5, <2>6, <2>7 DEF Numbers, Within, Weighs, MaybeInt
    <2>9. -100 \in Int /\ 100 \in Int
      OBVIOUS
    <2>10. Present(v) # {} => Floor(Blend(w, v)) \in -100 .. 100
      BY <2>1, <2>6, <2>8, <2>9, FloorOfBlend
    <2> QED
      BY <2>2, <2>3, <2>7, <2>10
  <1> QED
    BY <1>1, <1>2

(* And so is the third, from the series of FRED.                              *)
LEMMA MacroScoreIsWithin ==
  ASSUME NEW m, IsMacro(m)
  PROVE  MacroScore(m) \in -100 .. 100
  <1> DEFINE v == MacroParts(m)
             K == {"unrate", "funds", "gdp"}
             w == [k \in K |-> 1]
             f == Blend(w, v)
  <1>1. m.unrate \in MaybeInt /\ m.funds \in MaybeInt /\ m.gdp \in MaybeInt
    BY DEF IsMacro
  <1>2. ASSUME NEW x \in MaybeInt, x # Null
        PROVE  /\ Clamp(-x, -100, 100) \in -100 .. 100
               /\ Clamp(-2 * x, -100, 100) \in -100 .. 100
               /\ Clamp(x \div 5, -100, 100) \in -100 .. 100
    <2>1. -x \in Int /\ -2 * x \in Int /\ x \div 5 \in Int
      BY <1>2 DEF MaybeInt
    <2> QED
      BY <2>1, ClampIsWithin
  <1>3. /\ v.unrate = (IF m.unrate = Null THEN Null ELSE Clamp(-m.unrate, -100, 100))
        /\ v.funds = (IF m.funds = Null THEN Null ELSE Clamp(-2 * m.funds, -100, 100))
        /\ v.gdp = (IF m.gdp = Null THEN Null ELSE Clamp(m.gdp \div 5, -100, 100))
        /\ DOMAIN v = K
    BY DEF MacroParts
  <1> HIDE DEF v
  <1>4. \A k \in K : v[k] = Null \/ v[k] \in -100 .. 100
    BY <1>1, <1>2, <1>3
  <1>5. Numbers(v) /\ Within(v, -100, 100) /\ Weighs(w, v)
    BY <1>3, <1>4 DEF Numbers, Within, Weighs, Present, MaybeInt
  <1>6. IsFiniteSet(K)
    <2>1. K = {"unrate", "funds", "gdp", "gdp", "gdp", "gdp"}
      OBVIOUS
    <2> QED
      BY <2>1, SixAreFinite
  <1>7. MacroScore(m) = IF f.den = 0 THEN 0 ELSE Floor(f)
    BY DEF MacroScore, v
  <1> HIDE DEF w, K
  <1>8. Present(v) = {} <=> f.den = 0
    BY <1>3, <1>5, <1>6, BlendIsBetween
  <1>9. Present(v) # {} => Floor(f) \in -100 .. 100
    <2>1. -100 \in Int /\ 100 \in Int
      OBVIOUS
    <2> QED
      BY <1>3, <1>5, <1>6, <2>1, FloorOfBlend
  <1> HIDE DEF f
  <1> QED
    BY <1>7, <1>8, <1>9

(* The weights of the legs that are there make a hundred.                   *)
LEMMA LegWeightsMakeOne ==
  ASSUME NEW v, DOMAIN v = {1, 2, 3}, Present(v) # {}
  PROVE  LET w == LegWeights(v[1] # Null, v[2] # Null, v[3] # Null)
         IN  /\ \A n \in Present(v) : w[n] \in Nat /\ w[n] > 0
             /\ SumFunctionOnSet(w, Present(v)) = 100
  <1> DEFINE w == LegWeights(v[1] # Null, v[2] # Null, v[3] # Null)
  <1>1. Present(v) = {n \in {1, 2, 3} : v[n] # Null}
    BY DEF Present
  <1>2. \/ w = <<50, 20, 30>> /\ v[1] # Null /\ v[2] # Null /\ v[3] # Null
        \/ w = <<60, 0, 40>> /\ v[1] # Null /\ v[2] = Null /\ v[3] # Null
        \/ w = <<70, 30, 0>> /\ v[1] # Null /\ v[2] # Null /\ v[3] = Null
        \/ w = <<100, 0, 0>> /\ v[1] # Null /\ v[2] = Null /\ v[3] = Null
        \/ w = <<0, 40, 60>> /\ v[1] = Null /\ v[2] # Null /\ v[3] # Null
        \/ w = <<0, 100, 0>> /\ v[1] = Null /\ v[2] # Null /\ v[3] = Null
        \/ w = <<0, 0, 100>> /\ v[1] = Null /\ v[2] = Null /\ v[3] # Null
    BY <1>1, Zenon DEF LegWeights
  <1> HIDE DEF w
  <1>3. /\ w[1] \in Nat /\ w[2] \in Nat /\ w[3] \in Nat /\ w[1] + w[2] + w[3] = 100
        /\ (w[1] > 0 <=> v[1] # Null) /\ (w[2] > 0 <=> v[2] # Null) /\ (w[3] > 0 <=> v[3] # Null)
    BY <1>2
  <1>4. \A n \in {1, 2, 3} : w[n] \in Nat /\ (w[n] > 0 <=> v[n] # Null)
    BY <1>3
  <1>5. IsFiniteSet({1, 2, 3})
    <2>1. {1, 2, 3} = {1, 2, 3, 3, 3, 3}
      OBVIOUS
    <2> QED
      BY <2>1, SixAreFinite
  <1>6. SumFunctionOnSet(w, {1, 2, 3}) = w[1] + (w[2] + w[3])
    <2> DEFINE A == {1, 2, 3}
               B == {2, 3}
               C == {3}
    <2>1. A \ {1} = B /\ B \ {2} = C /\ C \ {3} = {} /\ 1 \in A /\ 2 \in B /\ 3 \in C
          /\ B \subseteq A /\ C \subseteq A
      OBVIOUS
    <2>2. IsFiniteSet(A) /\ IsFiniteSet(B) /\ IsFiniteSet(C)
          /\ \A n \in A : w[n] \in Int
      BY <1>4, <1>5, <2>1, FS_Subset
    <2> HIDE DEF A, B, C
    <2>3. SumFunctionOnSet(w, A) = w[1] + SumFunctionOnSet(w, B)
      BY <2>1, <2>2, SumTakeOut
    <2>4. SumFunctionOnSet(w, B) = w[2] + SumFunctionOnSet(w, C)
      BY <2>1, <2>2, SumTakeOut
    <2>5. SumFunctionOnSet(w, C) = w[3] + SumFunctionOnSet(w, {})
      BY <2>1, <2>2, SumTakeOut
    <2>6. SumFunctionOnSet(w, C) = w[3]
      BY <1>3, <2>5, SumEmpty
    <2> QED
      BY <2>3, <2>4, <2>6 DEF A
  <1>7. SumFunctionOnSet(w, {1, 2, 3}) = SumFunctionOnSet(w, Present(v))
    <2> DEFINE A == {1, 2, 3}
    <2>1. IsFiniteSet(A) /\ (\A n \in A : w[n] \in Int) /\ Present(v) \in SUBSET A
          /\ \A n \in A \ Present(v) : w[n] = 0
      BY <1>1, <1>4, <1>5
    <2> HIDE DEF A
    <2>2. SumFunctionOnSet(w, A) = SumFunctionOnSet(w, Present(v))
      BY <2>1, SumWithoutZeros
    <2> QED
      BY <2>2 DEF A
  <1>8. SumFunctionOnSet(w, Present(v)) = 100
    BY <1>3, <1>6, <1>7
  <1>9. \A n \in Present(v) : w[n] \in Nat /\ w[n] > 0
    BY <1>1, <1>4
  <1> QED
    BY <1>8, <1>9 DEF w

(* The sentiment lies between its legs, whichever of them are missing.        *)
LEMMA SentimentIsBetween ==
  ASSUME NEW s, IsTold(s)
  PROVE  Between(Sentiment(s), Legs(s)) /\ Within(Legs(s), -100, 100)
  <1> DEFINE v == Legs(s)
             w == LegWeights(v[1] # Null, v[2] # Null, v[3] # Null)
             B == -100 .. 100 \union {Null}
  <1>1. DOMAIN v = {1, 2, 3} /\ v[1] \in B /\ v[2] \in B /\ v[3] \in B
    <2>1. s.articles \in Items /\ (s.posts # Null => s.posts \in Items)
      BY DEF IsTold
    <2>2. Leg(s.articles, s.finbert) \in -100 .. 100
      BY <2>1, LegIsWithin
    <2>3. s.posts # Null => Leg(s.posts, s.finbert) \in -100 .. 100
      BY <2>1, LegIsWithin
    <2>4. s.macro # Null => MacroScore(s.macro) \in -100 .. 100
      BY MacroScoreIsWithin DEF IsTold
    <2>5. /\ v[1] = (IF s.articles = <<>> THEN Null ELSE Leg(s.articles, s.finbert))
          /\ v[2] = (IF s.posts = Null THEN Null ELSE Leg(s.posts, s.finbert))
          /\ v[3] = (IF s.macro = Null THEN Null ELSE MacroScore(s.macro))
          /\ DOMAIN v = {1, 2, 3}
      BY DEF Legs
    <2> HIDE DEF v
    <2> QED
      BY <2>2, <2>3, <2>4, <2>5
  <1>2. Sentiment(s) = [num |-> SumFunctionOnSet([n \in Present(v) |-> w[n] * v[n]], Present(v)),
                        den |-> 100]
    BY DEF Sentiment
  <1> HIDE DEF v
  <1>3. Numbers(v) /\ Within(v, -100, 100)
    BY <1>1 DEF Numbers, Within, Present, MaybeInt
  <1>4. CASE Present(v) = {}
    BY <1>3, <1>4 DEF Between, v
  <1>5. CASE Present(v) # {}
    <2>1. /\ \A n \in Present(v) : w[n] \in Nat /\ w[n] > 0
          /\ SumFunctionOnSet(w, Present(v)) = 100
      BY <1>1, <1>5, LegWeightsMakeOne
    <2> HIDE DEF w
    <2>2. Sentiment(s) = Blend(w, v)
      BY <1>2, <2>1 DEF Blend
    <2>3. Weighs(w, v)
      BY <1>5, <2>1 DEF Weighs
    <2>4. IsFiniteSet({1, 2, 3})
      <3>1. {1, 2, 3} = {1, 2, 3, 3, 3, 3}
        OBVIOUS
      <3> QED
        BY <3>1, SixAreFinite
    <2>5. Between(Blend(w, v), v)
      BY <1>1, <1>3, <2>3, <2>4, BlendIsBetween
    <2> QED
      BY <1>3, <2>2, <2>5 DEF v
  <1> QED
    BY <1>4, <1>5

-----------------------------------------------------------------------------
(* What is answered is a blend of what was read.                            *)

(* The health score was computed of a portfolio.                            *)
IsAnswerOf(a) ==
    /\ DOMAIN a = {"read", "label", "health", "overall", "took"}
    /\ \E p \in Portfolios : a.health = Health(p) /\ a.overall = OverallHealth(p)

PanelInv ==
    /\ portfolio \in Portfolios
    /\ \A v \in Visitors :
          (visit[v].pc = "set" \/ visit[v].answer # Null) => IsAnswerOf(visit[v].answer)
    /\ stored # Null => IsAnswerOf(stored.answer)

(* A request of the health route that moves, with its answer and what it      *)
(* stores.                                                                    *)
LEMMA PanelInvVisit ==
  ASSUME HealthInv, PanelInv, NEW v \in Visitors, NEW p, NEW a,
         visit' = [visit EXCEPT ![v].pc = p, ![v].answer = a],
         (p = "set" \/ a # Null) => IsAnswerOf(a), portfolio' = portfolio,
         stored' # Null => IsAnswerOf(stored'.answer)
  PROVE  PanelInv'
  <1>1. visit = [w \in Visitors |-> [pc |-> visit[w].pc, answer |-> visit[w].answer]]
    BY DEF HealthInv
  <1>2. ASSUME NEW w \in Visitors
        PROVE  /\ visit'[w].answer = IF w = v THEN a ELSE visit[w].answer
               /\ visit'[w].pc = IF w = v THEN p ELSE visit[w].pc
    <2>1. DOMAIN visit = Visitors
      BY <1>1
    <2>2. CASE w # v
      BY <2>1, <2>2
    <2>3. CASE w = v
      <3> DEFINE old == visit[v]
                 y == [old EXCEPT !.pc = p]
                 x == [y EXCEPT !.answer = a]
      <3>1. DOMAIN old = {"pc", "answer"}
        BY <1>1
      <3>2. visit'[v] = x
        BY <2>1
      <3> HIDE DEF old
      <3>3. DOMAIN y = {"pc", "answer"} /\ y.pc = p
        BY <3>1
      <3> HIDE DEF y
      <3>4. x.answer = a /\ x.pc = p
        BY <3>3
      <3> QED
        BY <2>3, <3>2, <3>4
    <2> QED
      BY <2>2, <2>3
  <1>3. \A w \in Visitors :
          (visit'[w].pc = "set" \/ visit'[w].answer # Null) => IsAnswerOf(visit'[w].answer)
    BY <1>2 DEF PanelInv
  <1>4. portfolio' \in Portfolios
    BY DEF PanelInv
  <1> QED
    BY <1>3, <1>4 DEF PanelInv, IsAnswerOf

(* The steps of the panel keep it.                                          *)
LEMMA PanelInvStep == HealthInv /\ PanelInv /\ HealthStep => PanelInv'
  <1> SUFFICES ASSUME HealthInv, PanelInv, HealthStep PROVE PanelInv'
    OBVIOUS
  <1>1. CASE PassHour
    BY <1>1 DEF PassHour, PanelInv, IsAnswerOf
  <1>2. CASE ForgetHealth
    BY <1>2 DEF ForgetHealth, PanelInv, IsAnswerOf
  <1>3. ASSUME NEW c \in Links, SyncLink(c) PROVE PanelInv'
    BY <1>3 DEF SyncLink, PanelInv, IsAnswerOf
  <1>4. ASSUME NEW v \in Visitors, Visit(v) PROVE PanelInv'
    <2>1. /\ visit' = [visit EXCEPT ![v].pc = "compute"]
          /\ portfolio' = portfolio /\ stored' = stored
      BY <1>4 DEF Visit
    <2>2. visit = [w \in Visitors |-> [pc |-> visit[w].pc, answer |-> visit[w].answer]]
      BY DEF HealthInv
    <2>3. \A w \in Visitors : /\ visit'[w].answer = visit[w].answer
                             /\ visit'[w].pc = "set" => visit[w].pc = "set"
      <3>1. ASSUME NEW w \in Visitors
            PROVE  /\ visit'[w].answer = visit[w].answer
                   /\ visit'[w].pc = "set" => visit[w].pc = "set"
        <4>1. DOMAIN visit = Visitors
          BY <2>2
        <4>2. CASE w # v
          BY <2>1, <4>1, <4>2
        <4>3. CASE w = v
          <5> DEFINE old == visit[v]
          <5>1. DOMAIN old = {"pc", "answer"}
            BY <2>2
          <5>2. visit'[v] = [old EXCEPT !.pc = "compute"]
            BY <2>1, <4>1
          <5> HIDE DEF old
          <5>3. visit'[v].answer = old.answer /\ visit'[v].pc = "compute"
            BY <5>1, <5>2
          <5> QED
            BY <4>3, <5>3 DEF old
        <4> QED
          BY <4>2, <4>3
      <3> QED
        BY <3>1
    <2> QED
      BY <2>1, <2>3 DEF PanelInv, IsAnswerOf
  <1>5. ASSUME NEW v \in Visitors, Hit(v) PROVE PanelInv'
    BY <1>5, PanelInvVisit DEF Hit, PanelInv
  <1>6. ASSUME NEW v \in Visitors, EndVisit(v) PROVE PanelInv'
    <2>1. /\ visit' = [visit EXCEPT ![v] = Away]
          /\ Away.answer = Null /\ Away.pc = "idle"
          /\ portfolio' = portfolio /\ stored' = stored
      BY <1>6 DEF EndVisit, Away
    <2>2. \A w \in Visitors :
            /\ visit'[w].answer = IF w = v THEN Null ELSE visit[w].answer
            /\ visit'[w].pc = IF w = v THEN "idle" ELSE visit[w].pc
      BY <2>1 DEF HealthInv
    <2> QED
      BY <2>1, <2>2 DEF PanelInv, IsAnswerOf
  <1>7. ASSUME NEW v \in Visitors, Compute(v) PROVE PanelInv'
    <2>1. IsAnswerOf(Computed)
      BY DEF Computed, IsAnswerOf, PanelInv
    <2> HIDE DEF Computed
    <2> QED
      BY <1>7, <2>1, PanelInvVisit DEF Compute, PanelInv
  <1>8. ASSUME NEW v \in Visitors, SetHealth(v) PROVE PanelInv'
    <2> DEFINE old == visit[v].answer
               a == [old EXCEPT !.took = hour - old.read]
    <2>1. stored' \in {stored, Kept(a)} /\ portfolio' = portfolio
          /\ visit' = [visit EXCEPT ![v].pc = "done", ![v].answer = a]
          /\ visit[v].pc = "set"
      BY <1>8 DEF SetHealth
    <2>2. IsAnswerOf(old)
      BY <2>1 DEF PanelInv
    <2> HIDE DEF old
    <2>3. a.health = old.health /\ a.overall = old.overall /\ DOMAIN a = DOMAIN old
      BY <2>2 DEF IsAnswerOf
    <2> HIDE DEF a
    <2>4. IsAnswerOf(a)
      BY <2>2, <2>3 DEF IsAnswerOf
    <2>5. stored' # Null => IsAnswerOf(stored'.answer)
      BY <2>1, <2>4 DEF Kept, PanelInv
    <2> QED
      BY <2>1, <2>4, <2>5, PanelInvVisit
  <1> QED
    BY <1>1, <1>2, <1>3, <1>4, <1>5, <1>6, <1>7, <1>8 DEF HealthStep

-----------------------------------------------------------------------------
(* What the synthesizer is handed, and what it makes of it.                 *)

(* An opinion is of engines' readings, and its scores are theirs.           *)
OpinionInv ==
    /\ opinion.of.technical # Null => IsReading(opinion.of.technical)
    /\ opinion.of.fundamental # Null => IsFiling(opinion.of.fundamental)
    /\ opinion.of.sentiment \in MaybeInt
    /\ opinion.of.risk # Null => IsExposure(opinion.of.risk)
    /\ opinion.scores = Normalised(opinion.of)

(* Before the first advice nothing has been scored.                           *)
LEMMA OpinionInvStarts == InitAdvice => OpinionInv
  <1> SUFFICES ASSUME InitAdvice PROVE OpinionInv
    OBVIOUS
  <1>1. opinion.of = NoOpinion /\ opinion.scores = NoScores
    BY DEF InitAdvice
  <1>2. /\ NoOpinion.technical = Null /\ NoOpinion.fundamental = Null
        /\ NoOpinion.sentiment = Null /\ NoOpinion.risk = Null
    BY DEF NoOpinion
  <1>3. Normalised(NoOpinion) = NoScores
    <2> HIDE DEF NoOpinion
    <2> QED
      BY <1>2 DEF Normalised, NoScores
  <1> HIDE DEF NoOpinion, NoScores
  <1> QED
    BY <1>1, <1>2, <1>3 DEF OpinionInv, MaybeInt

(* Each advice is of typed readings, and its scores are theirs.               *)
LEMMA OpinionInvConsult == OpinionInv /\ Consult => OpinionInv'
  <1> SUFFICES ASSUME Consult PROVE OpinionInv'
    OBVIOUS
  <1>1. PICK t \in Readings \union {Null}, f \in Filed \union {Null},
             s \in Feelings \union {Null}, r \in Hazards \union {Null}, a \in Ages :
          LET o == [technical |-> t, fundamental |-> f, sentiment |-> s, risk |-> r,
                    age |-> a]
          IN  opinion' = [of |-> o, scores |-> Normalised(o)]
    BY DEF Consult
  <1> DEFINE o == [technical |-> t, fundamental |-> f, sentiment |-> s, risk |-> r, age |-> a]
  <1>2. o.technical = t /\ o.fundamental = f /\ o.sentiment = s /\ o.risk = r
    OBVIOUS
  <1>3. opinion' = [of |-> o, scores |-> Normalised(o)]
    BY <1>1
  <1> HIDE DEF o
  <1>4. opinion'.of = o /\ opinion'.scores = Normalised(o)
    BY <1>3
  <1>5. /\ t # Null => IsReading(t)
        /\ f # Null => IsFiling(f)
        /\ r # Null => IsExposure(r)
        /\ s \in MaybeInt
    BY AdviceAssumption DEF MaybeInt
  <1> QED
    BY <1>2, <1>4, <1>5 DEF OpinionInv

(* A score of 0 .. 100 on the scale of the others.                          *)
LEMMA OfScoreIsWithin ==
  ASSUME NEW x \in Int, NEW d \in {-1, 1}
  PROVE  OfScore(x, d) \in -100 .. 100 \union {Null}
  <1>1. CASE x = Null
    BY <1>1 DEF OfScore
  <1>2. CASE x # Null
    <2>1. 2 * d * (x - 50) \in Int
      OBVIOUS
    <2> QED
      BY <1>2, <2>1, ClampIsWithin DEF OfScore
  <1> QED
    BY <1>1, <1>2

Engines == {"technical", "fundamental", "sentiment", "risk"}

(* The scores are numbers of -100 .. 100, and each has a weight.            *)
LEMMA ScoresAreWithin ==
  ASSUME OpinionInv
  PROVE  /\ DOMAIN opinion.scores = Engines /\ IsFiniteSet(Engines)
         /\ Numbers(opinion.scores) /\ Within(opinion.scores, -100, 100)
         /\ Weighs(SynthWeights, opinion.scores)
  <1> DEFINE o == opinion.of
             v == Normalised(o)
             Scale100 == -100 .. 100 \union {Null}
  <1>1. v["technical"] \in Scale100
    <2>1. CASE o.technical = Null
      BY <2>1 DEF Normalised
    <2>2. CASE o.technical # Null
      <3> DEFINE m == o.technical
                 lo == -100
                 hi == 100
      <3>1. IsReading(m)
        BY <2>2 DEF OpinionInv
      <3>2. /\ IsFiniteSet(DOMAIN Signals(m)) /\ Numbers(Signals(m))
            /\ Within(Signals(m), lo, hi) /\ Weighs(TechnicalWeights, Signals(m))
        BY <3>1, SignalsAreWithin
      <3>3. lo \in Int /\ hi \in Int
        OBVIOUS
      <3>4. v["technical"] = Floor(Technical(m))
        BY <2>2 DEF Normalised
      <3> HIDE DEF lo, hi, m, v
      <3>5. Floor(Blend(TechnicalWeights, Signals(m))) \in lo .. hi \union {Null}
        BY <3>2, <3>3, FloorOfBlend
      <3> QED
        BY <3>4, <3>5 DEF Technical, lo, hi
    <2> QED
      BY <2>1, <2>2
  <1>2. v["fundamental"] \in Scale100
    <2>1. CASE o.fundamental = Null
      BY <2>1 DEF Normalised
    <2>2. CASE o.fundamental # Null
      <3> DEFINE f == o.fundamental
                 lo == 0
                 hi == 100
      <3>1. IsFiling(f)
        BY <2>2 DEF OpinionInv
      <3>2. /\ IsFiniteSet(DOMAIN Fundamentals(f)) /\ Numbers(Fundamentals(f))
            /\ Within(Fundamentals(f), lo, hi) /\ Weighs(FundamentalWeights, Fundamentals(f))
        BY <3>1, FundamentalsAreWithin
      <3>3. lo \in Int /\ hi \in Int
        OBVIOUS
      <3>4. v["fundamental"] = OfScore(Floor(Fundamental(f)), 1)
        BY <2>2 DEF Normalised
      <3> HIDE DEF lo, hi, f, v
      <3> DEFINE x == Floor(Fundamental(f))
      <3>5. x \in lo .. hi \union {Null}
        BY <3>2, <3>3, FloorOfBlend DEF Fundamental
      <3> HIDE DEF x
      <3>6. x # Null => x \in Int
        BY <3>3, <3>5
      <3>7. x = Null => OfScore(x, 1) = Null
        BY DEF OfScore
      <3>8. x # Null => OfScore(x, 1) \in Scale100
        BY <3>6, OfScoreIsWithin
      <3> QED
        BY <3>4, <3>7, <3>8 DEF x
    <2> QED
      BY <2>1, <2>2
  <1>3. v["sentiment"] \in Scale100
    BY ClampIsWithin DEF Normalised, OpinionInv, MaybeInt
  <1>4. v["risk"] \in Scale100
    <2>1. CASE o.risk = Null
      BY <2>1 DEF Normalised
    <2>2. CASE o.risk # Null
      <3> DEFINE x == RiskScore(o.risk)
      <3>1. x \in 0 .. 100
        BY <2>2, RiskScoreIsWithin DEF OpinionInv
      <3>2. v["risk"] = OfScore(x, -1)
        BY <2>2 DEF Normalised
      <3> HIDE DEF x, v
      <3>3. x \in Int
        BY <3>1
      <3> QED
        BY <3>2, <3>3, OfScoreIsWithin
    <2> QED
      BY <2>1, <2>2
  <1>5. DOMAIN v = Engines
    BY DEF Normalised, Engines
  <1> HIDE DEF v
  <1>6. \A k \in Engines : v[k] \in -100 .. 100 \union {Null}
    BY <1>1, <1>2, <1>3, <1>4 DEF Engines
  <1>7. \A k \in Engines : SynthWeights[k] \in Nat /\ SynthWeights[k] > 0
    BY DEF Engines, SynthWeights
  <1>8. IsFiniteSet(Engines)
    <2>1. Engines = {"technical", "fundamental", "sentiment", "risk", "risk", "risk"}
      BY DEF Engines
    <2> QED
      BY <2>1, SixAreFinite
  <1>9. Numbers(v) /\ Within(v, -100, 100) /\ Weighs(SynthWeights, v)
    BY <1>5, <1>6, <1>7 DEF Numbers, Within, Weighs, Present, MaybeInt
  <1>10. opinion.scores = v
    BY DEF OpinionInv, v
  <1> QED
    BY <1>5, <1>8, <1>9, <1>10

(* The advice says on which side of -30 and 30 the composite is.            *)
LEMMA ActionTells ==
  ASSUME NEW f, f.num \in Int, f.den \in Int, f.den > 0
  PROVE  /\ ActionOf(f) \in Buys <=> f.num > 30 * f.den
         /\ ActionOf(f) \in Sells <=> f.num < -30 * f.den
  <1> DEFINE n == f.num
             d == f.den
  <1>1. CASE n > 60 * d
    BY <1>1 DEF ActionOf, Buys, Sells
  <1>2. CASE n > 30 * d /\ n <= 60 * d
    BY <1>2 DEF ActionOf, Buys, Sells
  <1>3. CASE n >= -30 * d /\ n <= 30 * d
    BY <1>3 DEF ActionOf, Buys, Sells
  <1>4. CASE n >= -60 * d /\ n < -30 * d
    BY <1>4 DEF ActionOf, Buys, Sells
  <1>5. CASE n < -60 * d
    BY <1>5 DEF ActionOf, Buys, Sells
  <1> QED
    BY <1>1, <1>2, <1>3, <1>4, <1>5

(* A weight of no more than 30 percent, of an answer that is no further out *)
(* than 100, does not move a composite across zero and beyond 30.           *)
LEMMA AiMovesLittle ==
  ASSUME NEW n \in Int, NEW d \in Nat, NEW w \in 0 .. 30, NEW c \in -100 .. 100
  PROVE  /\ n < 0 => (100 - w) * n + w * c * d <= 30 * (100 * d)
         /\ n > 0 => (100 - w) * n + w * c * d >= -30 * (100 * d)
  <1>1. w * c <= 3000 /\ w * c >= -3000 /\ w * c \in Int
    <2>1. ASSUME NEW x \in Nat, NEW y \in Int, y <= 100, y >= -100
          PROVE  x * y <= x * 100 /\ x * y >= x * (-100) /\ x * y \in Int
      BY <2>1
    <2>2. w * c <= w * 100 /\ w * c >= w * (-100) /\ w * c \in Int
      BY <2>1
    <2> QED
      BY <2>2
  <1>2. w * c * d <= 3000 * d /\ w * c * d >= (-3000) * d /\ w * c * d \in Int
    <2>1. ASSUME NEW x \in Int, NEW a \in Int, NEW b \in Int, a <= x, x <= b
          PROVE  x * d <= b * d /\ a * d <= x * d /\ x * d \in Int
      BY <2>1
    <2> DEFINE x == w * c
               a == -3000
               b == 3000
    <2>2. x \in Int /\ a \in Int /\ b \in Int /\ a <= x /\ x <= b
      BY <1>1
    <2> HIDE DEF x, a, b
    <2>3. x * d <= b * d /\ a * d <= x * d /\ x * d \in Int
      BY <2>1, <2>2
    <2> QED
      BY <2>3 DEF x, a, b
  <1>3. /\ n < 0 => (100 - w) * n <= 0
        /\ n > 0 => (100 - w) * n >= 0
        /\ (100 - w) * n \in Int
    <2>1. ASSUME NEW x \in Nat
          PROVE  /\ n < 0 => x * n <= 0
                 /\ n > 0 => x * n >= 0
                 /\ x * n \in Int
      BY <2>1
    <2>2. 100 - w \in Nat
      OBVIOUS
    <2> DEFINE x == 100 - w
    <2> HIDE DEF x
    <2>3. x \in Nat
      BY <2>2 DEF x
    <2>4. (n < 0 => x * n <= 0) /\ (n > 0 => x * n >= 0) /\ x * n \in Int
      BY <2>1, <2>3
    <2> QED
      BY <2>4 DEF x
  <1> DEFINE p == (100 - w) * n
             r == w * c * d
  <1>4. p \in Int /\ r \in Int
    BY <1>2, <1>3
  <1> HIDE DEF p, r
  <1>5. (n < 0 => p <= 0) /\ (n > 0 => p >= 0) /\ r <= 3000 * d /\ r >= (-3000) * d
    BY <1>2, <1>3 DEF p, r
  <1>6. /\ n < 0 => p + r <= 30 * (100 * d)
        /\ n > 0 => p + r >= -30 * (100 * d)
    BY <1>4, <1>5
  <1> QED
    BY <1>6 DEF p, r

(* So whatever the weight that is configured and whatever the AI answers,   *)
(* an advice is not turned into the opposite one.                           *)
LEMMA OpinionInvTells == OpinionInv => AiNeverReversesAdvice
  <1> SUFFICES ASSUME OpinionInv, ~Silent(opinion.scores, opinion.of.age),
                      NEW a \in AiAnswers, NEW weight \in {s.weight : s \in Settings}
               PROVE  LET alone == ActionOf(Composite(opinion.scores, 0, Null))
                          w == AiWeight(weight, FALSE, AiScore(a))
                          blended == Synthesize(opinion.scores, opinion.of.age, w,
                                                AiScore(a)).action
                      IN  /\ alone \in Sells => blended \notin Buys
                          /\ alone \in Buys => blended \notin Sells
    BY DEF AiNeverReversesAdvice
  <1> DEFINE v == opinion.scores
             ai == AiScore(a)
             w == AiWeight(weight, FALSE, ai)
             c == Clamp(ai, -100, 100)
             f == Blend(SynthWeights, v)
             g == Composite(v, w, ai)
  <1>1. f.num \in Int /\ f.den \in Nat /\ f.den > 0
    <2>1. f.num \in Int /\ f.den \in Nat /\ (Present(v) = {} <=> f.den = 0)
      BY ScoresAreWithin, BlendIsBetween
    <2>2. Present(v) # {}
      BY DEF Silent
    <2> QED
      BY <2>1, <2>2
  <1>2. ai \in Int
    BY AdviceAssumption DEF AiScore
  <1>3. c \in -100 .. 100
    BY <1>2, ClampIsWithin
  <1>4. w \in 0 .. 30
    <2>1. weight \in Int
      BY AdviceAssumption
    <2> QED
      BY <2>1 DEF AiWeight, Clamp, MaxAiWeight
  <1>5. Composite(v, 0, Null) = f
    BY DEF Composite
  <1>6. Synthesize(v, opinion.of.age, w, ai).action = ActionOf(g)
    BY DEF Synthesize
  <1>7. g = IF w = 0 THEN f
            ELSE [num |-> (100 - w) * f.num + w * c * f.den, den |-> 100 * f.den]
    BY DEF Composite
  <1> HIDE DEF f, g, w, c, ai, v
  <1>8. ActionOf(f) \in Sells => f.num < 0
    BY <1>1, ActionTells
  <1>9. ActionOf(f) \in Buys => f.num > 0
    BY <1>1, ActionTells
  <1>10. CASE w = 0
    <2>1. g = f
      BY <1>7, <1>10
    <2>2. ~(ActionOf(f) \in Sells /\ ActionOf(f) \in Buys)
      BY DEF Buys, Sells
    <2> QED
      BY <1>5, <1>6, <2>1, <2>2 DEF v, w, ai
  <1>11. CASE w # 0
    <2> DEFINE n == f.num
               d == f.den
               m == (100 - w) * n + w * c * d
    <2>1. g.num = m /\ g.den = 100 * d
      BY <1>7, <1>11
    <2>2. /\ n < 0 => m <= 30 * (100 * d)
          /\ n > 0 => m >= -30 * (100 * d)
      BY <1>1, <1>3, <1>4, AiMovesLittle
    <2>3. m \in Int /\ 100 * d \in Int /\ 100 * d > 0
      BY <1>1, <1>3, <1>4
    <2> HIDE DEF m
    <2>4. /\ n < 0 => ActionOf(g) \notin Buys
          /\ n > 0 => ActionOf(g) \notin Sells
      <3>1. g.num \in Int /\ g.den \in Int /\ g.den > 0
        BY <2>1, <2>3
      <3>2. /\ ActionOf(g) \in Buys <=> g.num > 30 * g.den
            /\ ActionOf(g) \in Sells <=> g.num < -30 * g.den
        BY <3>1, ActionTells
      <3> QED
        BY <2>1, <2>2, <2>3, <3>2
    <2> QED
      BY <1>5, <1>6, <1>8, <1>9, <2>4 DEF v, w, ai
  <1> QED
    BY <1>10, <1>11

(* The steps of the endpoints leave the opinion alone.                      *)
LEMMA OpinionInvStep == OpinionInv /\ [Next]_vars => OpinionInv'
  <1>1. ASSUME OpinionInv, opinion' = opinion PROVE OpinionInv'
    BY <1>1 DEF OpinionInv
  <1>2. AdviceStep => opinion' = opinion
    BY DEF AdviceStep, HalfDay, FetchBars, LoadTechnical, DispatchAi, CommitAdvice, RunAi
  <1>3. [Next]_vars => opinion' = opinion \/ Consult
    BY <1>2 DEF Next, vars, adviceVars
  <1> QED
    BY <1>1, <1>3, OpinionInvConsult

(* Whatever the AI answers and whatever its weight, it never turns a sell   *)
(* into a buy or a buy into a sell.                                         *)
THEOREM AiTalksNobodyRound == Spec => []AiNeverReversesAdvice
  <1>1. Init => OpinionInv
    BY OpinionInvStarts DEF Init
  <1> QED
    BY <1>1, OpinionInvStep, OpinionInvTells, PTL DEF Spec

-----------------------------------------------------------------------------
(* The filings that are kept and answered.                                  *)

Filing == [revenue : MaybeInt, revenuePrior : MaybeInt, earnings : MaybeInt,
           earningsPrior : MaybeInt, debt : MaybeInt, eps : MaybeInt, pe : MaybeInt,
           price : MaybeInt, fcf : MaybeInt]

Waiting == {"cached", "cik", "tickers", "lookup", "facts", "yahoo"}

IsRequest(x) ==
    /\ DOMAIN x = {"pc", "symbol", "price", "map", "filing", "status"}
    /\ x.pc \in Waiting => x.symbol \in DOMAIN Symbols
    /\ x.price \in MaybeInt /\ x.filing \in Filing \union {Null}

(* What waits for an answer asks for a symbol.                              *)
FilingInv ==
    /\ kept \in [DOMAIN Symbols -> Filing \union {Null}]
    /\ DOMAIN seek = Seekers /\ \A q \in Seekers : IsRequest(seek[q])

(* What EDGAR has observed of a concept is a number or nothing.             *)
LEMMA ObservedIsNumber ==
  ASSUME NEW obs \in Seq(Observation)
  PROVE  LatestAnnual(obs) \in MaybeInt /\ PriorAnnual(obs) \in MaybeInt
  <1> DEFINE days == TenKs(obs)
             len == Len(obs)
  <1>1. len \in Nat /\ DOMAIN obs = 1 .. len
    OBVIOUS
  <1>2. \A n \in 1 .. len : obs[n].value \in Int
    <2>1. ASSUME NEW n \in 1 .. len PROVE obs[n].value \in Int
      <3>1. obs[n] \in Observation
        BY <1>1
      <3> QED
        BY <3>1, Zenon DEF Observation
    <2> QED
      BY <2>1
  <1>3. days \subseteq 1 .. len
    BY <1>1 DEF TenKs
  <1>4. ASSUME NEW S \in SUBSET days, S # {} PROVE Max(S) \in S
    <2>1. S \in SUBSET Int /\ len \in Int /\ \A x \in S : x <= len
      BY <1>1, <1>3
    <2> HIDE DEF days, len
    <2> QED
      BY <1>4, <2>1, MaxIsGreatest
  <1>5. obs # <<>> => len >= 1
    BY <1>1
  <1> HIDE DEF days, len
  <1>6. LatestAnnual(obs) \in MaybeInt
    <2>1. CASE obs = <<>>
      BY <2>1 DEF LatestAnnual, MaybeInt
    <2>2. CASE obs # <<>> /\ days = {}
      <3>1. LatestAnnual(obs) = obs[len].value
        BY <2>2 DEF LatestAnnual, days, len
      <3>2. len \in 1 .. len
        BY <1>1, <1>5, <2>2
      <3> QED
        BY <1>2, <3>1, <3>2 DEF MaybeInt
    <2>3. CASE obs # <<>> /\ days # {}
      <3>1. LatestAnnual(obs) = obs[Max(days)].value
        BY <2>3 DEF LatestAnnual, days
      <3>2. Max(days) \in 1 .. len
        BY <1>3, <1>4, <2>3
      <3> QED
        BY <1>2, <3>1, <3>2 DEF MaybeInt
    <2> QED
      BY <2>1, <2>2, <2>3
  <1>7. PriorAnnual(obs) \in MaybeInt
    <2> DEFINE S == Earlier(obs)
    <2>1. CASE days = {} \/ S = {}
      BY <2>1 DEF PriorAnnual, MaybeInt, days
    <2>2. CASE days # {} /\ S # {}
      <3>1. PriorAnnual(obs) = obs[Max(S)].value
        BY <2>2 DEF PriorAnnual, days
      <3>2. S \in SUBSET days
        BY DEF Earlier, days
      <3> HIDE DEF S
      <3>3. Max(S) \in 1 .. len
        BY <1>3, <1>4, <2>2, <3>2
      <3> QED
        BY <1>2, <3>1, <3>3 DEF MaybeInt
    <2> QED
      BY <2>1, <2>2
  <1> QED
    BY <1>6, <1>7

(* What is made of an answer is a filing.                                   *)
LEMMA ReducedIsFiling ==
  ASSUME NEW facts \in Reports
  PROVE  Reduced(facts) \in Filing
  <1> DEFINE names == {"revenue", "earnings", "debt", "equity", "cash", "capex", "eps"}
             latest == [k \in DOMAIN facts |-> LatestAnnual(facts[k])]
             de == IF Null \in {latest.debt, latest.equity} \/ latest.equity = 0 THEN Null
                   ELSE Sign(latest.equity) * ((100 * latest.debt) \div Abs(latest.equity))
             fcf == IF latest.cash = Null THEN Null
                    ELSE latest.cash - (IF latest.capex = Null THEN 0 ELSE Abs(latest.capex))
  <1>1. facts \in [names -> Seq(Observation)]
    BY FilingsAssumption
  <1>2. \A k \in names : latest[k] \in MaybeInt
    BY <1>1, ObservedIsNumber
  <1>3. /\ latest.revenue \in MaybeInt /\ latest.earnings \in MaybeInt
        /\ latest.debt \in MaybeInt /\ latest.equity \in MaybeInt
        /\ latest.cash \in MaybeInt /\ latest.capex \in MaybeInt /\ latest.eps \in MaybeInt
    BY <1>2
  <1>4. PriorAnnual(facts.revenue) \in MaybeInt /\ PriorAnnual(facts.earnings) \in MaybeInt
    BY <1>1, ObservedIsNumber
  <1>5. Null \in MaybeInt
    BY DEF MaybeInt
  <1> HIDE DEF latest
  <1>6. de \in MaybeInt
    <2> DEFINE a == latest.debt
               b == latest.equity
    <2>1. CASE Null \in {a, b} \/ b = 0
      BY <1>5, <2>1
    <2>2. CASE a # Null /\ b # Null /\ b # 0
      <3>1. a \in Int /\ b \in Int
        BY <1>3, <2>2 DEF MaybeInt
      <3> HIDE DEF a, b
      <3>2. Sign(b) \in {-1, 1} /\ Abs(b) \in Int /\ Abs(b) > 0
        BY <2>2, <3>1 DEF Sign, Abs
      <3>3. (100 * a) \div Abs(b) \in Int
        BY <3>1, <3>2
      <3>4. Sign(b) * ((100 * a) \div Abs(b)) \in Int
        BY <3>2, <3>3
      <3> QED
        BY <2>2, <3>4 DEF MaybeInt, a, b
    <2> QED
      BY <2>1, <2>2
  <1>7. fcf \in MaybeInt
    <2> DEFINE a == latest.cash
               b == latest.capex
    <2>1. a \in MaybeInt /\ b \in MaybeInt
      BY <1>3
    <2> HIDE DEF a, b
    <2>2. (IF a = Null THEN Null ELSE a - (IF b = Null THEN 0 ELSE Abs(b))) \in MaybeInt
      BY <2>1 DEF MaybeInt, Abs
    <2> QED
      BY <2>2 DEF a, b
  <1>8. Reduced(facts) =
          [revenue |-> latest.revenue, revenuePrior |-> PriorAnnual(facts.revenue),
           earnings |-> latest.earnings, earningsPrior |-> PriorAnnual(facts.earnings),
           debt |-> de, eps |-> latest.eps, pe |-> Null, price |-> Null, fcf |-> fcf]
    BY DEF Reduced, latest
  <1> HIDE DEF de, fcf
  <1> QED
    BY <1>3, <1>4, <1>5, <1>6, <1>7, <1>8 DEF Filing

(* What Yahoo's info is projected to has the shape of a filing.               *)
LEMMA ProjectedIsFiling ==
  ASSUME NEW info \in Infos
  PROVE  Projected(info) \in Filing
  BY FilingsAssumption DEF Projected, Filing, MaybeInt

(* A request that moves leaves the filings filings.                         *)
LEMMA FilingInvMoves ==
  ASSUME FilingInv, NEW q \in Seekers, NEW x, IsRequest(x), seek' = [seek EXCEPT ![q] = x],
         kept' \in [DOMAIN Symbols -> Filing \union {Null}]
  PROVE  FilingInv'
  BY DEF FilingInv

(* With its price a filing is one.                                          *)
LEMMA PricedIsFiling ==
  ASSUME NEW f \in Filing, NEW p \in MaybeInt
  PROVE  [f EXCEPT !.price = p] \in Filing
  BY DEF Filing

(* A request that is answered, by the cache, EDGAR or Yahoo.                  *)
LEMMA FilingInvAnswers ==
  ASSUME FilingInv, NEW q \in Seekers, NEW f \in Filing, Answer200(q, f),
         kept' \in [DOMAIN Symbols -> Filing \union {Null}]
  PROVE  FilingInv'
  <1> DEFINE old == seek[q]
             y == [f EXCEPT !.price = old.price]
             x == [old EXCEPT !.pc = "done", !.status = 200, !.filing = y]
  <1>1. IsRequest(old) /\ DOMAIN seek = Seekers
    BY DEF FilingInv
  <1>2. y \in Filing
    <2>1. old.price \in MaybeInt
      BY <1>1 DEF IsRequest
    <2> HIDE DEF old
    <2> QED
      BY <2>1, PricedIsFiling
  <1>3. seek' = [seek EXCEPT ![q] = x]
    BY <1>1 DEF Answer200
  <1> HIDE DEF old, y
  <1>4. "done" \notin Waiting
    BY DEF Waiting
  <1>5. IsRequest(x)
    BY <1>1, <1>2, <1>4 DEF IsRequest
  <1> HIDE DEF x
  <1> QED
    BY <1>3, <1>5, FilingInvMoves

(* A request that fails.                                                      *)
LEMMA FilingInvRefuses ==
  ASSUME FilingInv, NEW q \in Seekers, NEW status \in {404, 502}, Refuse(q, status),
         kept' = kept
  PROVE  FilingInv'
  <1> DEFINE old == seek[q]
             x == [old EXCEPT !.pc = "done", !.status = status]
  <1>1. IsRequest(old) /\ DOMAIN seek = Seekers
    BY DEF FilingInv
  <1>2. seek' = [seek EXCEPT ![q] = x]
    BY <1>1 DEF Refuse
  <1> HIDE DEF old
  <1>3. "done" \notin Waiting
    BY DEF Waiting
  <1>4. IsRequest(x)
    BY <1>1, <1>3 DEF IsRequest
  <1> HIDE DEF x
  <1> QED
    BY <1>2, <1>4, FilingInvMoves DEF FilingInv

(* A request that goes on to its next source, with the ticker map or without  *)
(* ...                                                                        *)
LEMMA FilingInvWaits ==
  ASSUME FilingInv, NEW q \in Seekers, seek[q].pc \in Waiting, NEW pc \in Waiting,
         NEW m, seek' = [seek EXCEPT ![q] = [seek[q] EXCEPT !.pc = pc, !.map = m]],
         kept' = kept
  PROVE  FilingInv'
  <1> DEFINE old == seek[q]
             x == [old EXCEPT !.pc = pc, !.map = m]
  <1>1. IsRequest(old) /\ old.symbol \in DOMAIN Symbols
    BY DEF FilingInv, IsRequest
  <1>2. seek' = [seek EXCEPT ![q] = x]
    OBVIOUS
  <1> HIDE DEF old
  <1>3. IsRequest(x)
    BY <1>1 DEF IsRequest
  <1> HIDE DEF x
  <1> QED
    BY <1>2, <1>3, FilingInvMoves DEF FilingInv

(* ... and one that keeps the map it has.                                     *)
LEMMA FilingInvSeekPc ==
  ASSUME FilingInv, NEW q \in Seekers, seek[q].pc \in Waiting, NEW pc \in Waiting,
         SeekPc(q, pc), kept' = kept
  PROVE  FilingInv'
  <1> DEFINE old == seek[q]
             x == [old EXCEPT !.pc = pc]
             y == [old EXCEPT !.pc = pc, !.map = old.map]
  <1>1. IsRequest(old) /\ DOMAIN seek = Seekers
    BY DEF FilingInv
  <1>2. seek' = [seek EXCEPT ![q] = x]
    BY <1>1 DEF SeekPc
  <1>3. x = y
    <2> HIDE DEF old
    <2> QED
      BY <1>1 DEF IsRequest
  <1> QED
    BY <1>2, <1>3, FilingInvWaits

(* Every step of a request for fundamentals.                                  *)
LEMMA FilingInvStep == FilingInv /\ FilingStep => FilingInv'
  <1> SUFFICES ASSUME FilingInv, FilingStep PROVE FilingInv'
    OBVIOUS
  <1>1. ASSUME NEW q \in Seekers, NEW s \in DOMAIN Symbols, NEW p \in Prices,
               SeekFiling(q, s, p)
        PROVE  FilingInv'
    <2> DEFINE listed == Symbols[s].exchange \in UsExchanges \union IndianExchanges
               pc == IF listed THEN "cached" ELSE "done"
               status == IF listed THEN 0 ELSE 400
               u == Unsought
               x == [u EXCEPT !.symbol = s, !.price = p, !.pc = pc, !.status = status]
    <2>1. seek' = [seek EXCEPT ![q] = x] /\ kept' = kept
      BY <1>1 DEF SeekFiling
    <2> HIDE DEF pc, status
    <2>2. DOMAIN u = {"pc", "symbol", "price", "map", "filing", "status"} /\ u.filing = Null
      BY DEF Unsought
    <2>3. p \in MaybeInt
      BY FilingsAssumption
    <2> HIDE DEF u
    <2>4. IsRequest(x)
      BY <2>2, <2>3 DEF IsRequest
    <2> HIDE DEF x
    <2> QED
      BY <2>1, <2>4, FilingInvMoves DEF FilingInv
  <1>2. ASSUME NEW q \in Seekers, ReadKept(q) PROVE FilingInv'
    <2> DEFINE s == seek[q].symbol
               pc == IF Symbols[s].exchange \in UsExchanges THEN "cik" ELSE "yahoo"
    <2>1. seek[q].pc \in Waiting /\ kept' = kept
      BY <1>2 DEF ReadKept, Waiting
    <2>2. kept[s] \in Filing \union {Null}
      BY <2>1 DEF FilingInv, IsRequest
    <2>3. CASE kept[s] # Null /\ Answer200(q, kept[s])
      BY <2>1, <2>2, <2>3, FilingInvAnswers DEF FilingInv
    <2>4. CASE SeekPc(q, pc)
      <3>1. pc \in Waiting
        BY DEF Waiting
      <3> HIDE DEF pc
      <3> QED
        BY <2>1, <2>4, <3>1, FilingInvSeekPc
    <2> QED
      BY <1>2, <2>3, <2>4 DEF ReadKept
  <1>3. ASSUME NEW q \in Seekers, ReadCik(q) PROVE FilingInv'
    <2> DEFINE pc == IF seek[q].symbol \in cikKept THEN "facts" ELSE "tickers"
    <2>1. seek[q].pc \in Waiting /\ kept' = kept /\ SeekPc(q, pc) /\ pc \in Waiting
      BY <1>3 DEF ReadCik, Waiting
    <2> HIDE DEF pc
    <2> QED
      BY <2>1, FilingInvSeekPc
  <1>4. ASSUME NEW q \in Seekers, LoadTickers(q) PROVE FilingInv'
    <2>1. seek[q].pc \in Waiting /\ kept' = kept /\ "lookup" \in Waiting
      BY <1>4 DEF LoadTickers, Waiting
    <2>2. CASE seek' = [seek EXCEPT ![q].pc = "lookup", ![q].map = TRUE]
      <3>1. seek' = [seek EXCEPT ![q] = [seek[q] EXCEPT !.pc = "lookup", !.map = TRUE]]
        BY <2>2 DEF FilingInv
      <3> QED
        BY <2>1, <3>1, FilingInvWaits
    <2>3. CASE Refuse(q, 502)
      BY <2>1, <2>3, FilingInvRefuses
    <2> QED
      BY <1>4, <2>2, <2>3 DEF LoadTickers
  <1>5. ASSUME NEW q \in Seekers, LookUpCik(q) PROVE FilingInv'
    <2>1. seek[q].pc \in Waiting /\ kept' = kept /\ "facts" \in Waiting
      BY <1>5 DEF LookUpCik, Waiting
    <2>2. CASE SeekPc(q, "facts")
      BY <2>1, <2>2, FilingInvSeekPc
    <2>3. CASE Refuse(q, 404)
      BY <2>1, <2>3, FilingInvRefuses
    <2> QED
      BY <1>5, <2>2, <2>3 DEF LookUpCik
  <1>6. ASSUME NEW q \in Seekers, NEW f \in Filing, seek[q].pc \in Waiting, Keep(q, f)
        PROVE  FilingInv'
    <2>1. kept' = [kept EXCEPT ![seek[q].symbol] = f] /\ Answer200(q, f)
      BY <1>6 DEF Keep
    <2>2. kept' \in [DOMAIN Symbols -> Filing \union {Null}]
      BY <2>1 DEF FilingInv
    <2> QED
      BY <2>1, <2>2, FilingInvAnswers
  <1>7. ASSUME NEW q \in Seekers, FetchFacts(q) PROVE FilingInv'
    <2>1. seek[q].pc \in Waiting
      BY <1>7 DEF FetchFacts, Waiting
    <2>2. ASSUME NEW facts \in Reports, Keep(q, Reduced(facts)) PROVE FilingInv'
      BY <1>6, <2>1, <2>2, ReducedIsFiling
    <2>3. ASSUME NEW status \in {404, 502}, Refuse(q, status), kept' = kept PROVE FilingInv'
      BY <2>3, FilingInvRefuses
    <2> QED
      BY <1>7, <2>2, <2>3 DEF FetchFacts
  <1>8. ASSUME NEW q \in Seekers, FetchInfo(q) PROVE FilingInv'
    <2>1. seek[q].pc \in Waiting
      BY <1>8 DEF FetchInfo, Waiting
    <2>2. ASSUME NEW info \in Infos, Keep(q, Projected(info)) PROVE FilingInv'
      BY <1>6, <2>1, <2>2, ProjectedIsFiling
    <2>3. ASSUME NEW status \in {404, 502}, Refuse(q, status), kept' = kept PROVE FilingInv'
      BY <2>3, FilingInvRefuses
    <2> QED
      BY <1>8, <2>2, <2>3 DEF FetchInfo
  <1>9. ASSUME NEW q \in Seekers, EndSeek(q) PROVE FilingInv'
    <2>1. seek' = [seek EXCEPT ![q] = Unsought] /\ kept' = kept
      BY <1>9 DEF EndSeek
    <2>2. IsRequest(Unsought)
      BY DEF IsRequest, Unsought, Waiting, MaybeInt
    <2> QED
      BY <2>1, <2>2, FilingInvMoves DEF FilingInv
  <1>10. ASSUME NEW s \in DOMAIN Symbols, ForgetFiling(s) PROVE FilingInv'
    BY <1>10 DEF ForgetFiling, FilingInv
  <1> QED
    BY <1>1, <1>2, <1>3, <1>4, <1>5, <1>7, <1>8, <1>9, <1>10 DEF FilingStep

(* At the start nothing is cached and nothing is asked.                       *)
LEMMA FilingInvStarts == InitFilings => FilingInv
  <1> SUFFICES ASSUME InitFilings PROVE FilingInv
    OBVIOUS
  <1>1. IsRequest(Unsought)
    BY DEF IsRequest, Unsought, Waiting, MaybeInt
  <1> HIDE DEF Unsought
  <1> QED
    BY <1>1 DEF InitFilings, FilingInv

(* So what is answered is a blend of percentages.                           *)
LEMMA FilingIsOne ==
  ASSUME NEW f \in Filing
  PROVE  IsFiling(f)
  BY DEF Filing, IsFiling

-----------------------------------------------------------------------------
(* The sentiment that is answered is of items that a source has answered.   *)
StoryInv ==
    /\ DOMAIN story = Callers
    /\ \A c \in Callers : DOMAIN story[c] = StoryFields /\ IsTold(story[c])

(* A caller of the sentiment route that moves ...                             *)
LEMMA StoryInvMoves ==
  ASSUME StoryInv, NEW c \in Callers, NEW x, DOMAIN x = StoryFields, IsTold(x),
         story' = [story EXCEPT ![c] = x]
  PROVE  StoryInv'
  <1>1. DOMAIN story' = Callers
    BY DEF StoryInv
  <1>2. \A o \in Callers : story'[o] = IF o = c THEN x ELSE story[o]
    BY DEF StoryInv
  <1>3. \A o \in Callers : DOMAIN story'[o] = StoryFields /\ IsTold(story'[o])
    BY <1>2 DEF StoryInv
  <1> QED
    BY <1>1, <1>3 DEF StoryInv

(* ... and one that only goes on to the next source.                          *)
LEMMA StoryInvPc ==
  ASSUME StoryInv, NEW c \in Callers, NEW p, story' = [story EXCEPT ![c].pc = p]
  PROVE  StoryInv'
  <1> DEFINE old == story[c]
             x == [old EXCEPT !.pc = p]
  <1>1. DOMAIN old = StoryFields /\ IsTold(old) /\ story' = [story EXCEPT ![c] = x]
    BY DEF StoryInv
  <1> HIDE DEF old
  <1>2. /\ DOMAIN x = StoryFields /\ x.articles = old.articles /\ x.posts = old.posts
        /\ x.macro = old.macro
    BY <1>1 DEF StoryFields
  <1> HIDE DEF x
  <1>3. IsTold(x)
    BY <1>1, <1>2 DEF IsTold
  <1> QED
    BY <1>1, <1>2, <1>3, StoryInvMoves

(* A caller that has read nothing yet.                                        *)
LEMMA UntoldIsTold == DOMAIN Untold = StoryFields /\ IsTold(Untold)
  <1>1. Untold.articles = <<>> /\ Untold.posts = Null /\ Untold.macro = Null
    BY DEF Untold
  <1>2. DOMAIN Untold = StoryFields
    BY DEF Untold, StoryFields
  <1>3. <<>> \in Items
    BY NewsAssumption DEF Items
  <1> HIDE DEF Untold
  <1> QED
    BY <1>1, <1>2, <1>3 DEF IsTold

(* At the start all of them are in that state.                                *)
LEMMA StoryInvStarts == InitNews => StoryInv
  <1> SUFFICES ASSUME InitNews PROVE StoryInv
    OBVIOUS
  <1>1. story = [c \in Callers |-> Untold]
    BY DEF InitNews
  <1> HIDE DEF Untold
  <1> QED
    BY <1>1, UntoldIsTold DEF StoryInv

(* Every step of a caller, its sources, its cache and the clock.              *)
LEMMA StoryInvStep == StoryInv /\ NewsStep => StoryInv'
  <1> SUFFICES ASSUME StoryInv, NewsStep PROVE StoryInv'
    OBVIOUS
  <1>1. ASSUME story' = story PROVE StoryInv'
    BY <1>1 DEF StoryInv
  <1>2. ASSUME NEW c \in Callers, EndStory(c) PROVE StoryInv'
    BY <1>2, UntoldIsTold, StoryInvMoves DEF EndStory
  <1>3. ASSUME NEW c \in Callers, NEW p, NEW from, NEW a \in Articles,
               story' = [story EXCEPT ![c].pc = p, ![c].from = from, ![c].articles = a]
        PROVE  StoryInv'
    <2> DEFINE old == story[c]
               x == [old EXCEPT !.pc = p, !.from = from, !.articles = a]
    <2>1. DOMAIN old = StoryFields /\ IsTold(old) /\ story' = [story EXCEPT ![c] = x]
      BY <1>3 DEF StoryInv
    <2> HIDE DEF old
    <2>2. /\ DOMAIN x = StoryFields /\ x.articles = a /\ x.posts = old.posts
          /\ x.macro = old.macro
      BY <2>1 DEF StoryFields
    <2> HIDE DEF x
    <2>3. IsTold(x)
      BY <2>1, <2>2, NewsAssumption DEF IsTold, Items
    <2> QED
      BY <2>1, <2>2, <2>3, StoryInvMoves
  <1>4. ASSUME NEW c \in Callers, AskGNews(c) PROVE StoryInv'
    <2>1. CASE story' = [story EXCEPT ![c].pc = "rss"]
      BY <2>1, StoryInvPc
    <2>2. ASSUME NEW a \in Articles,
                 story' = [story EXCEPT ![c].pc = "bump", ![c].from = day, ![c].articles = a]
          PROVE  StoryInv'
      BY <1>3, <2>2
    <2> QED
      BY <1>4, <2>1, <2>2 DEF AskGNews
  <1>5. ASSUME NEW c \in Callers, AskRss(c) PROVE StoryInv'
    <2>1. PICK a \in Articles :
              story' = [story EXCEPT ![c].pc = "reddit", ![c].articles = a]
      BY <1>5 DEF AskRss
    <2> DEFINE old == story[c]
               from == old.from
               x == [old EXCEPT !.pc = "reddit", !.articles = a]
               y == [old EXCEPT !.pc = "reddit", !.from = from, !.articles = a]
    <2>2. DOMAIN old = StoryFields /\ story' = [story EXCEPT ![c] = x]
      BY <2>1 DEF StoryInv
    <2>3. x = y
      <3> HIDE DEF old
      <3> QED
        BY <2>2 DEF StoryFields
    <2>4. story' = [story EXCEPT ![c].pc = "reddit", ![c].from = from, ![c].articles = a]
      BY <2>2, <2>3 DEF StoryInv
    <2> HIDE DEF from
    <2> QED
      BY <1>3, <2>4
  <1>6. ASSUME NEW c \in Callers, AskReddit(c) PROVE StoryInv'
    <2>1. PICK p \in Articles \union {Null}, m \in Macros, f \in BOOLEAN :
              story' = [story EXCEPT ![c].pc = "done", ![c].posts = p, ![c].macro = m,
                                     ![c].finbert = f]
      BY <1>6 DEF AskReddit
    <2> DEFINE old == story[c]
               x == [old EXCEPT !.pc = "done", !.posts = p, !.macro = m, !.finbert = f]
    <2>2. DOMAIN old = StoryFields /\ IsTold(old) /\ story' = [story EXCEPT ![c] = x]
      BY <2>1 DEF StoryInv
    <2> HIDE DEF old
    <2>3. /\ DOMAIN x = StoryFields /\ x.articles = old.articles /\ x.posts = p
          /\ x.macro = m
      BY <2>2 DEF StoryFields
    <2> HIDE DEF x
    <2>4. m # Null => IsMacro(m)
      BY NewsAssumption DEF IsMacro
    <2>5. IsTold(x)
      BY <2>2, <2>3, <2>4, NewsAssumption DEF IsTold, Items
    <2> QED
      BY <2>2, <2>3, <2>5, StoryInvMoves
  <1>7. ASSUME NEW c \in Callers, Bump(c) PROVE StoryInv'
    <2> DEFINE p == IF story[c].articles = <<>> THEN "rss" ELSE "reddit"
    <2>1. story' = [story EXCEPT ![c].pc = p]
      BY <1>7 DEF Bump
    <2> HIDE DEF p
    <2> QED
      BY <2>1, StoryInvPc
  <1>8. ASSUME NEW c \in Callers, AskSentiment(c) \/ CheckBudget(c) PROVE StoryInv'
    BY <1>8, StoryInvPc DEF AskSentiment, CheckBudget
  <1>9. CASE Midnight
    BY <1>1, <1>9 DEF Midnight
  <1> QED
    BY <1>2, <1>4, <1>5, <1>6, <1>7, <1>8, <1>9 DEF NewsStep

-----------------------------------------------------------------------------
(* What a portfolio is worth.                                               *)

Rates == (Nat \ {0}) \union {Null}

(* get_rate at a rate r of INR for USD.                                     *)
RateAt(from, to, r) ==
    CASE from = to -> One
      [] <<from, to>> = <<"USD", "INR">> /\ r # Null -> [num |-> r, den |-> 1]
      [] <<from, to>> = <<"INR", "USD">> /\ r # Null -> [num |-> 1, den |-> r]
      [] OTHER -> Null

(* Rates are positive, and a benchmark has a return.                        *)
RatesInv ==
    /\ \A d \in Days : rates[d] \in Rates
    /\ \A w \in Refreshers : fx[w].pc = "upsert" => fx[w].rate \in Rates

Marks == [ret : Int, end : Int]

BenchInv == bench \in [{"IN", "US"} -> Marks \union {Null}]

AskFields == {"pc", "kind", "base", "rows", "todo", "used", "marks", "seen"}

(* Whatever row has been given a rate was given one that was the latest     *)
(* since the rows were read; one without a rate has none, or is flat.       *)
RatesOf(x) ==
    /\ x.rows \in [Lots -> Int] /\ x.todo \subseteq Lots /\ DOMAIN x.used = Lots
    /\ \A l \in Lots \ x.todo :
          \/ \E r \in x.seen : x.used[l] = RateAt(Book[l].currency, x.base, r)
          \/ x.used[l] = Null /\ x.rows[l] = 0
    /\ \A l \in x.todo : x.used[l] = Null
    /\ IsFiniteSet(x.seen) /\ x.seen \subseteq Rates

(* The intelligence has both benchmarks when it needs them.                 *)
MarksOf(x) ==
    /\ x.marks \in Seq(Marks)
    /\ x.pc = "rates" => Len(x.marks) = 0
    /\ x.pc = "marks" => x.todo = {} /\ Len(x.marks) \in {0, 1}
    /\ x.pc = "done" => x.todo = {}
    /\ (x.pc = "done" /\ x.kind = "intelligence" /\ \E l \in Lots : x.used[l] # Null) =>
          Len(x.marks) = 2

AskInv ==
    /\ DOMAIN ask = Readers
    /\ \A q \in Readers :
          /\ DOMAIN ask[q] = AskFields
          /\ ask[q].pc # "idle" =>
                RatesOf(ask[q]) /\ MarksOf(ask[q]) /\ Latest \in ask[q].seen

(* The latest rate of a table of rates.                                     *)
LEMMA LatestIsRate ==
  ASSUME NEW table, \A d \in Days : table[d] \in Rates
  PROVE  LET n == Max(KnownDays(table)) IN (IF n = -1 THEN Null ELSE table[n]) \in Rates
  <1> DEFINE n == Max(KnownDays(table))
  <1>1. n \in KnownDays(table)
    BY NewestIsGreatest
  <1> HIDE DEF n
  <1>2. n = -1 \/ n \in Days
    BY <1>1 DEF KnownDays
  <1> QED
    BY <1>2 DEF Rates, n

(* The rate of the last day is the latest.                                  *)
LEMMA RateNow == RateAsOf(MaxDay) = Latest
  <1> DEFINE known == {k \in Days : k <= MaxDay /\ rates[k] # Null}
             n == Max(KnownDays(rates))
  <1>1. KnownDays(rates) = {-1} \union known
    BY MoneyAssumption DEF KnownDays, Days
  <1>2. /\ n \in KnownDays(rates) /\ n \in Int
        /\ \A d \in KnownDays(rates) : d <= n
    BY NewestIsGreatest
  <1>3. Latest = IF n = -1 THEN Null ELSE rates[n]
    BY DEF Latest, Newest, KnownDays
  <1>4. known \in SUBSET Int /\ \A x \in known : x <= MaxDay /\ x >= 0
    BY MoneyAssumption DEF Days
  <1>5. RateAsOf(MaxDay) = IF known = {} THEN Null ELSE rates[Max(known)]
    BY DEF RateAsOf
  <1> HIDE DEF known, n
  <1>6. CASE known = {}
    BY <1>1, <1>2, <1>3, <1>5, <1>6
  <1>7. CASE known # {}
    <2>1. Max(known) \in known /\ \A x \in known : x <= Max(known)
      <3>1. known \in SUBSET Int /\ MaxDay \in Int /\ \A x \in known : x <= MaxDay
        BY <1>4, MoneyAssumption
      <3> QED
        BY <1>7, <3>1, MaxIsGreatest
    <2>2. n \in known
      <3>1. Max(known) \in KnownDays(rates) /\ Max(known) >= 0 /\ Max(known) \in Int
        BY <1>1, <1>4, <2>1
      <3>2. n >= 0
        BY <1>2, <3>1
      <3> QED
        BY <1>1, <1>2, <3>2
    <2>3. n = Max(known)
      <3>1. Max(known) <= n /\ n <= Max(known) /\ Max(known) \in Int
        BY <1>1, <1>2, <1>4, <2>1, <2>2
      <3> QED
        BY <1>2, <3>1
    <2>4. n # -1
      BY <1>4, <2>2
    <2> QED
      BY <1>3, <1>5, <1>7, <2>3, <2>4
  <1> QED
    BY <1>6, <1>7

(* get_rate without a date answers with the latest rate.                      *)
LEMMA GetRateNow ==
  ASSUME NEW from, NEW to
  PROVE  GetRate(from, to, MaxDay) = RateAt(from, to, Latest)
  BY RateNow DEF GetRate, RateAt

(* A request that moves.                                                    *)
LEMMA AskInvMoves ==
  ASSUME AskInv, NEW q \in Readers, NEW x, DOMAIN x = AskFields,
         x.pc # "idle" => RatesOf(x) /\ MarksOf(x) /\ Latest \in x.seen,
         ask' = [ask EXCEPT ![q] = x], rates' = rates
  PROVE  AskInv'
  <1>1. Latest' = Latest
    BY DEF Latest, Newest
  <1>2. DOMAIN ask' = Readers
    BY DEF AskInv
  <1>3. \A p \in Readers : ask'[p] = IF p = q THEN x ELSE ask[p]
    BY DEF AskInv
  <1>4. ASSUME NEW p \in Readers
        PROVE  /\ DOMAIN ask'[p] = AskFields
               /\ ask'[p].pc # "idle" =>
                     RatesOf(ask'[p]) /\ MarksOf(ask'[p]) /\ Latest' \in ask'[p].seen
    BY <1>1, <1>3 DEF AskInv
  <1> HIDE DEF Latest
  <1> QED
    BY <1>2, <1>4 DEF AskInv

(* Steps that touch neither a request nor a rate.                             *)
LEMMA AskInvRest ==
  ASSUME AskInv, ask' = ask, rates' = rates
  PROVE  AskInv'
  <1>1. Latest' = Latest
    BY DEF Latest, Newest
  <1> QED
    BY <1>1 DEF AskInv

(* The rows that a request reads.                                           *)
LEMMA AskInvRead ==
  ASSUME AskInv, RatesInv, NEW q \in Readers, NEW kind \in {"summary", "intelligence"},
         NEW base \in Bases, ReadRows(q, kind, base)
  PROVE  AskInv'
  <1>1. PICK b \in Books : ask' = [ask EXCEPT ![q] =
            [pc |-> "rates", kind |-> kind, base |-> base, rows |-> b,
             todo |-> Rows(kind, b), used |-> [l \in Lots |-> Null], marks |-> <<>>,
             seen |-> {Latest}]]
    BY DEF ReadRows
  <1> DEFINE todo == Rows(kind, b)
             used == [l \in Lots |-> Null]
             seen == {Latest}
             x == [pc |-> "rates", kind |-> kind, base |-> base, rows |-> b, todo |-> todo,
                   used |-> used, marks |-> <<>>, seen |-> seen]
  <1>2. ask' = [ask EXCEPT ![q] = x] /\ rates' = rates
    BY <1>1 DEF ReadRows
  <1>3. Latest \in Rates
    <2>1. Latest = IF Max(KnownDays(rates)) = -1 THEN Null ELSE rates[Max(KnownDays(rates))]
      BY DEF Latest, Newest, KnownDays
    <2> QED
      BY <2>1, LatestIsRate DEF RatesInv
  <1>4. b \in [Lots -> Int]
    BY MoneyAssumption
  <1>5. todo \subseteq Lots /\ \A l \in Lots \ todo : b[l] = 0
    BY DEF Rows
  <1>6. DOMAIN used = Lots /\ \A l \in Lots : used[l] = Null
    OBVIOUS
  <1>7. IsFiniteSet(seen) /\ seen \subseteq Rates /\ Latest \in seen
    BY <1>3, FS_Singleton
  <1> HIDE DEF todo, used, seen
  <1>8. DOMAIN x = AskFields
    BY DEF AskFields
  <1>9. /\ x.pc = "rates" /\ x.rows = b /\ x.todo = todo /\ x.used = used /\ x.seen = seen
        /\ x.marks = <<>>
    OBVIOUS
  <1> HIDE DEF x
  <1>10. RatesOf(x)
    BY <1>4, <1>5, <1>6, <1>7, <1>9 DEF RatesOf
  <1>11. MarksOf(x)
    BY <1>9 DEF MarksOf
  <1> QED
    BY <1>2, <1>7, <1>8, <1>9, <1>10, <1>11, AskInvMoves

(* The next rate.                                                           *)
LEMMA AskInvRate ==
  ASSUME AskInv, NEW q \in Readers, ReadRate(q)
  PROVE  AskInv'
  <1> DEFINE old == ask[q]
             l == CHOOSE l \in old.todo : TRUE
             r == GetRate(Book[l].currency, old.base, MaxDay)
             x == [old EXCEPT !.used[l] = r, !.todo = @ \ {l}]
  <1>1. old.pc = "rates" /\ l \in old.todo /\ rates' = rates
    BY DEF ReadRate
  <1>2. DOMAIN old = AskFields /\ RatesOf(old) /\ MarksOf(old) /\ Latest \in old.seen
    BY <1>1 DEF AskInv
  <1>3. ask' = [ask EXCEPT ![q] = x]
    BY DEF ReadRate, AskInv
  <1>4. r = RateAt(Book[l].currency, old.base, Latest)
    BY GetRateNow
  <1> HIDE DEF old, l, r
  <1>5. /\ DOMAIN x = AskFields /\ x.pc = old.pc /\ x.base = old.base /\ x.rows = old.rows
        /\ x.todo = old.todo \ {l} /\ x.used = [old.used EXCEPT ![l] = r]
        /\ x.marks = old.marks /\ x.seen = old.seen /\ x.kind = old.kind
    BY <1>2 DEF AskFields
  <1> HIDE DEF x
  <1>6. l \in Lots /\ DOMAIN old.used = Lots
    BY <1>1, <1>2 DEF RatesOf
  <1>7. \A k \in Lots : x.used[k] = IF k = l THEN r ELSE old.used[k]
    BY <1>5, <1>6
  <1>8. ASSUME NEW k \in Lots \ x.todo
        PROVE  \/ \E s \in x.seen : x.used[k] = RateAt(Book[k].currency, x.base, s)
               \/ x.used[k] = Null /\ x.rows[k] = 0
    <2>1. CASE k = l
      BY <1>2, <1>4, <1>5, <1>7, <2>1
    <2>2. CASE k # l
      BY <1>2, <1>5, <1>7, <2>2 DEF RatesOf
    <2> QED
      BY <2>1, <2>2
  <1>9. RatesOf(x)
    <2>1. DOMAIN x.used = Lots /\ \A k \in x.todo : x.used[k] = Null
      BY <1>2, <1>5, <1>6, <1>7 DEF RatesOf
    <2> QED
      BY <1>2, <1>5, <1>8, <2>1 DEF RatesOf
  <1>10. MarksOf(x)
    BY <1>1, <1>2, <1>5 DEF MarksOf
  <1> QED
    BY <1>2, <1>3, <1>5, <1>9, <1>10, <1>1, AskInvMoves

(* The end of the rates.                                                    *)
LEMMA AskInvRatesRead ==
  ASSUME AskInv, NEW q \in Readers, RatesRead(q)
  PROVE  AskInv'
  <1> DEFINE old == ask[q]
             p == IF old.kind = "summary" \/ Counted(q) = {} THEN "done" ELSE "marks"
             x == [old EXCEPT !.pc = p]
  <1>1. old.pc = "rates" /\ old.todo = {} /\ rates' = rates /\ ask' = [ask EXCEPT ![q] = x]
    BY DEF RatesRead, AskInv
  <1>2. DOMAIN old = AskFields /\ RatesOf(old) /\ MarksOf(old) /\ Latest \in old.seen
    BY <1>1 DEF AskInv
  <1>3. /\ p \in {"done", "marks"}
        /\ p = "done" => old.kind = "summary" \/ \A l \in Lots : old.used[l] = Null
    BY DEF Counted
  <1> HIDE DEF old, p
  <1>4. /\ DOMAIN x = AskFields /\ x.pc = p /\ x.base = old.base /\ x.rows = old.rows
        /\ x.todo = old.todo /\ x.used = old.used
        /\ x.marks = old.marks /\ x.seen = old.seen /\ x.kind = old.kind
    BY <1>2 DEF AskFields
  <1> HIDE DEF x
  <1>5. RatesOf(x)
    BY <1>2, <1>4 DEF RatesOf
  <1>6. MarksOf(x)
    <2>1. Len(x.marks) = 0
      BY <1>1, <1>2, <1>4 DEF MarksOf
    <2> QED
      BY <1>1, <1>2, <1>3, <1>4, <2>1 DEF MarksOf
  <1> QED
    BY <1>1, <1>2, <1>4, <1>5, <1>6, AskInvMoves

(* A benchmark.                                                             *)
LEMMA AskInvMarked ==
  ASSUME AskInv, NEW q \in Readers, ask[q].pc = "marks", NEW m \in Marks, Marked(q, m),
         rates' = rates
  PROVE  AskInv'
  <1> DEFINE old == ask[q]
             p == IF Len(old.marks) = 1 THEN "done" ELSE "marks"
             y == [old EXCEPT !.marks = Append(@, m)]
             x == [old EXCEPT !.marks = Append(@, m), !.pc = p]
  <1>1. ask' = [ask EXCEPT ![q] = x]
    BY DEF Marked, AskInv
  <1>2. DOMAIN old = AskFields /\ RatesOf(old) /\ MarksOf(old) /\ Latest \in old.seen
    BY DEF AskInv
  <1>3. p = IF Len(old.marks) = 1 THEN "done" ELSE "marks"
    OBVIOUS
  <1> HIDE DEF old, p
  <1>4. /\ DOMAIN x = AskFields /\ x.pc = p /\ x.base = old.base /\ x.rows = old.rows
        /\ x.todo = old.todo /\ x.used = old.used
        /\ x.marks = Append(old.marks, m) /\ x.seen = old.seen /\ x.kind = old.kind
    BY <1>2 DEF AskFields
  <1> HIDE DEF x
  <1>5. RatesOf(x)
    BY <1>2, <1>4 DEF RatesOf
  <1>6. old.pc = "marks" /\ old.todo = {} /\ Len(old.marks) \in {0, 1}
    BY <1>2 DEF MarksOf, old
  <1>7. MarksOf(x)
    <2> DEFINE s == old.marks
    <2>1. s \in Seq(Marks)
      BY <1>2 DEF MarksOf
    <2> HIDE DEF s
    <2>2. Append(s, m) \in Seq(Marks) /\ Len(Append(s, m)) = Len(s) + 1
      BY <2>1
    <2>3. x.marks = Append(s, m) /\ Len(s) \in {0, 1} /\ x.todo = {}
      BY <1>4, <1>6 DEF s
    <2>4. x.pc = IF Len(s) = 1 THEN "done" ELSE "marks"
      BY <1>3, <1>4 DEF s
    <2> QED
      BY <2>2, <2>3, <2>4 DEF MarksOf
  <1> QED
    BY <1>1, <1>2, <1>4, <1>5, <1>7, AskInvMoves

(* A refresh is seen by every request that is under way.                    *)
LEMMA AskInvStore ==
  ASSUME AskInv, Latest' \in Rates,
         ask' = [q \in Readers |-> IF ask[q].pc = "idle" THEN ask[q]
                   ELSE [ask[q] EXCEPT !.seen = @ \union {Latest'}]]
  PROVE  AskInv'
  <1> DEFINE new == Latest'
  <1> HIDE DEF new
  <1>1. DOMAIN ask' = Readers /\ new \in Rates
    BY DEF new
  <1>2. ASSUME NEW p \in Readers
        PROVE  /\ DOMAIN ask'[p] = AskFields
               /\ ask'[p].pc # "idle" =>
                     RatesOf(ask'[p]) /\ MarksOf(ask'[p]) /\ new \in ask'[p].seen
    <2>1. CASE ask[p].pc = "idle"
      BY <2>1 DEF AskInv
    <2>2. CASE ask[p].pc # "idle"
      <3> DEFINE old == ask[p]
                 x == [old EXCEPT !.seen = @ \union {new}]
      <3>1. ask'[p] = x
        BY <2>2 DEF new
      <3>2. DOMAIN old = AskFields /\ RatesOf(old) /\ MarksOf(old)
        BY <2>2 DEF AskInv
      <3> HIDE DEF old
      <3>3. /\ DOMAIN x = AskFields /\ x.pc = old.pc /\ x.base = old.base /\ x.rows = old.rows
            /\ x.todo = old.todo /\ x.used = old.used
            /\ x.marks = old.marks /\ x.seen = old.seen \union {new} /\ x.kind = old.kind
        BY <3>2 DEF AskFields
      <3> HIDE DEF x
      <3>4. IsFiniteSet(x.seen) /\ x.seen \subseteq Rates
        <4>1. IsFiniteSet(old.seen) /\ old.seen \subseteq Rates
          BY <3>2 DEF RatesOf
        <4>2. IsFiniteSet(old.seen \union {new})
          BY <4>1, FS_AddElement
        <4>3. old.seen \union {new} \subseteq Rates
          BY <1>1, <4>1
        <4>4. x.seen = old.seen \union {new}
          BY <3>3
        <4> QED
          BY <4>2, <4>3, <4>4
      <3>5. RatesOf(x)
        BY <3>2, <3>3, <3>4 DEF RatesOf
      <3>6. MarksOf(x)
        BY <3>2, <3>3 DEF MarksOf
      <3> QED
        BY <3>1, <3>3, <3>5, <3>6
    <2> QED
      BY <2>1, <2>2
  <1> QED
    BY <1>1, <1>2 DEF AskInv, new

TotalInv == MoneyInv /\ RatesInv /\ BenchInv /\ AskInv

(* At the start there is no rate, no benchmark and no request.                *)
LEMMA TotalInvStarts == InitMoney => TotalInv
  <1> SUFFICES ASSUME InitMoney PROVE TotalInv
    OBVIOUS
  <1>1. MoneyInv
    BY MoneyAssumption DEF InitMoney, MoneyInv, Rested, Days
  <1>2. RatesInv
    BY DEF InitMoney, RatesInv, Rested, Rates
  <1>3. BenchInv
    BY DEF InitMoney, BenchInv
  <1>4. DOMAIN Unasked = AskFields /\ Unasked.pc = "idle"
    BY DEF Unasked, AskFields
  <1>5. AskInv
    <2> HIDE DEF Unasked
    <2> QED
      BY <1>4 DEF InitMoney, AskInv
  <1> QED
    BY <1>1, <1>2, <1>3, <1>5 DEF TotalInv

(* The rates stay rates, and the benchmarks benchmarks.                     *)
LEMMA TotalInvTables ==
  ASSUME MoneyInv, RatesInv, BenchInv, MoneyStep
  PROVE  RatesInv' /\ BenchInv'
  <1>1. CASE NextDay
    BY <1>1 DEF NextDay, RatesInv, BenchInv
  <1>2. ASSUME NEW k \in DOMAIN bench, ForgetReturn(k) PROVE RatesInv' /\ BenchInv'
    BY <1>2 DEF ForgetReturn, RatesInv, BenchInv
  <1>3. ASSUME NEW w \in Refreshers, FetchRate(w) PROVE RatesInv' /\ BenchInv'
    <2>1. PICK s \in DOMAIN RateOn, d \in 0 .. today :
              fx' = [fx EXCEPT ![w] = [pc |-> "upsert", day |-> d, rate |-> RateOn[s][d]]]
      BY <1>3 DEF FetchRate
    <2>2. d \in Days
      BY MoneyAssumption DEF MoneyInv, Days
    <2>3. RateOn[s][d] \in Rates
      BY <2>2, MoneyAssumption DEF Rates
    <2>4. rates' = rates /\ bench' = bench
      BY <1>3 DEF FetchRate
    <2> QED
      BY <2>1, <2>3, <2>4 DEF RatesInv, BenchInv, MoneyInv
  <1>4. ASSUME NEW w \in Refreshers, StoreRate(w) PROVE RatesInv' /\ BenchInv'
    <2>1. /\ rates' = [rates EXCEPT ![fx[w].day] = fx[w].rate] /\ bench' = bench
          /\ fx' = [fx EXCEPT ![w] = Rested] /\ fx[w].pc = "upsert"
      BY <1>4 DEF StoreRate, Upserted
    <2>2. fx[w].rate \in Rates
      BY <2>1 DEF RatesInv
    <2>3. Rested.pc # "upsert"
      BY DEF Rested
    <2> HIDE DEF Rested
    <2> QED
      BY <2>1, <2>2, <2>3 DEF RatesInv, BenchInv, MoneyInv
  <1>5. ASSUME NEW w \in Refreshers, LoseRate(w) PROVE RatesInv' /\ BenchInv'
    <2>1. Rested.pc # "upsert"
      BY DEF Rested
    <2> HIDE DEF Rested
    <2> QED
      BY <1>5, <2>1 DEF LoseRate, RatesInv, BenchInv, MoneyInv
  <1>6. ASSUME NEW q \in Readers, GetReturn(q) PROVE RatesInv' /\ BenchInv'
    <2>1. /\ rates' = rates /\ fx' = fx
          /\ \/ bench' = bench
             \/ \E r \in Returns : bench' = [bench EXCEPT ![Asked(q)] = [ret |-> r, end |-> today]]
      BY <1>6 DEF GetReturn
    <2>2. \A r \in Returns : [ret |-> r, end |-> today] \in Marks
      BY MoneyAssumption DEF Marks, MoneyInv, Days
    <2> QED
      BY <2>1, <2>2 DEF RatesInv, BenchInv
  <1>7. ASSUME NEW q \in Readers,
               \/ \E kind \in {"summary", "intelligence"}, base \in Bases : ReadRows(q, kind, base)
               \/ ReadRate(q) \/ RatesRead(q) \/ EndRequest(q)
        PROVE  RatesInv' /\ BenchInv'
    <2>1. UNCHANGED <<rates, fx, bench>>
      BY <1>7 DEF ReadRows, ReadRate, RatesRead, EndRequest
    <2> QED
      BY <2>1 DEF RatesInv, BenchInv
  <1> QED
    BY <1>1, <1>2, <1>3, <1>4, <1>5, <1>6, <1>7 DEF MoneyStep

(* Every step of the money scene keeps what a request knows of the rates ...  *)
LEMMA TotalInvAsk ==
  ASSUME MoneyInv, RatesInv, RatesInv', BenchInv, AskInv, MoneyStep
  PROVE  AskInv'
  <1>1. CASE NextDay
    BY <1>1, AskInvRest DEF NextDay
  <1>2. ASSUME NEW k \in DOMAIN bench, ForgetReturn(k) PROVE AskInv'
    BY <1>2, AskInvRest DEF ForgetReturn
  <1>3. ASSUME NEW w \in Refreshers, FetchRate(w) PROVE AskInv'
    BY <1>3, AskInvRest DEF FetchRate
  <1>4. ASSUME NEW w \in Refreshers, StoreRate(w) PROVE AskInv'
    <2>1. ask' = [q \in Readers |-> IF ask[q].pc = "idle" THEN ask[q]
                    ELSE [ask[q] EXCEPT !.seen = @ \union {Latest'}]]
      BY <1>4 DEF StoreRate
    <2>2. Latest' \in Rates
      <3>1. Latest' = IF Max(KnownDays(rates')) = -1 THEN Null
                      ELSE rates'[Max(KnownDays(rates'))]
        BY DEF Latest, Newest, KnownDays
      <3>2. \A d \in Days : rates'[d] \in Rates
        BY DEF RatesInv
      <3> QED
        BY <3>1, <3>2, LatestIsRate
    <2> QED
      BY <2>1, <2>2, AskInvStore
  <1>5. ASSUME NEW w \in Refreshers, LoseRate(w) PROVE AskInv'
    BY <1>5, AskInvRest DEF LoseRate
  <1>6. ASSUME NEW q \in Readers, GetReturn(q) PROVE AskInv'
    <2>1. ask[q].pc = "marks" /\ rates' = rates
      BY <1>6 DEF GetReturn
    <2>2. Asked(q) \in {"IN", "US"}
      <3>1. Len(ask[q].marks) \in {0, 1}
        BY <2>1 DEF AskInv, MarksOf
      <3>2. Indices[1] = "IN" /\ Indices[2] = "US"
        BY DEF Indices
      <3> DEFINE len == Len(ask[q].marks)
                 n == len + 1
      <3>3. Asked(q) = Indices[n]
        BY Zenon DEF Asked
      <3>4. n = 1 \/ n = 2
        <4>1. len = 0 \/ len = 1
          BY <3>1, Zenon
        <4> HIDE DEF len
        <4> QED
          BY <4>1
      <3> HIDE DEF n
      <3> QED
        BY <3>2, <3>3, <3>4
    <2>3. ASSUME NEW m \in Marks, Marked(q, m) PROVE AskInv'
      BY <2>1, <2>3, AskInvMarked
    <2>4. \A r \in Returns \union {0} : [ret |-> r, end |-> today] \in Marks
      BY MoneyAssumption DEF Marks, MoneyInv, Days
    <2>5. bench[Asked(q)] # Null => bench[Asked(q)] \in Marks
      BY <2>2 DEF BenchInv
    <2> QED
      BY <1>6, <2>3, <2>4, <2>5 DEF GetReturn
  <1>7. ASSUME NEW q \in Readers, NEW kind \in {"summary", "intelligence"}, NEW base \in Bases,
               ReadRows(q, kind, base)
        PROVE  AskInv'
    BY <1>7, AskInvRead
  <1>8. ASSUME NEW q \in Readers, ReadRate(q) PROVE AskInv'
    BY <1>8, AskInvRate
  <1>9. ASSUME NEW q \in Readers, RatesRead(q) PROVE AskInv'
    BY <1>9, AskInvRatesRead
  <1>10. ASSUME NEW q \in Readers, EndRequest(q) PROVE AskInv'
    <2>1. DOMAIN Unasked = AskFields /\ Unasked.pc = "idle"
      BY DEF Unasked, AskFields
    <2>2. ask' = [ask EXCEPT ![q] = Unasked] /\ rates' = rates
      BY <1>10 DEF EndRequest
    <2> HIDE DEF Unasked
    <2> QED
      BY <2>1, <2>2, AskInvMoves
  <1> QED
    BY <1>1, <1>2, <1>3, <1>4, <1>5, <1>6, <1>7, <1>8, <1>9, <1>10 DEF MoneyStep

(* ... and so the four parts are inductive together.                          *)
LEMMA TotalInvStep == TotalInv /\ MoneyStep => TotalInv'
  BY MoneyInvStep, TotalInvTables, TotalInvAsk DEF TotalInv

(* What a row is worth at a rate.                                           *)
At(rows, base, l, r) ==
    LET v == rows[l] * Book[l].cost * Scale
    IN  CASE Book[l].currency = base -> v
          [] Book[l].currency = "USD" /\ base = "INR" /\ r # Null -> v * r
          [] Book[l].currency = "INR" /\ base = "USD" /\ r # Null -> v \div r
          [] OTHER -> 0

Valued(rows, l, x) ==
    IF x = Null THEN 0 ELSE (rows[l] * Book[l].cost * x.num * Scale) \div x.den

(* The fraction of a pair values a row as the rate does.                    *)
LEMMA ValuedAtRate ==
  ASSUME NEW rows, NEW l \in Lots, rows[l] \in Int, NEW base, NEW r \in Rates
  PROVE  Valued(rows, l, RateAt(Book[l].currency, base, r)) = At(rows, base, l, r)
  <1> DEFINE n == rows[l]
             c == Book[l].cost
             v == n * c * Scale
             cur == Book[l].currency
             x == RateAt(cur, base, r)
  <1>1. n \in Int /\ c \in Nat /\ Scale \in Nat /\ v \in Int
    BY MoneyAssumption
  <1>2. Valued(rows, l, x) = IF x = Null THEN 0 ELSE (n * c * x.num * Scale) \div x.den
    BY DEF Valued
  <1>3. ASSUME NEW y \in Nat \ {0}
        PROVE  [num |-> y, den |-> 1] # Null /\ [num |-> 1, den |-> y] # Null
    BY ScoresAssumption
  <1>4. (n * c * 1 * Scale) \div 1 = v
    BY <1>1
  <1>5. ASSUME NEW y \in Nat \ {0}
        PROVE  /\ (n * c * y * Scale) \div 1 = v * y
               /\ (n * c * 1 * Scale) \div y = v \div y
    <2>1. n * c * y * Scale = v * y /\ n * c * 1 * Scale = v
      BY <1>1, <1>5
    <2>2. v * y \in Int
      BY <1>1, <1>5
    <2> HIDE DEF v
    <2> QED
      BY <2>1, <2>2
  <1> HIDE DEF n, c
  <1>6. CASE cur = base
    <2>1. x = [num |-> 1, den |-> 1]
      BY <1>6 DEF RateAt, One
    <2>2. At(rows, base, l, r) = v
      BY <1>6 DEF At, n, c
    <2>3. x # Null
      BY <1>3, <2>1
    <2> HIDE DEF v, x
    <2> QED
      BY <1>2, <1>4, <2>1, <2>2, <2>3 DEF x
  <1>7. CASE cur # base /\ <<cur, base>> = <<"USD", "INR">> /\ r # Null
    <2>1. x = [num |-> r, den |-> 1] /\ r \in Nat \ {0}
      BY <1>7 DEF RateAt, Rates
    <2>2. At(rows, base, l, r) = v * r
      BY <1>7 DEF At, n, c
    <2>3. x # Null
      BY <1>3, <2>1
    <2> HIDE DEF v, x
    <2> QED
      BY <1>2, <1>5, <2>1, <2>2, <2>3 DEF x
  <1>8. CASE cur # base /\ <<cur, base>> = <<"INR", "USD">> /\ r # Null
    <2>1. x = [num |-> 1, den |-> r] /\ r \in Nat \ {0}
      BY <1>8 DEF RateAt, Rates
    <2>2. At(rows, base, l, r) = v \div r
      BY <1>8 DEF At, n, c
    <2>3. x # Null
      BY <1>3, <2>1
    <2> HIDE DEF v, x
    <2> QED
      BY <1>2, <1>5, <2>1, <2>2, <2>3 DEF x
  <1>9. CASE /\ cur # base
             /\ ~(<<cur, base>> = <<"USD", "INR">> /\ r # Null)
             /\ ~(<<cur, base>> = <<"INR", "USD">> /\ r # Null)
    <2>1. x = Null
      BY <1>9 DEF RateAt
    <2>2. At(rows, base, l, r) = 0
      BY <1>9 DEF At
    <2> QED
      BY <1>2, <2>1, <2>2
  <1> QED
    BY <1>6, <1>7, <1>8, <1>9

(* In rupees a rate is worth more the higher it is, in dollars the lower.   *)
Below(base, r, s) ==
    \/ r = Null
    \/ r # Null /\ s # Null /\ (IF base = "INR" THEN r <= s ELSE s <= r)

(* At a rate that is Below another, a row is worth no more than at the other. *)
LEMMA AtGrows ==
  ASSUME NEW rows, NEW l \in Lots, rows[l] \in Nat, NEW base, NEW r \in Rates, NEW s \in Rates,
         Below(base, r, s)
  PROVE  /\ At(rows, base, l, r) \in Nat /\ At(rows, base, l, s) \in Nat
         /\ At(rows, base, l, r) <= At(rows, base, l, s)
  <1> DEFINE v == rows[l] * Book[l].cost * Scale
             cur == Book[l].currency
  <1>1. v \in Nat
    <2>1. ASSUME NEW a \in Nat, NEW b \in Nat PROVE a * b \in Nat
      OBVIOUS
    <2>2. Book[l].cost \in Nat /\ Scale \in Nat
      BY MoneyAssumption
    <2>3. rows[l] * Book[l].cost \in Nat
      BY <2>1, <2>2
    <2> QED
      BY <2>1, <2>2, <2>3
  <1>2. \A t \in Rates : At(rows, base, l, t) =
            CASE cur = base -> v
              [] cur = "USD" /\ base = "INR" /\ t # Null -> v * t
              [] cur = "INR" /\ base = "USD" /\ t # Null -> v \div t
              [] OTHER -> 0
    BY DEF At
  <1> HIDE DEF v
  <1>3. \A t \in Nat \ {0} : v * t \in Nat /\ v \div t \in Nat
    BY <1>1
  <1>4. \A t \in Rates : At(rows, base, l, t) \in Nat
    <2>1. ASSUME NEW t \in Rates PROVE At(rows, base, l, t) \in Nat
      <3>1. CASE cur = base
        BY <1>1, <1>2, <3>1
      <3>2. CASE cur # base /\ cur = "USD" /\ base = "INR" /\ t # Null
        BY <1>2, <1>3, <3>2 DEF Rates
      <3>3. CASE cur # base /\ cur = "INR" /\ base = "USD" /\ t # Null
        BY <1>2, <1>3, <3>3 DEF Rates
      <3>4. CASE /\ cur # base
                 /\ ~(cur = "USD" /\ base = "INR" /\ t # Null)
                 /\ ~(cur = "INR" /\ base = "USD" /\ t # Null)
        BY <1>2, <3>4
      <3> QED
        BY <3>1, <3>2, <3>3, <3>4
    <2> QED
      BY <2>1
  <1>5. CASE cur = base
    BY <1>1, <1>2, <1>5
  <1>6. CASE cur # base /\ r = Null
    <2>1. At(rows, base, l, r) = 0
      BY <1>2, <1>6
    <2> QED
      BY <1>4, <2>1
  <1>7. CASE cur # base /\ r # Null
    <2>1. /\ s # Null /\ r \in Nat \ {0} /\ s \in Nat \ {0}
          /\ IF base = "INR" THEN r <= s ELSE s <= r
      BY <1>7 DEF Below, Rates
    <2>2. CASE cur = "USD" /\ base = "INR"
      <3>1. At(rows, base, l, r) = v * r /\ At(rows, base, l, s) = v * s
        BY <1>2, <1>7, <2>1, <2>2
      <3>2. r <= s
        BY <2>1, <2>2
      <3>3. v * r <= v * s
        BY <1>1, <2>1, <3>2
      <3> QED
        BY <1>4, <3>1, <3>3
    <2>3. CASE cur = "INR" /\ base = "USD"
      <3>1. At(rows, base, l, r) = v \div r /\ At(rows, base, l, s) = v \div s
        BY <1>2, <1>7, <2>1, <2>3
      <3>2. s <= r
        BY <2>1, <2>3
      <3>3. v \div r <= v \div s
        BY <1>1, <2>1, <3>2
      <3> QED
        BY <1>4, <3>1, <3>3
    <2>4. CASE ~(cur = "USD" /\ base = "INR") /\ ~(cur = "INR" /\ base = "USD")
      <3>1. At(rows, base, l, r) = 0 /\ At(rows, base, l, s) = 0
        BY <1>2, <1>7, <2>4
      <3> QED
        BY <3>1
    <2> QED
      BY <2>2, <2>3, <2>4
  <1> QED
    BY <1>4, <1>5, <1>6, <1>7

(* Of the rates that were the latest one is worth least, and one most.      *)
LEMMA RatesHaveEnds ==
  ASSUME NEW base, NEW seen \in SUBSET Rates, IsFiniteSet(seen), seen # {}
  PROVE  /\ \E r \in seen : \A s \in seen : Below(base, r, s)
         /\ \E r \in seen : \A s \in seen : Below(base, s, r)
  <1> DEFINE N == seen \ {Null}
             f == [r \in N |-> r]
  <1>1. IsFiniteSet(N) /\ \A r \in N : f[r] \in Int /\ f[r] = r
    BY FS_Subset DEF Rates
  <1>2. CASE N = {}
    BY <1>2 DEF Below
  <1>3. CASE N # {}
    <2>1. PICK a \in N, b \in N : \A r \in N : a <= r /\ r <= b
      <3> HIDE DEF N, f
      <3>1. /\ \E x \in N : \A y \in N : f[x] <= f[y]
            /\ \E x \in N : \A y \in N : f[y] <= f[x]
        BY <1>1, <1>3, ExtremesExist
      <3>2. PICK a \in N : \A y \in N : f[a] <= f[y]
        BY <3>1
      <3>3. PICK b \in N : \A y \in N : f[y] <= f[b]
        BY <3>1
      <3>4. \A r \in N : a <= r /\ r <= b
        BY <1>1, <3>2, <3>3
      <3> QED
        BY <3>4
    <2>2. CASE base = "INR"
      <3>1. \A s \in seen : Below(base, s, b) /\ (Null \notin seen => Below(base, a, s))
        BY <2>1, <2>2 DEF Below
      <3> QED
        BY <3>1 DEF Below
    <2>3. CASE base # "INR"
      <3>1. \A s \in seen : Below(base, s, a) /\ (Null \notin seen => Below(base, b, s))
        BY <2>1, <2>3 DEF Below
      <3> QED
        BY <3>1 DEF Below
    <2> QED
      BY <2>2, <2>3
  <1> QED
    BY <1>2, <1>3

(* When its rates are read, every row of a request is worth what it is at   *)
(* one of the rates that were the latest meanwhile.                         *)
LEMMA WorthIsAtRate ==
  ASSUME TotalInv, NEW q \in Readers, ask[q].pc # "idle", ask[q].todo = {}, NEW l \in Lots
  PROVE  \E r \in ask[q].seen : Worth(q, l) = At(ask[q].rows, ask[q].base, l, r)
  <1> DEFINE x == ask[q]
             cur == Book[l].currency
  <1>1. RatesOf(x) /\ Latest \in x.seen
    BY DEF TotalInv, AskInv
  <1>2. Worth(q, l) = Valued(x.rows, l, x.used[l])
    BY DEF Worth, Valued
  <1>3. x.rows[l] \in Int /\ x.seen \subseteq Rates
    BY <1>1 DEF RatesOf
  <1>4. CASE \E r \in x.seen : x.used[l] = RateAt(cur, x.base, r)
    BY <1>2, <1>3, <1>4, ValuedAtRate
  <1>5. CASE x.used[l] = Null /\ x.rows[l] = 0
    <2>1. Worth(q, l) = 0
      BY <1>5 DEF Worth
    <2>2. At(x.rows, x.base, l, Latest) = 0
      <3> DEFINE r == Latest
                 v == x.rows[l] * Book[l].cost * Scale
      <3>1. v = 0
        BY <1>5, MoneyAssumption
      <3>2. r \in Rates
        BY <1>1, <1>3
      <3> HIDE DEF r, v
      <3>3. r # Null => v * r = 0 /\ v \div r = 0
        BY <3>1, <3>2 DEF Rates
      <3>4. At(x.rows, x.base, l, r) \in {v, v * r, v \div r, 0}
            /\ (r = Null => At(x.rows, x.base, l, r) \in {v, 0})
        BY DEF At, v
      <3> QED
        BY <3>1, <3>3, <3>4 DEF r
    <2> QED
      BY <1>1, <2>1, <2>2
  <1> QED
    BY <1>1, <1>4, <1>5 DEF RatesOf

(* The rows without a rate add nothing.                                     *)
LEMMA TotalIsOfAll ==
  ASSUME NEW q \in Readers, \A l \in Lots : Worth(q, l) \in Int
  PROVE  WorthOf(q, Counted(q)) = SumFunctionOnSet([l \in Lots |-> Worth(q, l)], Lots)
  <1> DEFINE S == Counted(q)
             f == [l \in S |-> Worth(q, l)]
             g == [l \in Lots |-> Worth(q, l)]
  <1>1. S \in SUBSET Lots /\ IsFiniteSet(Lots) /\ IsFiniteSet(S)
    BY MoneyAssumption, FS_Subset DEF Counted
  <1>2. \A l \in S : f[l] = g[l]
    BY <1>1
  <1>3. \A l \in Lots : g[l] \in Int
    OBVIOUS
  <1>4. \A l \in Lots \ S : g[l] = 0
    BY DEF Counted, Worth
  <1>5. WorthOf(q, S) = SumFunctionOnSet(f, S)
    BY DEF WorthOf
  <1> HIDE DEF S, f, g
  <1>6. SumFunctionOnSet(f, S) = SumFunctionOnSet(g, S)
    BY <1>1, <1>2, SumEqual
  <1>7. SumFunctionOnSet(g, Lots) = SumFunctionOnSet(g, S)
    BY <1>1, <1>3, <1>4, SumWithoutZeros
  <1> QED
    BY <1>5, <1>6, <1>7 DEF S, g

(* So a portfolio without short positions is worth no less than at the rate *)
(* that makes it least, and no more than at the one that makes it most.     *)
LEMMA TotalInvTells == TotalInv => TotalsAgree
  <1> SUFFICES ASSUME TotalInv, NEW q \in Readers, ask[q].pc = "done", LongOnly(q)
               PROVE  LET total == WorthOf(q, Counted(q))
                          at == {WorthAt(ask[q].rows, ask[q].base, r) : r \in ask[q].seen}
                      IN  (\E x \in at : x <= total) /\ (\E x \in at : total <= x)
    BY DEF TotalsAgree
  <1> DEFINE x == ask[q]
             w == [l \in Lots |-> Worth(q, l)]
             g(r) == [l \in Lots |-> At(x.rows, x.base, l, r)]
  <1>1. x.pc # "idle" /\ x.todo = {} /\ RatesOf(x) /\ Latest \in x.seen
    BY DEF TotalInv, AskInv, MarksOf
  <1>2. IsFiniteSet(Lots) /\ x.seen \subseteq Rates /\ \A l \in Lots : x.rows[l] \in Nat
    BY <1>1, MoneyAssumption DEF RatesOf, LongOnly
  <1>3. PICK lo \in x.seen, hi \in x.seen :
            \A s \in x.seen : Below(x.base, lo, s) /\ Below(x.base, s, hi)
    BY <1>1, <1>2, RatesHaveEnds DEF RatesOf
  <1>4. ASSUME NEW l \in Lots
        PROVE  /\ w[l] \in Int /\ g(lo)[l] \in Int /\ g(hi)[l] \in Int
               /\ g(lo)[l] <= w[l] /\ w[l] <= g(hi)[l]
    <2>1. PICK r \in x.seen : Worth(q, l) = At(x.rows, x.base, l, r)
      BY <1>1, WorthIsAtRate
    <2>2. /\ At(x.rows, x.base, l, lo) \in Nat /\ At(x.rows, x.base, l, r) \in Nat
          /\ At(x.rows, x.base, l, hi) \in Nat
          /\ At(x.rows, x.base, l, lo) <= At(x.rows, x.base, l, r)
          /\ At(x.rows, x.base, l, r) <= At(x.rows, x.base, l, hi)
      BY <1>2, <1>3, AtGrows
    <2> QED
      BY <2>1, <2>2
  <1>5. WorthOf(q, Counted(q)) = SumFunctionOnSet(w, Lots)
    <2>1. \A l \in Lots : Worth(q, l) \in Int
      BY <1>4
    <2> QED
      BY <2>1, TotalIsOfAll
  <1>6. \A r \in x.seen : WorthAt(x.rows, x.base, r) = SumFunctionOnSet(g(r), Lots)
    BY DEF WorthAt, At, SumFunction
  <1>7. SumFunctionOnSet(g(lo), Lots) <= SumFunctionOnSet(w, Lots)
    <2> DEFINE a == g(lo)
    <2>1. \A l \in Lots : a[l] \in Int /\ w[l] \in Int /\ a[l] <= w[l]
      BY <1>4
    <2> HIDE DEF a, w
    <2>2. SumFunctionOnSet(a, Lots) <= SumFunctionOnSet(w, Lots)
      BY <1>2, <2>1, SumMonotonic
    <2> QED
      BY <2>2 DEF a
  <1>8. SumFunctionOnSet(w, Lots) <= SumFunctionOnSet(g(hi), Lots)
    <2> DEFINE b == g(hi)
    <2>1. \A l \in Lots : b[l] \in Int /\ w[l] \in Int /\ w[l] <= b[l]
      BY <1>4
    <2> HIDE DEF b, w
    <2>2. SumFunctionOnSet(w, Lots) <= SumFunctionOnSet(b, Lots)
      BY <1>2, <2>1, SumMonotonic
    <2> QED
      BY <2>2 DEF b
  <1> HIDE DEF g, w
  <1> QED
    BY <1>5, <1>6, <1>7, <1>8

-----------------------------------------------------------------------------
(* The blended return of the benchmarks.                                    *)

IsFraction(x) == {x.num, x.den} \subseteq Nat \ {0}

(* The change of the exchange rate over the year is a number ...              *)
LEMMA FxChangeIsInt ==
  ASSUME RatesInv, NEW q \in Readers, NEW native, NEW end \in Int
  PROVE  FxChange(q, native, end) \in Int
  <1>1. ASSUME NEW d \in Int PROVE RateAsOf(d) \in Rates
    <2> DEFINE known == {k \in Days : k <= d /\ rates[k] # Null}
    <2>1. RateAsOf(d) = IF known = {} THEN Null ELSE rates[Max(known)]
      BY DEF RateAsOf
    <2>2. known \in SUBSET Int /\ known \subseteq Days /\ \A x \in known : x <= d
      BY MoneyAssumption DEF Days
    <2> HIDE DEF known
    <2>3. known # {} => Max(known) \in Days
      BY <1>1, <2>2, MaxIsGreatest
    <2> QED
      BY <2>1, <2>3 DEF RatesInv, Rates
  <1>2. ASSUME NEW d \in Int, GetRate(native, ask[q].base, d) # Null
        PROVE  IsFraction(GetRate(native, ask[q].base, d))
    <2> DEFINE r == RateAsOf(d)
               x == GetRate(native, ask[q].base, d)
    <2>1. r \in Rates
      BY <1>1
    <2>2. x = One \/ (r # Null /\ x = [num |-> r, den |-> 1])
          \/ (r # Null /\ x = [num |-> 1, den |-> r])
      BY <1>2 DEF GetRate
    <2> HIDE DEF r, x
    <2>3. IsFraction(x)
      BY <2>1, <2>2 DEF IsFraction, One, Rates
    <2> QED
      BY <2>3 DEF x
  <1> DEFINE a == GetRate(native, ask[q].base, end - Period)
             b == GetRate(native, ask[q].base, end)
  <1>3. end - Period \in Int
    BY MoneyAssumption
  <1>4. (a # Null => IsFraction(a)) /\ (b # Null => IsFraction(b))
    BY <1>2, <1>3
  <1>5. FxChange(q, native, end) =
          IF a = Null \/ b = Null THEN 0
          ELSE (100 * b.num * a.den) \div (b.den * a.num) - 100
    BY DEF FxChange
  <1> HIDE DEF a, b
  <1>6. ASSUME a # Null, b # Null
        PROVE  (100 * b.num * a.den) \div (b.den * a.num) - 100 \in Int
    <2>1. b.num \in Nat /\ a.den \in Nat /\ b.den \in Nat \ {0} /\ a.num \in Nat \ {0}
      BY <1>4, <1>6 DEF IsFraction
    <2>2. 100 * b.num * a.den \in Int
      BY <2>1
    <2>3. b.den * a.num \in Int /\ b.den * a.num > 0
      BY <2>1
    <2>4. (100 * b.num * a.den) \div (b.den * a.num) \in Int
      BY <2>2, <2>3, QuotientIsInt
    <2> DEFINE y == (100 * b.num * a.den) \div (b.den * a.num)
    <2> HIDE DEF y
    <2>5. y \in Int
      BY <2>4 DEF y
    <2>6. y - 100 \in Int
      BY <2>5
    <2> QED
      BY <2>6 DEF y
  <1> QED
    BY <1>5, <1>6

(* ... and so is the return of a market's benchmark with it.                  *)
LEMMA MarketReturnIsInt ==
  ASSUME TotalInv, NEW q \in Readers, ask[q].pc = "done", ask[q].kind = "intelligence",
         Counted(q) # {}, NEW k
  PROVE  MarketReturn(q, k) \in Int
  <1>1. CASE k \notin {"IN", "US"}
    BY <1>1 DEF MarketReturn
  <1>2. CASE k \in {"IN", "US"}
    <2> DEFINE n == IF k = "IN" THEN 1 ELSE 2
               m == ask[q].marks[n]
               c == FxChange(q, MarketCurrency[k], m.end)
    <2>1. ask[q].marks \in Seq(Marks) /\ Len(ask[q].marks) = 2
      BY DEF TotalInv, AskInv, MarksOf, Counted
    <2>2. n \in 1 .. 2
      OBVIOUS
    <2>3. MarketReturn(q, k) = ((100 + m.ret) * (100 + c)) \div 100 - 100
      BY <1>2 DEF MarketReturn
    <2> HIDE DEF n
    <2>4. m \in Marks
      BY <2>1, <2>2
    <2> HIDE DEF m
    <2>5. m.ret \in Int /\ m.end \in Int
      BY <2>4 DEF Marks
    <2>6. c \in Int
      BY <2>5, FxChangeIsInt DEF TotalInv
    <2> HIDE DEF c
    <2>7. (100 + m.ret) * (100 + c) \in Int
      BY <2>5, <2>6
    <2> DEFINE y == (100 + m.ret) * (100 + c)
    <2> HIDE DEF y
    <2>8. y \div 100 - 100 \in Int
      BY <2>7 DEF y
    <2> QED
      BY <2>3, <2>8 DEF y
  <1> QED
    BY <1>1, <1>2

(* The markets are weighed by what is invested in them, and something is.   *)
LEMMA BlendedReturnIsBetween ==
  ASSUME TotalInv, NEW q \in Readers, ask[q].pc = "done", ask[q].kind = "intelligence",
         LongOnly(q), WorthOf(q, Counted(q)) > 0
  PROVE  Between(BlendedReturn(q), MarketReturns(q))
  <1> DEFINE x == ask[q]
             S == Counted(q)
             w == [k \in Markets(q) |-> WorthOf(q, InMarket(q, k))]
             v == MarketReturns(q)
  <1>1. x.pc # "idle" /\ x.todo = {} /\ RatesOf(x)
    BY DEF TotalInv, AskInv, MarksOf
  <1>2. S \subseteq Lots /\ IsFiniteSet(Lots) /\ IsFiniteSet(S)
    BY MoneyAssumption, FS_Subset DEF Counted
  <1>3. \A l \in Lots : Worth(q, l) \in Nat
    <2>1. ASSUME NEW l \in Lots PROVE Worth(q, l) \in Nat
      <3>1. PICK r \in x.seen : Worth(q, l) = At(x.rows, x.base, l, r)
        BY <1>1, WorthIsAtRate
      <3>2. r \in Rates /\ x.rows[l] \in Nat
        BY <1>1 DEF RatesOf, LongOnly
      <3>3. Below(x.base, r, r)
        BY <3>2 DEF Below, Rates
      <3> QED
        BY <3>1, <3>2, <3>3, AtGrows
    <2> QED
      BY <2>1
  <1>4. ASSUME NEW T \in SUBSET S
        PROVE  /\ WorthOf(q, T) \in Nat
               /\ \A l \in T : Worth(q, l) <= WorthOf(q, T)
               /\ WorthOf(q, T) # 0 => \E l \in T : Worth(q, l) # 0
    <2> DEFINE f == [l \in T |-> Worth(q, l)]
    <2>1. IsFiniteSet(T) /\ \A l \in T : f[l] \in Nat /\ f[l] = Worth(q, l)
      BY <1>2, <1>3, FS_Subset
    <2>2. WorthOf(q, T) = SumFunctionOnSet(f, T)
      BY DEF WorthOf
    <2> HIDE DEF f
    <2>3. /\ SumFunctionOnSet(f, T) \in Nat
          /\ \A l \in T : f[l] <= SumFunctionOnSet(f, T)
          /\ SumFunctionOnSet(f, T) = 0 <=> \A l \in T : f[l] = 0
      BY <2>1, SumNat
    <2> QED
      BY <2>1, <2>2, <2>3
  <1>5. PICK l \in S : Worth(q, l) # 0
    BY <1>4
  <1>6. /\ MarketOf(l) \in Markets(q) /\ l \in InMarket(q, MarketOf(l))
        /\ w[MarketOf(l)] > 0
    <2>1. MarketOf(l) \in Markets(q) /\ l \in InMarket(q, MarketOf(l))
      BY DEF Markets, InMarket
    <2>2. InMarket(q, MarketOf(l)) \in SUBSET S
      BY DEF InMarket
    <2>3. /\ WorthOf(q, InMarket(q, MarketOf(l))) \in Nat
          /\ Worth(q, l) <= WorthOf(q, InMarket(q, MarketOf(l)))
      BY <1>4, <2>1, <2>2
    <2>4. Worth(q, l) > 0
      BY <1>2, <1>3, <1>5
    <2>5. w[MarketOf(l)] = WorthOf(q, InMarket(q, MarketOf(l)))
      BY <2>1
    <2> QED
      BY <1>2, <1>3, <2>1, <2>3, <2>4, <2>5
  <1>7. DOMAIN v = Markets(q) /\ \A k \in Markets(q) : v[k] \in Int /\ w[k] \in Nat
    <2>1. \A k \in Markets(q) : MarketReturn(q, k) \in Int
      BY <1>5, MarketReturnIsInt
    <2>2. \A k \in Markets(q) : InMarket(q, k) \in SUBSET S
      BY DEF InMarket
    <2> QED
      BY <1>4, <2>1, <2>2 DEF MarketReturns
  <1>8. IsFiniteSet(Markets(q))
    <2>1. Markets(q) \subseteq {"IN", "US", "OTHER", "OTHER", "OTHER", "OTHER"}
      BY DEF Markets, MarketOf
    <2> QED
      BY <2>1, SixAreFinite, FS_Subset
  <1>9. BlendedReturn(q) = Blend(w, v)
    <2>1. ~(WorthOf(q, Counted(q)) <= 0)
      BY <1>4
    <2> QED
      BY <2>1, Zenon DEF BlendedReturn
  <1> HIDE DEF v, w
  <1>10. Numbers(v) /\ Present(v) = Markets(q)
    BY <1>7, ScoresAssumption DEF Numbers, MaybeInt, Present
  <1>11. Weighs(w, v)
    BY <1>6, <1>7, <1>10 DEF Weighs
  <1>12. Between(Blend(w, v), v)
    BY <1>7, <1>8, <1>10, <1>11, BlendIsBetween
  <1> QED
    BY <1>9, <1>12 DEF v

(* What the other scenes do does not touch it.                              *)
LEMMA TotalInvRests == TotalInv /\ UNCHANGED moneyVars => TotalInv'
  <1> SUFFICES ASSUME TotalInv, UNCHANGED moneyVars PROVE TotalInv'
    OBVIOUS
  <1>1. rates' = rates /\ fx' = fx /\ bench' = bench /\ ask' = ask /\ today' = today
    BY DEF moneyVars
  <1>2. AskInv'
    BY <1>1, AskInvRest DEF TotalInv
  <1> QED
    BY <1>1, <1>2 DEF TotalInv, MoneyInv, RatesInv, BenchInv

(* A portfolio is worth something between what it is at the rates that were *)
(* the latest while it was added up.                                        *)
THEOREM TotalsHold == Spec => []TotalsAgree
  <1>1. Init => TotalInv
    BY TotalInvStarts DEF Init
  <1>2. TotalInv /\ [Next]_vars => TotalInv'
    BY TotalInvStep, TotalInvRests DEF Next, vars
  <1> QED
    BY <1>1, <1>2, TotalInvTells, PTL DEF Spec

-----------------------------------------------------------------------------
(* All of them together.                                                    *)

BlendInv == TotalInv /\ HealthInv /\ PanelInv /\ StoryInv /\ FilingInv /\ OpinionInv

(* At the start all six parts hold.                                           *)
LEMMA BlendInvStarts == Init => BlendInv
  <1> SUFFICES ASSUME Init PROVE BlendInv
    OBVIOUS
  <1>1. HealthInv /\ PanelInv
    <2>1. Away.pc = "idle" /\ Away.answer = Null
      BY DEF Away
    <2>2. portfolio \in Portfolios
      BY HealthAssumption DEF Init, InitHealth
    <2>3. /\ hour = 0 /\ asOf = [c \in Links |-> 0] /\ stored = Null
          /\ visit = [v \in Visitors |-> Away]
      BY DEF Init, InitHealth
    <2>4. \A v \in Visitors : visit[v].pc = "idle" /\ visit[v].answer = Null
      BY <2>1, <2>3
    <2>5. HealthInv
      BY DEF Init, InitHealth, HealthInv, Away
    <2>6. PanelInv
      BY <2>2, <2>3, <2>4 DEF PanelInv
    <2> QED
      BY <2>5, <2>6
  <1> QED
    BY <1>1, TotalInvStarts, StoryInvStarts, FilingInvStarts, OpinionInvStarts
    DEF Init, BlendInv

(* No step of any of the parts breaks one of another.                         *)
LEMMA BlendInvStep == BlendInv /\ [Next]_vars => BlendInv'
  <1> SUFFICES ASSUME BlendInv, [Next]_vars PROVE BlendInv'
    OBVIOUS
  <1>1. TotalInv'
    BY TotalInvStep, TotalInvRests DEF BlendInv, Next, vars
  <1>2. HealthInv' /\ PanelInv'
    <2>1. UNCHANGED healthVars => HealthInv'
      BY DEF BlendInv, healthVars, HealthInv, IsEntry
    <2>2. UNCHANGED healthVars => PanelInv'
      BY DEF BlendInv, healthVars, PanelInv, IsAnswerOf
    <2> QED
      BY <2>1, <2>2, HealthInvStep, PanelInvStep DEF BlendInv, Next, vars
  <1>3. StoryInv'
    <2>1. UNCHANGED newsVars => StoryInv'
      BY DEF BlendInv, newsVars, StoryInv
    <2> QED
      BY <2>1, StoryInvStep DEF BlendInv, Next, vars
  <1>4. FilingInv'
    <2>1. UNCHANGED filingVars => FilingInv'
      BY DEF BlendInv, filingVars, FilingInv
    <2> QED
      BY <2>1, FilingInvStep DEF BlendInv, Next, vars
  <1>5. OpinionInv'
    BY OpinionInvStep DEF BlendInv
  <1> QED
    BY <1>1, <1>2, <1>3, <1>4, <1>5 DEF BlendInv

(* Whatever is blended is between what it is blended of.                    *)
LEMMA BlendInvTells == BlendInv => BlendsStayBetween
  <1> SUFFICES ASSUME BlendInv PROVE BlendsStayBetween
    OBVIOUS
  <1>1. ASSUME NEW q \in Readers, ask[q].pc = "done", ask[q].kind = "intelligence",
               LongOnly(q), WorthOf(q, Counted(q)) > 0
        PROVE  Between(BlendedReturn(q), MarketReturns(q))
    BY <1>1, BlendedReturnIsBetween DEF BlendInv
  <1>2. ASSUME NEW p \in Portfolios
        PROVE  /\ Between(OverallRisk(p), Meter(p)) /\ Within(Meter(p), 0, 100)
               /\ Between(OverallHealth(p), Health(p)) /\ Within(Health(p), 0, 100)
    <2>1. IsPanel(p)
      BY HealthAssumption
    <2>2. Between(OverallRisk(p), Meter(p)) /\ Within(Meter(p), 0, 100)
      BY <2>1, MeterIsWithin, BlendIsBetween DEF OverallRisk
    <2>3. Between(OverallHealth(p), Health(p)) /\ Within(Health(p), 0, 100)
      BY <2>1, HealthIsWithin, BlendIsBetween DEF OverallHealth
    <2> QED
      BY <2>2, <2>3
  <1>3. Between(OverallRisk(portfolio), Meter(portfolio)) /\ Within(Meter(portfolio), 0, 100)
    BY <1>2 DEF BlendInv, PanelInv
  <1>4. ASSUME NEW v \in Visitors, visit[v].answer # Null
        PROVE  /\ Between(visit[v].answer.overall, visit[v].answer.health)
               /\ Within(visit[v].answer.health, 0, 100)
    <2>1. IsAnswerOf(visit[v].answer)
      BY <1>4 DEF BlendInv, PanelInv
    <2> QED
      BY <1>2, <2>1 DEF IsAnswerOf
  <1>5. ASSUME NEW c \in Callers
        PROVE  Between(Sentiment(story[c]), Legs(story[c])) /\ Within(Legs(story[c]), -100, 100)
    BY SentimentIsBetween DEF BlendInv, StoryInv
  <1>6. ASSUME NEW q \in Seekers, seek[q].filing # Null
        PROVE  /\ Between(Fundamental(seek[q].filing), Fundamentals(seek[q].filing))
               /\ Within(Fundamentals(seek[q].filing), 0, 100)
    <2>1. IsFiling(seek[q].filing)
      BY <1>6, FilingIsOne DEF BlendInv, FilingInv, IsRequest
    <2> QED
      BY <2>1, FundamentalsAreWithin, BlendIsBetween DEF Fundamental
  <1>7. ASSUME opinion.of.technical # Null
        PROVE  /\ Between(Technical(opinion.of.technical), Signals(opinion.of.technical))
               /\ Within(Signals(opinion.of.technical), -100, 100)
    <2>1. IsReading(opinion.of.technical)
      BY <1>7 DEF BlendInv, OpinionInv
    <2> DEFINE m == opinion.of.technical
    <2> HIDE DEF m
    <2>2. /\ IsFiniteSet(DOMAIN Signals(m)) /\ Numbers(Signals(m))
          /\ Within(Signals(m), -100, 100) /\ Weighs(TechnicalWeights, Signals(m))
      BY <2>1, SignalsAreWithin DEF m
    <2> QED
      BY <2>2, BlendIsBetween DEF Technical, m
  <1>8. opinion.of.risk # Null => RiskScore(opinion.of.risk) \in 0 .. 100
    BY RiskScoreIsWithin DEF BlendInv, OpinionInv
  <1>9. /\ Between(Blend(SynthWeights, opinion.scores), opinion.scores)
        /\ Within(opinion.scores, -100, 100)
    BY ScoresAreWithin, BlendIsBetween DEF BlendInv
  <1> QED
    BY <1>1, <1>3, <1>4, <1>5, <1>6, <1>7, <1>8, <1>9 DEF BlendsStayBetween

(* No score leaves its scale, and no blend its components, whatever is      *)
(* missing.                                                                 *)
THEOREM BlendsHold == Spec => []BlendsStayBetween
  BY BlendInvStarts, BlendInvStep, BlendInvTells, PTL DEF Spec
=============================================================================
