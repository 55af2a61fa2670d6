------------------------ MODULE PriceHistory_proofs ------------------------
(* Theorems about PriceHistory, for any splits, days, indicators, calls,    *)
(* requests and lifetimes.                                                  *)
EXTENDS PriceHistory, TLAPS

-----------------------------------------------------------------------------
(* Splits.                                                                  *)

(* An idle call names the split that Init chooses, if there is one at all.  *)
Named == Splits \union {CHOOSE s \in Splits : TRUE}

SplitTypes ==
    /\ row \in [Splits -> {"none", "recorded", "applied"}]
    /\ times \in [Splits -> [Days -> Nat]]
    /\ call \in [Calls -> [pc : {"idle", "update", "invalidate", "done"}, split : Named]]

(* What a call has in hand is recorded; and while no two calls have had one *)
(* split in hand, the marker tells how often its bars were multiplied, and  *)
(* whoever has it in hand has it alone.                                     *)
InHand(c, s) == Busy(c) /\ call[c].split = s

MarkerTells(s) ==
    /\ \A c, d \in Calls : InHand(c, s) /\ InHand(d, s) => c = d
    /\ \A c \in Calls : InHand(c, s) => row[s] = "recorded"
    /\ \A d \in Days : IF row[s] = "applied" THEN times[s][d] <= 1 ELSE times[s][d] = 0

SplitInv ==
    /\ SplitTypes
    /\ \A c \in Calls : Busy(c) => call[c].split \in Splits /\ row[call[c].split] # "none"
    /\ \A s \in Splits \ overlapped : MarkerTells(s)

(* At the start nothing is recorded and nobody has anything in hand.        *)
LEMMA SplitInvInit == Init => SplitInv
  BY DEF Init, SplitInv, SplitTypes, MarkerTells, InHand, Busy, Named

(* Only these matter to it.                                                 *)
LEMMA SplitInvFrame ==
  ASSUME SplitInv, UNCHANGED tableVars
  PROVE  SplitInv'
  BY DEF SplitInv, SplitTypes, MarkerTells, InHand, Busy, tableVars

(* A recorded split has multiplied nothing, and still has not.              *)
LEMMA SplitInvRecord ==
  ASSUME SplitInv, NEW s \in Splits, Record(s)
  PROVE  SplitInv'
  <1>1. SplitTypes'
    BY DEF SplitInv, SplitTypes, Record
  <1>2. \A x \in Splits : row[x] # "none" => row'[x] = row[x]
    BY DEF SplitInv, SplitTypes, Record
  <1>3. ASSUME NEW x \in Splits \ overlapped' PROVE MarkerTells(x)'
    <2>1. MarkerTells(x) /\ (row'[x] = "applied" <=> row[x] = "applied")
      BY <1>3 DEF SplitInv, SplitTypes, Record
    <2> QED
      BY <1>2, <2>1 DEF MarkerTells, InHand, Busy, Record
  <1> QED
    BY <1>1, <1>2, <1>3 DEF SplitInv, Busy, Record

(* A call takes a split in hand only when it is recorded and not applied;   *)
(* if another call has it, the two overlap.                                 *)
LEMMA SplitInvReadMarker ==
  ASSUME SplitInv, NEW c \in Calls, NEW s \in Splits, ReadMarker(c, s)
  PROVE  SplitInv'
  <1> DEFINE pc == IF row[s] = "recorded" THEN "update" ELSE "done"
  <1>1. /\ call' = [call EXCEPT ![c] = [pc |-> pc, split |-> s]]
        /\ UNCHANGED <<row, times>> /\ ~Busy(c)
    BY DEF ReadMarker, Busy
  <1>2. SplitTypes'
    BY <1>1 DEF SplitInv, SplitTypes, Named
  <1>3. \A o \in Calls : IF o = c THEN call'[o].pc = pc /\ call'[o].split = s
                         ELSE call'[o] = call[o]
    BY <1>1 DEF SplitInv, SplitTypes
  <1>4. ASSUME NEW x \in Splits \ overlapped' PROVE MarkerTells(x)'
    <2>1. MarkerTells(x) /\ (x = s => \A o \in Calls : ~InHand(o, s))
      BY <1>4 DEF SplitInv, ReadMarker, InHand
    <2> QED
      BY <1>1, <1>3, <2>1 DEF MarkerTells, InHand, Busy
  <1> QED
    BY <1>1, <1>2, <1>3, <1>4 DEF SplitInv, Busy

(* A call that goes on or lets go, and changes no table.                    *)
LEMMA SplitInvMove ==
  ASSUME SplitInv, NEW c \in Calls, Busy(c), NEW pc \in {"invalidate", "done"},
         call' = [call EXCEPT ![c].pc = pc], UNCHANGED <<row, times, overlapped>>
  PROVE  SplitInv'
  <1>1. SplitTypes'
    BY DEF SplitInv, SplitTypes
  <1>2. \A o \in Calls : call'[o].split = call[o].split /\ (Busy(o)' => Busy(o))
    BY DEF SplitInv, SplitTypes, Busy
  <1>3. ASSUME NEW x \in Splits \ overlapped' PROVE MarkerTells(x)'
    BY <1>2, <1>3 DEF SplitInv, MarkerTells, InHand
  <1> QED
    BY <1>1, <1>2, <1>3 DEF SplitInv

(* The commit multiplies the bars of what was recorded, and marks it.       *)
LEMMA SplitInvCommit ==
  ASSUME SplitInv, NEW c \in Calls, Commit(c)
  PROVE  SplitInv'
  <1> DEFINE s == call[c].split
  <1>1. /\ s \in Splits /\ InHand(c, s)
        /\ row' = [row EXCEPT ![s] = "applied"]
        /\ times' = [times EXCEPT ![s] =
                        [d \in Days |-> IF d \in Window(s) THEN @[d] + 1 ELSE @[d]]]
        /\ call' = [call EXCEPT ![c].pc = "done"] /\ overlapped' = overlapped
    BY DEF Commit, Multiplied, SplitInv, Busy, InHand
  <1>2. SplitTypes'
    BY <1>1 DEF SplitInv, SplitTypes
  <1>3. \A o \in Calls : call'[o].split = call[o].split
                         /\ (Busy(o)' <=> Busy(o) /\ o # c)
    BY <1>1 DEF SplitInv, SplitTypes, Busy
  <1>4. row'[s] = "applied" /\ \A x \in Splits \ {s} : row'[x] = row[x] /\ times'[x] = times[x]
    BY <1>1 DEF SplitInv, SplitTypes
  <1>5. ASSUME NEW x \in Splits \ overlapped' PROVE MarkerTells(x)'
    <2>1. MarkerTells(x)
      BY <1>1 DEF SplitInv
    <2>2. CASE x # s
      BY <1>3, <1>4, <2>1, <2>2 DEF MarkerTells, InHand
    <2>3. CASE x = s
      <3>1. \A o \in Calls : ~InHand(o, x)'
        BY <1>1, <1>3, <2>1, <2>3 DEF MarkerTells, InHand
      <3>2. \A d \in Days : times[s][d] = 0
        BY <1>1, <2>1, <2>3 DEF MarkerTells
      <3>3. \A d \in Days : times'[s][d] <= 1
        BY <1>1, <3>2 DEF SplitInv, SplitTypes
      <3> QED
        BY <1>4, <2>3, <3>1, <3>3 DEF MarkerTells
    <2> QED
      BY <2>2, <2>3
  <1> QED
    BY <1>2, <1>3, <1>4, <1>5 DEF SplitInv

(* Every step keeps it.                                                     *)
LEMMA SplitInvStep == SplitInv /\ [Next]_vars => SplitInv'
  <1> SUFFICES ASSUME SplitInv, [Next]_vars PROVE SplitInv'
    OBVIOUS
  <1>1. CASE \E s \in Splits : Record(s)
    BY <1>1, SplitInvRecord
  <1>2. ASSUME NEW c \in Calls, ApplySplit(c) PROVE SplitInv'
    <2>1. CASE \E s \in Splits : ReadMarker(c, s)
      BY <2>1, SplitInvReadMarker
    <2>2. CASE Update(c)
      BY <2>2, SplitInvMove DEF Update, Busy
    <2>3. CASE Commit(c)
      BY <2>3, SplitInvCommit
    <2>4. CASE Abort(c)
      BY <2>4, SplitInvMove DEF Abort
    <2>5. CASE \E i \in Names : DeleteKey(c, i)
      BY <2>5, SplitInvFrame DEF DeleteKey
    <2> QED
      BY <1>2, <2>1, <2>2, <2>3, <2>4, <2>5 DEF ApplySplit
  <1>3. CASE UNCHANGED tableVars
    BY <1>3, SplitInvFrame
  <1>4. (\E r \in Requests : Analyze(r)) \/ Store \/ Tick \/ UNCHANGED vars => UNCHANGED tableVars
    BY DEF Analyze, Select, Get, Compute, Set, Drop, NoTable, Store, Tick, vars, tableVars
  <1> QED
    BY <1>1, <1>2, <1>3, <1>4 DEF Next

(* "Idempotent": a split multiplies no bar twice, unless two calls have had *)
(* it in hand at one time.                                                  *)
THEOREM SplitsApplyOnce == Spec => []AppliedOnce
  <1>1. SplitInv => AppliedOnce
    <2> SUFFICES ASSUME SplitInv, NEW s \in Splits \ overlapped, NEW d \in Days
                 PROVE  times[s][d] <= 1
      BY DEF AppliedOnce
    <2> QED
      BY DEF SplitInv, SplitTypes, MarkerTells
  <1> QED
    BY <1>1, SplitInvInit, SplitInvStep, PTL DEF Spec

(* What the database shows of corporate actions is a behaviour of           *)
(* SplitLedger: a split is applied by one step, as a whole or not at all.   *)
THEOREM SplitsImplementLedger == Spec => SplitsAreAtomic
  <1>1. Init => Ledger!Init
    BY DEF Init, Ledger!Init
  <1>2. SplitInv /\ [Next]_vars => [Ledger!Next]_<<row, times>>
    <2> SUFFICES ASSUME SplitInv, [Next]_vars PROVE Ledger!Next \/ UNCHANGED <<row, times>>
      OBVIOUS
    <2>1. CASE \E s \in Splits : Record(s)
      BY <2>1 DEF Record, Ledger!Next, Ledger!Record
    <2>2. ASSUME NEW c \in Calls, Commit(c) PROVE Ledger!Next
      <3>1. call[c].split \in Splits /\ row[call[c].split] # "none"
        BY <2>2 DEF Commit, SplitInv, Busy
      <3>2. Ledger!Apply(call[c].split)
        BY <2>2, <3>1 DEF Commit, Multiplied, Ledger!Apply
      <3> QED
        BY <3>1, <3>2 DEF Ledger!Next
    <2>3. ASSUME NEW c \in Calls, ApplySplit(c) PROVE Commit(c) \/ UNCHANGED <<row, times>>
      BY <2>3 DEF ApplySplit, ReadMarker, Update, DeleteKey, Abort, tableVars
    <2>4. (\E r \in Requests : Analyze(r)) \/ Store \/ Tick \/ UNCHANGED vars
            => UNCHANGED <<row, times>>
      BY DEF Analyze, Select, Get, Compute, Set, Drop, NoTable, Store, Tick, vars, tableVars
    <2> QED
      BY <2>1, <2>2, <2>3, <2>4 DEF Next
  <1> QED
    BY <1>1, <1>2, SplitInvInit, SplitInvStep, PTL DEF Spec, SplitsAreAtomic, Ledger!Spec
-----------------------------------------------------------------------------
(* Indicators.                                                              *)

Ver(i) == cache[i].ver

EntrySet == [ver : Int, age : Int]

RequestSet == [pc : {"idle", "get", "set", "done"}, age : Nat, bars : Nat,
               at : Nat \ {0}, got : [Names -> Int], answer : [Names -> Int]]

RequestTypes ==
    /\ ended \in Seq(Nat) /\ clock \in Nat /\ torn \in BOOLEAN
    /\ cache \in [Names -> EntrySet]
    /\ req \in [Requests -> RequestSet]

(* What is cached was computed, from bars enough, and not from later ones   *)
(* than there are.                                                          *)
CacheIsPast ==
    /\ \A i \in Names : Ver(i) = -1 \/ (EnoughAt[i] <= Ver(i) /\ Ver(i) <= Version)
    /\ \A r \in Requests : req[r].bars <= Version
    /\ \A r \in Requests : req[r].pc = "set" => req[r].at <= Len(Indicators)

(* What one request has seen or written: the hits so far are alike and like *)
(* what is still cached; behind the indicator it is about to write there is *)
(* nothing but its own, from there on the entries are alike.                *)
GetsAlike(r) ==
    \A i, j \in Names : req[r].got[i] # -1 =>
        req[r].got[j] \in {-1, req[r].got[i]} /\ Ver(j) \in {-1, req[r].got[i]}

SetsAlike(r) ==
    /\ \A n \in 1 .. Len(Indicators) :
          n < req[r].at => Ver(Indicators[n]) \in {-1, req[r].bars}
    /\ \A n, m \in 1 .. Len(Indicators) :
          n >= req[r].at /\ m >= req[r].at /\ Ver(Indicators[n]) # -1
            => Ver(Indicators[m]) \in {-1, Ver(Indicators[n])}

CacheAlike == \A i, j \in Names : Ver(i) # -1 => Ver(j) \in {-1, Ver(i)}

RequestAlike(r) ==
    /\ \A i, j \in Names : req[r].answer[i] = req[r].answer[j]
    /\ Open(r) => \A i \in Names : Ver(i) <= req[r].bars
    /\ req[r].pc = "get" => GetsAlike(r)
    /\ req[r].pc = "set" => SetsAlike(r)

Alone ==
    /\ \A r, q \in Requests : Open(r) /\ Open(q) => r = q
    /\ (\A r \in Requests : req[r].pc # "set") => CacheAlike
    /\ \A r \in Requests : RequestAlike(r)

OneVersion == RequestTypes /\ CacheIsPast /\ (~torn => Alone)

(* The indicators are listed once each.                                     *)
LEMMA IndicatorsListed ==
  /\ Len(Indicators) \in Nat \ {0} /\ DOMAIN Indicators = 1 .. Len(Indicators)
  /\ Names = {Indicators[n] : n \in 1 .. Len(Indicators)}
  /\ \A n, m \in 1 .. Len(Indicators) : Indicators[n] = Indicators[m] => n = m
  /\ EnoughAt \in [Names -> Nat]
  <1>1. Indicators \in Seq(Names) /\ Indicators # <<>>
    BY PriceAssumption DEF Names
  <1>2. DOMAIN Indicators = 1 .. Len(Indicators) /\ Len(Indicators) \in Nat \ {0}
    BY <1>1
  <1>3. Names = {Indicators[n] : n \in 1 .. Len(Indicators)}
    BY <1>2 DEF Names, ToSet
  <1> QED
    BY <1>2, <1>3, PriceAssumption DEF IsInjective, Names

(* A request that is not there has seen nothing.                            *)
LEMMA NoRequestIs ==
  LET no == [i \in Names |-> -1]
  IN  no \in [Names -> Int] /\ \A i \in Names : no[i] = -1
  OBVIOUS

(* The two records that mean nothing.                                       *)
LEMMA NoRequestTyped == NoRequest \in RequestSet /\ Miss \in EntrySet /\ Miss.ver = -1
  BY NoRequestIs DEF NoRequest, RequestSet, Miss, EntrySet

(* An entry ages.                                                           *)
LEMMA EntryAges ==
  ASSUME NEW e \in EntrySet
  PROVE  /\ [e EXCEPT !.age = @ + 1] \in EntrySet /\ [e EXCEPT !.age = @ + 1].ver = e.ver
         /\ [e EXCEPT !.age = @ + 1].age = e.age + 1
  BY DEF EntrySet

(* A request ages.                                                          *)
LEMMA RequestAges ==
  ASSUME NEW q \in RequestSet
  PROVE  LET old == [q EXCEPT !.age = @ + 1]
         IN  /\ old \in RequestSet /\ old.pc = q.pc /\ old.bars = q.bars
             /\ old.at = q.at /\ old.got = q.got /\ old.answer = q.answer
             /\ old.age = q.age + 1
  BY DEF RequestSet

(* A request reads one indicator more.                                      *)
WithGot(q, i, v) == [q EXCEPT !.got[i] = v, !.at = @ + 1]

(* Only these fields change.                                                *)
LEMMA RequestGets ==
  ASSUME NEW q \in RequestSet, NEW i \in Names, NEW v \in Int
  PROVE  LET new == WithGot(q, i, v)
         IN  /\ new \in RequestSet /\ new.pc = q.pc /\ new.bars = q.bars
             /\ new.answer = q.answer /\ new.age = q.age
             /\ \A j \in Names : new.got[j] = IF j = i THEN v ELSE q.got[j]
  <1> DEFINE new == WithGot(q, i, v)
             got == [q.got EXCEPT ![i] = v]
  <1>1. got \in [Names -> Int] /\ \A j \in Names : got[j] = IF j = i THEN v ELSE q.got[j]
    BY DEF RequestSet
  <1>2. q.at + 1 \in Nat \ {0}
    BY DEF RequestSet
  <1>3. /\ new.pc = q.pc /\ new.age = q.age /\ new.bars = q.bars /\ new.answer = q.answer
        /\ new.at = q.at + 1 /\ new.got = got
        /\ DOMAIN new = DOMAIN q /\ new = [x \in DOMAIN q |-> new[x]]
    BY DEF RequestSet, WithGot
  <1> QED
    BY <1>1, <1>2, <1>3 DEF RequestSet

(* A request has its answer, and forgets what it read.                      *)
WithAnswer(q, pc, answer) ==
    [q EXCEPT !.pc = pc, !.at = 1, !.answer = answer, !.got = NoRequest.got]

(* Only these fields change.                                                *)
LEMMA RequestComputes ==
  ASSUME NEW q \in RequestSet, NEW pc \in {"set", "done"}, NEW answer \in [Names -> Int]
  PROVE  LET new == WithAnswer(q, pc, answer)
         IN  /\ new \in RequestSet /\ new.pc = pc /\ new.bars = q.bars
             /\ new.at = 1 /\ new.answer = answer /\ new.age = q.age
  <1> DEFINE new == WithAnswer(q, pc, answer)
  <1>1. NoRequest.got \in [Names -> Int]
    BY NoRequestTyped DEF RequestSet
  <1>2. /\ new.pc = pc /\ new.age = q.age /\ new.bars = q.bars /\ new.answer = answer
        /\ new.at = 1 /\ new.got = NoRequest.got
        /\ DOMAIN new = DOMAIN q /\ new = [x \in DOMAIN q |-> new[x]]
    BY DEF RequestSet, WithAnswer
  <1> QED
    BY <1>1, <1>2 DEF RequestSet

(* A request goes on to its next write, or has written everything.          *)
Written(q) == [q EXCEPT !.pc = "done", !.at = 1, !.bars = 0]

(* Only these fields change.                                                *)
LEMMA RequestWrites ==
  ASSUME NEW q \in RequestSet
  PROVE  /\ LET new == [q EXCEPT !.at = @ + 1]
            IN  /\ new \in RequestSet /\ new.answer = q.answer /\ new.pc = q.pc
                /\ new.bars = q.bars /\ new.at = q.at + 1 /\ new.age = q.age
         /\ Written(q) \in RequestSet /\ Written(q).answer = q.answer
         /\ Written(q).pc = "done" /\ Written(q).bars = 0 /\ Written(q).age = q.age
  <1> DEFINE new == [q EXCEPT !.at = @ + 1]
  <1>1. new \in RequestSet
    BY DEF RequestSet
  <1>2. /\ new.answer = q.answer /\ new.pc = q.pc /\ new.bars = q.bars /\ new.at = q.at + 1
        /\ new.age = q.age
    BY DEF RequestSet
  <1> DEFINE w == Written(q)
  <1>3. /\ w.answer = q.answer /\ w.pc = "done" /\ w.bars = 0 /\ w.at = 1
        /\ w.age = q.age /\ w.got = q.got
        /\ DOMAIN w = DOMAIN q /\ w = [x \in DOMAIN q |-> w[x]]
    BY DEF RequestSet, Written
  <1>4. w \in RequestSet
    BY <1>3 DEF RequestSet
  <1> QED
    BY <1>1, <1>2, <1>3, <1>4

(* At the start nothing is cached and nobody has asked.                     *)
LEMMA OneVersionInit == Init => OneVersion
  <1> SUFFICES ASSUME Init PROVE OneVersion
    OBVIOUS
  <1>1. RequestTypes /\ Version = 0
    <2>3. ended \in Seq(Nat) /\ Version = 0
      BY DEF Init, Version
    <2>4. cache \in [Names -> EntrySet]
      BY NoRequestTyped DEF Init
    <2> QED
      BY NoRequestTyped, <2>3, <2>4 DEF Init, RequestTypes
  <1>2. \A i \in Names : Ver(i) = -1
    BY DEF Init, Miss, Ver
  <1>3. \A r \in Requests : req[r] = NoRequest
    BY DEF Init
  <1>4. CacheIsPast
    BY <1>1, <1>2, <1>3 DEF CacheIsPast, NoRequest
  <1>5. Alone
    BY <1>2, <1>3 DEF Alone, CacheAlike, RequestAlike, GetsAlike, Open, NoRequest
  <1> QED
    BY <1>1, <1>4, <1>5 DEF OneVersion

(* Entries are lost, time passes, the bars change: a request that is open   *)
(* stays what it is, or is forgotten when it was answered.                  *)
LEMMA OneVersionFrame ==
  ASSUME OneVersion, RequestTypes', torn' = torn, Version' >= Version,
         \A i \in Names : Ver(i)' \in {-1, Ver(i)},
         \A r \in Requests :
            \/ /\ req'[r].pc = req[r].pc /\ req'[r].bars = req[r].bars
               /\ req'[r].at = req[r].at /\ req'[r].got = req[r].got
               /\ req'[r].answer = req[r].answer
            \/ ~Open(r) /\ req'[r] = NoRequest
  PROVE  OneVersion'
  <1>1. \A r \in Requests : (Open(r)' => Open(r)) /\ (req'[r].pc # "set" <=> req[r].pc # "set")
    BY DEF Open, NoRequest
  <1>2. Version \in Nat /\ Version' \in Nat
    BY DEF OneVersion, RequestTypes, Version
  <1>3. CacheIsPast'
    <2>1. \A i \in Names : Ver(i) \in Int /\ EnoughAt[i] \in Int
      BY IndicatorsListed DEF OneVersion, RequestTypes, EntrySet, Ver
    <2>2. \A i \in Names : Ver(i)' = -1 \/ (EnoughAt[i] <= Ver(i)' /\ Ver(i)' <= Version')
      BY <1>2, <2>1 DEF OneVersion, CacheIsPast
    <2>3. ASSUME NEW r \in Requests PROVE req'[r].bars <= Version'
      <3>1. req[r].bars <= Version /\ req[r].bars \in Nat
        BY DEF OneVersion, RequestTypes, RequestSet, CacheIsPast
      <3>2. req'[r].bars = req[r].bars \/ req'[r].bars = 0
        BY DEF NoRequest
      <3> QED
        BY <1>2, <3>1, <3>2
    <2> QED
      BY <1>1, <2>2, <2>3 DEF OneVersion, CacheIsPast, NoRequest
  <1>4. ASSUME Alone PROVE Alone'
    <2>1. CacheAlike => CacheAlike'
      BY DEF CacheAlike
    <2>2. ASSUME NEW r \in Requests PROVE RequestAlike(r)'
      <3>1. CASE ~Open(r) /\ req'[r] = NoRequest
        BY <3>1 DEF RequestAlike, NoRequest, Open
      <3>2. CASE /\ req'[r].pc = req[r].pc /\ req'[r].bars = req[r].bars
                 /\ req'[r].at = req[r].at /\ req'[r].got = req[r].got
                 /\ req'[r].answer = req[r].answer
        <4>1. RequestAlike(r) /\ req[r].bars \in Nat /\ \A i \in Names : Ver(i) \in Int
          BY <1>4 DEF Alone, OneVersion, RequestTypes, RequestSet, EntrySet, Ver
        <4>2. GetsAlike(r) => GetsAlike(r)'
          BY <3>2 DEF GetsAlike
        <4>3. SetsAlike(r) => SetsAlike(r)'
          BY <3>2, IndicatorsListed DEF SetsAlike
        <4> QED
          BY <3>2, <4>1, <4>2, <4>3 DEF RequestAlike, Open
      <3> QED
        BY <3>1, <3>2
    <2> QED
      BY <1>1, <1>4, <2>1, <2>2 DEF Alone
  <1> QED
    BY <1>3, <1>4 DEF OneVersion

(* Nothing of the requests changes, the cache loses at most, the bars move. *)
LEMMA OneVersionTables ==
  ASSUME OneVersion, UNCHANGED <<req, torn, clock>>, ended' \in Seq(Nat), Version' >= Version,
         cache' \in [Names -> EntrySet],
         \A i \in Names : Ver(i)' \in {-1, Ver(i)}
  PROVE  OneVersion'
  <1>1. RequestTypes'
    BY DEF OneVersion, RequestTypes
  <1> QED
    BY <1>1, OneVersionFrame

(* A key that is deleted is a miss.                                         *)
LEMMA OneVersionDeleteKey ==
  ASSUME OneVersion, NEW c \in Calls, NEW i \in Names, DeleteKey(c, i)
  PROVE  OneVersion'
  <1>1. /\ cache' \in [Names -> EntrySet]
        /\ \A j \in Names : Ver(j)' \in {-1, Ver(j)}
    BY NoRequestTyped DEF DeleteKey, OneVersion, RequestTypes, Ver
  <1>2. UNCHANGED <<req, torn, clock, ended>>
    BY DEF DeleteKey
  <1>3. ended' \in Seq(Nat) /\ Version' >= Version
    BY <1>2 DEF OneVersion, RequestTypes, Version
  <1> QED
    BY <1>1, <1>2, <1>3, OneVersionTables

(* The bars change: there is one more version.                              *)
LEMMA OneVersionEnds ==
  ASSUME OneVersion, ended' = Append(ended, clock), UNCHANGED <<clock, cacheVars>>
  PROVE  OneVersion'
  <1>1. ended' \in Seq(Nat) /\ Version' >= Version
    BY DEF OneVersion, RequestTypes, Version
  <1>2. \A i \in Names : Ver(i)' = Ver(i)
    BY DEF cacheVars, Ver
  <1> QED
    BY <1>1, <1>2, OneVersionTables DEF cacheVars, OneVersion, RequestTypes

(* Neither bars nor cache change.                                           *)
LEMMA OneVersionSame ==
  ASSUME OneVersion, UNCHANGED <<ended, clock, cacheVars>>
  PROVE  OneVersion'
  <1>1. ended' \in Seq(Nat) /\ Version' >= Version
    BY DEF OneVersion, RequestTypes, Version
  <1>2. \A i \in Names : Ver(i)' = Ver(i)
    BY DEF cacheVars, Ver
  <1> QED
    BY <1>1, <1>2, OneVersionTables DEF cacheVars, OneVersion, RequestTypes

(* Entries expire, and answers are forgotten.                               *)
LEMMA OneVersionTick ==
  ASSUME OneVersion, Tick
  PROVE  OneVersion'
  <1>1. /\ cache' \in [Names -> EntrySet]
        /\ \A i \in Names : Ver(i)' \in {-1, Ver(i)}
    <2>1. ASSUME NEW i \in Names
          PROVE  cache'[i] = Miss \/ cache'[i] = [cache[i] EXCEPT !.age = @ + 1]
      BY DEF Tick
    <2>3. ASSUME NEW i \in Names
          PROVE  cache'[i] \in EntrySet /\ Ver(i)' \in {-1, Ver(i)}
      <3>1. cache[i] \in EntrySet
        BY DEF OneVersion, RequestTypes
      <3> QED
        BY <2>1, <3>1, EntryAges, NoRequestTyped DEF Ver
    <2>4. DOMAIN cache' = Names /\ cache' = [i \in Names |-> cache'[i]]
      BY DEF Tick
    <2> QED
      BY <2>3, <2>4
  <1>2. \A r \in Requests : req'[r] = IF Open(r) THEN [req[r] EXCEPT !.age = @ + 1]
                                      ELSE NoRequest
    BY DEF Tick
  <1>3. RequestTypes'
    <2>1. \A r \in Requests : req[r] \in RequestSet
      BY DEF OneVersion, RequestTypes
    <2>2. \A r \in Requests : req'[r] \in RequestSet
      BY <1>2, <2>1, RequestAges, NoRequestTyped
    <2>3. req' = [r \in Requests |-> req'[r]]
      BY DEF Tick
    <2>4. ended' \in Seq(Nat) /\ clock' \in Nat /\ torn' \in BOOLEAN
      BY DEF Tick, OneVersion, RequestTypes
    <2> QED
      BY <1>1, <2>2, <2>3, <2>4 DEF RequestTypes
  <1>4. torn' = torn /\ Version' >= Version
    BY DEF Tick, OneVersion, RequestTypes, Version
  <1>5. \A r \in Requests :
            \/ /\ req'[r].pc = req[r].pc /\ req'[r].bars = req[r].bars
               /\ req'[r].at = req[r].at /\ req'[r].got = req[r].got
               /\ req'[r].answer = req[r].answer
            \/ ~Open(r) /\ req'[r] = NoRequest
    <2> SUFFICES ASSUME NEW r \in Requests, Open(r)
                 PROVE  /\ req'[r].pc = req[r].pc /\ req'[r].bars = req[r].bars
                        /\ req'[r].at = req[r].at /\ req'[r].got = req[r].got
                        /\ req'[r].answer = req[r].answer
      BY <1>2
    <2> DEFINE older == [req[r] EXCEPT !.age = @ + 1]
    <2>1. req[r] \in RequestSet /\ req'[r] = older
      BY <1>2 DEF OneVersion, RequestTypes
    <2>2. /\ older.pc = req[r].pc /\ older.bars = req[r].bars /\ older.at = req[r].at
          /\ older.got = req[r].got /\ older.answer = req[r].answer
      BY <2>1, RequestAges
    <2> HIDE DEF older
    <2> QED
      BY <2>1, <2>2
  <1> QED
    BY <1>1, <1>3, <1>4, <1>5, OneVersionFrame

(* One request becomes q, and the cache stays.                              *)
LEMMA OneVersionRequest ==
  ASSUME OneVersion, NEW r \in Requests, NEW q \in RequestSet,
         req' = [req EXCEPT ![r] = q], UNCHANGED <<cache, ended, clock>>, torn' \in BOOLEAN,
         q.bars <= Version, q.pc = "set" => q.at <= Len(Indicators), torn => torn',
         ~torn' =>
            /\ q.pc \in {"get", "set"} => \A o \in Requests : Open(o) => o = r
            /\ (\A o \in Requests : o # r => req[o].pc # "set") /\ q.pc # "set" => CacheAlike
            /\ RequestAlike(r)'
  PROVE  OneVersion'
  <1>1. \A o \in Requests : req'[o] = IF o = r THEN q ELSE req[o]
    BY DEF OneVersion, RequestTypes
  <1>2. RequestTypes'
    BY DEF OneVersion, RequestTypes
  <1>3. Version' = Version /\ (\A i \in Names : Ver(i)' = Ver(i)) /\ (CacheAlike' <=> CacheAlike)
    BY DEF Version, Ver, CacheAlike
  <1>4. CacheIsPast'
    BY <1>1, <1>3 DEF OneVersion, CacheIsPast
  <1>5. ASSUME ~torn' PROVE Alone'
    <2>1. Alone
      BY <1>5 DEF OneVersion
    <2>2. ASSUME NEW o \in Requests, o # r PROVE RequestAlike(o)'
      <3>1. RequestAlike(o) /\ req'[o] = req[o]
        BY <1>1, <2>1, <2>2 DEF Alone
      <3> QED
        BY <1>3, <3>1 DEF RequestAlike, GetsAlike, SetsAlike, Open, Ver
    <2>3. Open(r)' => q.pc \in {"get", "set"}
      BY <1>1 DEF Open, RequestSet
    <2>4. \A x, y \in Requests : Open(x)' /\ Open(y)' => x = y
      BY <1>1, <1>5, <2>1, <2>3 DEF Alone, Open
    <2>5. (\A o \in Requests : req'[o].pc # "set") => CacheAlike'
      BY <1>1, <1>3, <1>5
    <2> QED
      BY <1>5, <2>2, <2>4, <2>5 DEF Alone
  <1> QED
    BY <1>2, <1>4, <1>5 DEF OneVersion

(* A request that selects the bars has seen nothing, and is alone if the    *)
(* history says so.                                                         *)
LEMMA OneVersionSelect ==
  ASSUME OneVersion, NEW r \in Requests, Select(r)
  PROVE  OneVersion'
  <1> DEFINE q == [NoRequest EXCEPT !.pc = "get", !.bars = Version]
  <1>1. Version \in Nat /\ \A i \in Names : Ver(i) \in Int
    BY DEF OneVersion, RequestTypes, Version, EntrySet, Ver
  <1>2. /\ q \in RequestSet /\ q.pc = "get" /\ q.bars = Version
        /\ q.got = NoRequest.got /\ q.answer = NoRequest.answer
    BY <1>1, NoRequestTyped DEF RequestSet
  <1>3. \A i \in Names : NoRequest.got[i] = -1 /\ NoRequest.answer[i] = -1
    BY DEF NoRequest
  <1>4. /\ req' = [req EXCEPT ![r] = q] /\ UNCHANGED <<cache, ended, clock>>
        /\ torn' = (torn \/ \E o \in Requests : Open(o))
    BY DEF Select, NoTable
  <1>5. torn' \in BOOLEAN
    BY <1>4 DEF OneVersion, RequestTypes
  <1>6. ASSUME ~torn'
        PROVE  (\A o \in Requests : ~Open(o)) /\ CacheAlike /\ RequestAlike(r)'
    <2>1. Alone /\ \A o \in Requests : ~Open(o)
      BY <1>4, <1>6 DEF OneVersion
    <2>2. CacheAlike
      BY <2>1 DEF Alone, Open
    <2>3. req'[r] = q /\ \A i \in Names : Ver(i)' <= Version
      BY <1>1, <1>4 DEF OneVersion, RequestTypes, CacheIsPast, Ver
    <2> QED
      BY <1>2, <1>3, <2>1, <2>2, <2>3 DEF RequestAlike, GetsAlike
  <1>7. q.bars <= Version
    BY <1>1, <1>2
  <1>8. torn => torn'
    BY <1>4
  <1> HIDE DEF q
  <1> QED
    BY <1>2, <1>4, <1>5, <1>6, <1>7, <1>8, OneVersionRequest

(* A hit is like the hits before it: the request is alone, so nobody has    *)
(* written since.                                                           *)
LEMMA OneVersionGet ==
  ASSUME OneVersion, NEW r \in Requests, Get(r)
  PROVE  OneVersion'
  <1> DEFINE i == Indicators[req[r].at]
             q == WithGot(req[r], i, cache[i].ver)
  <1>1. req[r] \in RequestSet /\ req[r].pc = "get"
    BY DEF Get, OneVersion, RequestTypes
  <1>2. i \in Names /\ cache[i].ver \in Int
    <2>1. req[r].at \in 1 .. Len(Indicators)
      BY <1>1, IndicatorsListed DEF Get, RequestSet
    <2>2. i \in Names
      BY <2>1, IndicatorsListed
    <2> QED
      BY <2>2 DEF OneVersion, RequestTypes, EntrySet
  <1>3. /\ q \in RequestSet /\ q.pc = "get" /\ q.bars = req[r].bars /\ q.answer = req[r].answer
        /\ \A j \in Names : q.got[j] = IF j = i THEN Ver(i) ELSE req[r].got[j]
    BY <1>1, <1>2, RequestGets DEF Ver
  <1>4. req' = [req EXCEPT ![r] = q] /\ UNCHANGED <<cache, ended, clock, torn>>
    BY DEF Get, NoTable, WithGot
  <1> HIDE DEF i, q
  <1>5. ASSUME ~torn'
        PROVE  /\ \A o \in Requests : Open(o) => o = r
               /\ CacheAlike /\ RequestAlike(r)'
    <2>1. Alone /\ Open(r)
      BY <1>1, <1>4, <1>5 DEF OneVersion, Open
    <2>2. CacheAlike /\ RequestAlike(r) /\ \A o \in Requests : Open(o) => o = r
      BY <1>1, <2>1 DEF Alone, Open
    <2>3. req'[r] = q /\ \A j \in Names : Ver(j)' = Ver(j)
      BY <1>4 DEF OneVersion, RequestTypes, Ver
    <2>4. GetsAlike(r)
      BY <1>1, <2>2 DEF RequestAlike
    <2>5. ASSUME NEW a \in Names, NEW b \in Names, q.got[a] # -1
          PROVE  q.got[b] \in {-1, q.got[a]} /\ Ver(b) \in {-1, q.got[a]}
      BY <1>2, <1>3, <2>2, <2>4, <2>5 DEF GetsAlike, CacheAlike
    <2>6. GetsAlike(r)'
      BY <2>3, <2>5 DEF GetsAlike
    <2> QED
      BY <1>3, <2>1, <2>2, <2>3, <2>6 DEF RequestAlike, Open
  <1>6. torn' \in BOOLEAN /\ req[r].bars <= Version
    BY <1>4 DEF OneVersion, RequestTypes, CacheIsPast
  <1> QED
    BY <1>3, <1>4, <1>5, <1>6, OneVersionRequest

(* All hits are alike, and so are indicators that are computed.             *)
LEMMA OneVersionCompute ==
  ASSUME OneVersion, NEW r \in Requests, Compute(r)
  PROVE  OneVersion'
  <1> DEFINE pc == IF Hits(r) = Names THEN "done" ELSE "set"
             q == WithAnswer(req[r], pc, Answer(r))
  <1>1. /\ req[r] \in RequestSet /\ req[r].pc = "get" /\ req[r].bars <= Version
        /\ req[r].bars \in Nat /\ req[r].got \in [Names -> Int]
    BY DEF Compute, OneVersion, RequestTypes, RequestSet, CacheIsPast
  <1>2. Answer(r) \in [Names -> Int]
    BY <1>1 DEF Answer
  <1>3. /\ q \in RequestSet /\ q.bars = req[r].bars /\ q.at = 1 /\ q.answer = Answer(r)
        /\ q.pc \in {"set", "done"}
    BY <1>1, <1>2, RequestComputes
  <1>4. req' = [req EXCEPT ![r] = q] /\ UNCHANGED <<cache, ended, clock, torn>>
    BY DEF Compute, NoTable, WithAnswer
  <1> HIDE DEF q
  <1>5. ASSUME ~torn'
        PROVE  /\ \A o \in Requests : Open(o) => o = r
               /\ CacheAlike /\ RequestAlike(r)'
    <2>1. Alone /\ Open(r)
      BY <1>1, <1>4, <1>5 DEF OneVersion, Open
    <2>2. CacheAlike /\ RequestAlike(r) /\ \A o \in Requests : Open(o) => o = r
      BY <1>1, <2>1 DEF Alone, Open
    <2>3. req'[r] = q /\ \A j \in Names : Ver(j)' = Ver(j)
      BY <1>4 DEF OneVersion, RequestTypes, Ver
    <2>4. \A i, j \in Names : Answer(r)[i] = Answer(r)[j]
      <3>1. CASE Hits(r) = Names
        <4>1. \A i, j \in Names : req[r].got[i] # -1 /\ req[r].got[j] \in {-1, req[r].got[i]}
          BY <1>1, <2>2, <3>1 DEF Hits, RequestAlike, GetsAlike
        <4>2. \A i \in Names : Answer(r)[i] = req[r].got[i]
          BY <3>1 DEF Answer
        <4>3. \A i, j \in Names : req[r].got[i] = req[r].got[j]
          BY <4>1
        <4> QED
          BY <4>2, <4>3
      <3>2. CASE Hits(r) # Names
        BY <3>2 DEF Answer
      <3> QED
        BY <3>1, <3>2
    <2>5. \A n \in 1 .. Len(Indicators) : Indicators[n] \in Names /\ n >= 1
      BY IndicatorsListed
    <2>6. SetsAlike(r)'
      BY <1>3, <2>2, <2>3, <2>5 DEF SetsAlike, CacheAlike
    <2>7. \A i \in Names : Ver(i) <= req[r].bars
      BY <2>1, <2>2 DEF RequestAlike
    <2> QED
      BY <1>3, <2>2, <2>3, <2>4, <2>6, <2>7 DEF RequestAlike, Open
  <1>6. torn' \in BOOLEAN /\ q.at <= Len(Indicators)
    BY <1>3, <1>4, IndicatorsListed DEF OneVersion, RequestTypes
  <1> QED
    BY <1>1, <1>3, <1>4, <1>5, <1>6, OneVersionRequest

(* A request that is dropped while it writes leaves a cache that may mix.   *)
LEMMA OneVersionDrop ==
  ASSUME OneVersion, NEW r \in Requests, Drop(r)
  PROVE  OneVersion'
  <1>1. req' = [req EXCEPT ![r] = NoRequest] /\ UNCHANGED <<cache, ended, clock>>
    BY DEF Drop, NoTable
  <1>2. torn' = (torn \/ req[r].pc = "set") /\ Open(r)
    BY DEF Drop
  <1>3. torn' \in BOOLEAN
    BY <1>2 DEF OneVersion, RequestTypes
  <1>4. /\ NoRequest.pc = "idle" /\ NoRequest.bars = 0
        /\ \A i \in Names : NoRequest.answer[i] = -1
    BY DEF NoRequest
  <1>5. NoRequest.bars <= Version
    BY <1>4 DEF OneVersion, RequestTypes, Version
  <1>6. ASSUME ~torn' PROVE CacheAlike /\ RequestAlike(r)'
    <2>1. Alone /\ req[r].pc # "set" /\ \A o \in Requests : req[o].pc = "set" => Open(o)
      BY <1>2, <1>6 DEF OneVersion, Open
    <2>2. CacheAlike
      BY <1>2, <2>1 DEF Alone
    <2>3. req'[r] = NoRequest
      BY <1>1 DEF OneVersion, RequestTypes
    <2> QED
      BY <1>4, <2>2, <2>3 DEF RequestAlike, Open
  <1>7. torn => torn'
    BY <1>2
  <1> QED
    BY <1>1, <1>3, <1>4, <1>5, <1>6, <1>7, NoRequestTyped, OneVersionRequest

(* While one request writes, what is behind it is its own; when it has      *)
(* written everything, all that is cached is.                               *)
LEMMA OneVersionSet ==
  ASSUME OneVersion, NEW r \in Requests, Set(r)
  PROVE  OneVersion'
  <1>1. PICK at \in 1 .. Len(Indicators), bars \in Nat :
            at = req[r].at /\ bars = req[r].bars /\ bars <= Version
    <2>1. req[r] \in RequestSet /\ req[r].at <= Len(Indicators) /\ req[r].bars <= Version
      BY DEF Set, OneVersion, RequestTypes, CacheIsPast
    <2>2. req[r].at \in 1 .. Len(Indicators) /\ req[r].bars \in Nat
      BY <2>1, IndicatorsListed DEF RequestSet
    <2> QED
      BY <2>1, <2>2
  <1>2. PICK i \in Names : i = Indicators[at] /\ EnoughAt[i] \in Nat
    BY <1>1, IndicatorsListed
  <1> DEFINE last == at = Len(Indicators)
             q == IF last THEN Written(req[r]) ELSE [req[r] EXCEPT !.at = @ + 1]
  <1>0. req[r] \in RequestSet /\ req[r].pc = "set"
    BY DEF Set, OneVersion, RequestTypes
  <1>3. /\ q \in RequestSet /\ q.answer = req[r].answer
        /\ last => q.pc = "done" /\ q.bars = 0
        /\ ~last => q.pc = "set" /\ q.bars = bars /\ q.at = at + 1
    BY <1>0, <1>1, RequestWrites
  <1>4. UNCHANGED <<ended, clock, torn>> /\ req' = [req EXCEPT ![r] = q]
    BY <1>1 DEF Set, NoTable, Written
  <1>5. cache' = IF bars < EnoughAt[i] THEN cache ELSE [cache EXCEPT ![i] = Entry(bars)]
    BY <1>1, <1>2 DEF Set
  <1>6. /\ cache' \in [Names -> EntrySet]
        /\ \A j \in Names : Ver(j)' = IF j = i /\ EnoughAt[i] <= bars THEN bars ELSE Ver(j)
        /\ \A j \in Names : Ver(j) \in Int
    <2>1. Entry(bars) \in EntrySet /\ Entry(bars).ver = bars
      BY <1>1 DEF Entry, EntrySet
    <2>2. cache \in [Names -> EntrySet] /\ \A j \in Names : Ver(j) \in Int
      BY DEF OneVersion, RequestTypes, EntrySet, Ver
    <2> QED
      BY <1>1, <1>2, <1>5, <2>1, <2>2 DEF Ver
  <1> HIDE DEF q
  <1>7. /\ req' \in [Requests -> RequestSet] /\ req'[r] = q
        /\ \A o \in Requests \ {r} : req'[o] = req[o]
    BY <1>3, <1>4 DEF OneVersion, RequestTypes
  <1>8. RequestTypes'
    BY <1>4, <1>6, <1>7 DEF OneVersion, RequestTypes
  <1>9. Version' = Version /\ Version \in Nat
    BY <1>4 DEF OneVersion, RequestTypes, Version
  <1>10. CacheIsPast'
    <2>1. \A j \in Names : Ver(j)' = -1 \/ (EnoughAt[j] <= Ver(j)' /\ Ver(j)' <= Version')
      BY <1>1, <1>2, <1>6, <1>9 DEF OneVersion, CacheIsPast
    <2>2. q.bars <= Version /\ (q.pc = "set" => q.at <= Len(Indicators))
      BY <1>1, <1>3, <1>9, IndicatorsListed
    <2> QED
      BY <1>7, <1>9, <2>1, <2>2 DEF OneVersion, CacheIsPast
  <1>11. ASSUME ~torn PROVE Alone'
    <2>1. /\ \A o \in Requests : Open(o) => o = r
          /\ \A o \in Requests : RequestAlike(o)
      BY <1>0, <1>11 DEF OneVersion, Alone, Open
    <2>2. SetsAlike(r) /\ \A j \in Names : Ver(j) <= bars
      BY <1>0, <1>1, <2>1 DEF RequestAlike, Open
    <2>3. Ver(i)' \in {-1, bars}
      <3>1. Ver(i) = -1 \/ (EnoughAt[i] <= Ver(i) /\ Ver(i) <= bars)
        BY <1>2, <2>2 DEF OneVersion, CacheIsPast
      <3> QED
        BY <1>1, <1>2, <1>6, <3>1
    <2>4. \A n \in 1 .. Len(Indicators) : n <= at => Ver(Indicators[n])' \in {-1, bars}
      <3>1. \A n \in 1 .. Len(Indicators) :
                n < at => Indicators[n] \in Names /\ Indicators[n] # i
                          /\ Ver(Indicators[n]) \in {-1, bars}
        BY <1>1, <1>2, <2>2, IndicatorsListed DEF SetsAlike
      <3> QED
        BY <1>1, <1>2, <1>6, <2>3, <3>1, IndicatorsListed
    <2>5. \A j \in Names : Ver(j)' <= bars
      BY <1>1, <1>6, <2>2
    <2>6. ASSUME ~last PROVE SetsAlike(r)'
      <3>1. \A n \in 1 .. Len(Indicators) :
                n > at => Indicators[n] \in Names /\ Ver(Indicators[n])' = Ver(Indicators[n])
        BY <1>1, <1>2, <1>6, IndicatorsListed
      <3>2. \A n, m \in 1 .. Len(Indicators) :
                n > at /\ m > at /\ Ver(Indicators[n])' # -1
                  => Ver(Indicators[m])' \in {-1, Ver(Indicators[n])'}
        BY <1>1, <2>2, <3>1 DEF SetsAlike
      <3>3. req'[r].at = at + 1 /\ req'[r].bars = bars
        BY <1>3, <1>7, <2>6
      <3>4. \A n \in 1 .. Len(Indicators) : (n < at + 1 <=> n <= at) /\ (n >= at + 1 <=> n > at)
        BY <1>1, IndicatorsListed
      <3> QED
        BY <2>4, <3>2, <3>3, <3>4 DEF SetsAlike
    <2>7. ASSUME last PROVE CacheAlike'
      <3>1. \A j \in Names : Ver(j)' \in {-1, bars}
        BY <1>1, <2>4, <2>7, IndicatorsListed
      <3> QED
        BY <3>1 DEF CacheAlike
    <2>8. RequestAlike(r)'
      BY <1>0, <1>1, <1>3, <1>7, <2>1, <2>5, <2>6 DEF RequestAlike, Open
    <2>9. \A o \in Requests \ {r} : ~Open(o)' /\ RequestAlike(o)'
      BY <1>7, <2>1 DEF RequestAlike, Open
    <2>10. ~last => req'[r].pc = "set"
      BY <1>3, <1>7
    <2> QED
      BY <2>7, <2>8, <2>9, <2>10 DEF Alone
  <1> QED
    BY <1>4, <1>8, <1>10, <1>11 DEF OneVersion

(* Every step keeps it.                                                     *)
LEMMA OneVersionStep == OneVersion /\ [Next]_vars => OneVersion'
  <1> SUFFICES ASSUME OneVersion, [Next]_vars PROVE OneVersion'
    OBVIOUS
  <1>1. ASSUME NEW c \in Calls, ApplySplit(c) PROVE OneVersion'
    <2>1. CASE \E i \in Names : DeleteKey(c, i)
      BY <2>1, OneVersionDeleteKey
    <2>2. CASE Commit(c)
      BY <2>2, OneVersionEnds DEF Commit
    <2>3. CASE Update(c) \/ Abort(c) \/ \E s \in Splits : ReadMarker(c, s)
      BY <2>3, OneVersionSame DEF Update, Abort, ReadMarker
    <2> QED
      BY <1>1, <2>1, <2>2, <2>3 DEF ApplySplit
  <1>2. ASSUME NEW r \in Requests, Analyze(r) PROVE OneVersion'
    BY <1>2, OneVersionSelect, OneVersionGet, OneVersionCompute, OneVersionSet, OneVersionDrop
       DEF Analyze
  <1>3. CASE Store
    BY <1>3, OneVersionEnds DEF Store
  <1>4. CASE Tick
    BY <1>4, OneVersionTick
  <1>5. CASE (\E s \in Splits : Record(s)) \/ UNCHANGED vars
    BY <1>5, OneVersionSame DEF Record, vars, cacheVars
  <1> QED
    BY <1>1, <1>2, <1>3, <1>4, <1>5 DEF Next

(* "We never mix stale and fresh indicators in a single composite": true of *)
(* every answer, whatever splits, fetches and lifetimes do, as long as      *)
(* requests come one after another and none is lost while it writes.        *)
THEOREM AnswersDoNotMix == Spec => []AnswersAreOfOneVersion
  <1>1. OneVersion => AnswersAreOfOneVersion
    BY DEF OneVersion, Alone, RequestAlike, AnswersAreOfOneVersion
  <1> QED
    BY <1>1, OneVersionInit, OneVersionStep, PTL DEF Spec
-----------------------------------------------------------------------------
(* The age of an answer.                                                    *)

(* Version v, of bars that ended as e says, is over for no longer than by.  *)
OverFor(e, now, v, by) == v < Len(e) => now - e[v + 1] <= by

(* An entry was superseded after its request began, a request's bars after  *)
(* it selected them; what it read was an entry then.                        *)
FreshEntry(e, now, x) ==
    x.ver # -1 => x.ver \in Nat /\ x.age \in 0 .. TTL - 1 /\ OverFor(e, now, x.ver, x.age + Slow)

FreshRequest(e, now, q) ==
    /\ q.age <= Slow
    /\ q.pc \in {"get", "set"} => OverFor(e, now, q.bars, q.age)
    /\ q.pc = "get" => \A i \in Names : q.got[i] # -1 =>
          q.got[i] \in Nat /\ OverFor(e, now, q.got[i], TTL - 1 + Slow + q.age)
    /\ q.pc = "set" => \A i \in Names : q.answer[i] = q.bars
    /\ q.pc = "done" => \A i \in Names :
          q.answer[i] \in Nat /\ OverFor(e, now, q.answer[i], TTL - 1 + 2 * Slow)

FreshInv ==
    /\ \A i \in Names : FreshEntry(ended, clock, cache[i])
    /\ \A r \in Requests : FreshRequest(ended, clock, req[r])

(* The numbers.                                                             *)
LEMMA FreshNumbers ==
  ASSUME OneVersion
  PROVE  /\ TTL \in Nat /\ TTL >= 1 /\ Slow \in Nat /\ clock \in Nat /\ ended \in Seq(Nat)
         /\ \A r \in Requests : req[r] \in RequestSet
         /\ \A i \in Names : cache[i] \in EntrySet
  BY PriceAssumption DEF OneVersion, RequestTypes

(* A version that is not over now is over since now.                        *)
LEMMA OverForEnds ==
  ASSUME NEW e \in Seq(Nat), NEW now \in Nat, NEW v \in Nat, NEW by \in Nat,
         OverFor(e, now, v, by)
  PROVE  OverFor(Append(e, now), now, v, by)
  BY DEF OverFor

(* An hour later it is over for an hour more.                               *)
LEMMA OverForTick ==
  ASSUME NEW e \in Seq(Nat), NEW now \in Nat, NEW v \in Nat, NEW by \in Nat,
         OverFor(e, now, v, by)
  PROVE  OverFor(e, now + 1, v, by + 1)
  BY DEF OverFor

(* And for no longer than a longer time.                                    *)
LEMMA OverForMore ==
  ASSUME NEW e \in Seq(Nat), NEW now \in Nat, NEW v \in Nat, NEW by \in Int, NEW more \in Int,
         OverFor(e, now, v, by), by <= more
  PROVE  OverFor(e, now, v, more)
  BY DEF OverFor

(* Entries are lost, and the bars may change.                               *)
LEMMA FreshEnds ==
  ASSUME OneVersion, FreshInv, UNCHANGED <<req, clock>>,
         ended' = ended \/ ended' = Append(ended, clock),
         \A i \in Names : cache'[i] = cache[i] \/ cache'[i] = Miss
  PROVE  FreshInv'
  <1>1. ASSUME NEW v \in Nat, NEW by \in Nat, OverFor(ended, clock, v, by)
        PROVE  OverFor(ended', clock, v, by)
    BY <1>1, OverForEnds, FreshNumbers
  <1>2. ASSUME NEW i \in Names PROVE FreshEntry(ended', clock, cache'[i])
    <2>1. FreshEntry(ended, clock, cache[i])
      BY DEF FreshInv
    <2>2. CASE cache'[i] = cache[i]
      BY <1>1, <2>1, <2>2, FreshNumbers DEF FreshEntry
    <2>3. CASE cache'[i] = Miss
      BY <2>3 DEF FreshEntry, Miss
    <2> QED
      BY <2>2, <2>3
  <1>3. ASSUME NEW r \in Requests PROVE FreshRequest(ended', clock, req[r])
    <2>1. FreshRequest(ended, clock, req[r]) /\ req[r].bars \in Nat /\ req[r].age \in Nat
      BY FreshNumbers DEF FreshInv, RequestSet
    <2>2. TTL - 1 + Slow + req[r].age \in Nat /\ TTL - 1 + 2 * Slow \in Nat
      <3>1. TTL \in Nat /\ TTL >= 1 /\ Slow \in Nat /\ req[r].age \in Nat
        BY <2>1, FreshNumbers
      <3> QED
        BY ONLY <3>1
    <2>3. req[r].pc \in {"get", "set"} => OverFor(ended', clock, req[r].bars, req[r].age)
      BY <1>1, <2>1 DEF FreshRequest
    <2>4. req[r].pc = "get" => \A i \in Names : req[r].got[i] # -1 =>
            OverFor(ended', clock, req[r].got[i], TTL - 1 + Slow + req[r].age)
      BY <1>1, <2>1, <2>2 DEF FreshRequest
    <2>5. req[r].pc = "done" => \A i \in Names :
            OverFor(ended', clock, req[r].answer[i], TTL - 1 + 2 * Slow)
      BY <1>1, <2>1, <2>2 DEF FreshRequest
    <2> QED
      BY <2>1, <2>3, <2>4, <2>5 DEF FreshRequest
  <1> QED
    BY <1>2, <1>3 DEF FreshInv

(* An hour passes for entries and requests alike.                           *)
LEMMA FreshTick ==
  ASSUME OneVersion, FreshInv, Tick
  PROVE  FreshInv'
  <1>1. ended' = ended /\ clock' = clock + 1
    BY DEF Tick
  <1>2. ASSUME NEW i \in Names PROVE FreshEntry(ended, clock + 1, cache'[i])
    <2>1. FreshEntry(ended, clock, cache[i]) /\ cache[i] \in EntrySet
      BY FreshNumbers DEF FreshInv
    <2>2. CASE cache'[i] = Miss
      BY <2>2 DEF FreshEntry, Miss
    <2>3. CASE cache'[i] # Miss
      <3>1. cache'[i] = [cache[i] EXCEPT !.age = @ + 1] /\ ~(cache[i].age + 1 >= TTL)
        BY <2>3 DEF Tick
      <3>2. cache'[i].ver = cache[i].ver /\ cache'[i].age = cache[i].age + 1
        BY <2>1, <3>1, EntryAges
      <3> SUFFICES ASSUME cache[i].ver # -1
                   PROVE  /\ cache[i].ver \in Nat /\ cache[i].age + 1 \in 0 .. TTL - 1
                          /\ OverFor(ended, clock + 1, cache[i].ver, cache[i].age + 1 + Slow)
        BY <3>2 DEF FreshEntry
      <3>3. /\ cache[i].ver \in Nat /\ cache[i].age \in 0 .. TTL - 1
            /\ OverFor(ended, clock, cache[i].ver, cache[i].age + Slow)
        BY <2>1 DEF FreshEntry
      <3>4. cache[i].age + Slow \in Nat /\ cache[i].age + 1 + Slow = cache[i].age + Slow + 1
        BY <3>3, FreshNumbers
      <3>5. OverFor(ended, clock + 1, cache[i].ver, cache[i].age + Slow + 1)
        BY <3>3, <3>4, FreshNumbers, OverForTick
      <3>6. cache[i].age + 1 \in 0 .. TTL - 1
        <4>1. cache[i].age \in Nat /\ cache[i].age + 1 < TTL
          BY <3>1, <3>3, FreshNumbers
        <4> QED
          BY <4>1, FreshNumbers
      <3> QED
        BY <3>3, <3>4, <3>5, <3>6
    <2> QED
      BY <2>2, <2>3
  <1>3. ASSUME NEW r \in Requests PROVE FreshRequest(ended, clock + 1, req'[r])
    <2>1. FreshRequest(ended, clock, req[r]) /\ req[r] \in RequestSet
      BY FreshNumbers DEF FreshInv
    <2>2. CASE ~Open(r)
      <3>1. req'[r] = NoRequest
        BY <2>2 DEF Tick
      <3> QED
        BY <3>1, FreshNumbers DEF FreshRequest, NoRequest
    <2>3. CASE Open(r)
      <3>1. req'[r] = [req[r] EXCEPT !.age = @ + 1] /\ req[r].age < Slow
        BY <2>3 DEF Tick
      <3> DEFINE old == req[r]
                 new == req'[r]
      <3>2. /\ new.pc = old.pc /\ new.bars = old.bars /\ new.got = old.got
            /\ new.answer = old.answer /\ new.age = old.age + 1
            /\ old.pc \in {"get", "set"} /\ old.age \in Nat /\ old.bars \in Nat
        BY <2>1, <2>3, <3>1, RequestAges DEF RequestSet, Open
      <3> HIDE DEF old, new
      <3>3. FreshRequest(ended, clock, old) /\ old.age < Slow
        BY <2>1, <3>1 DEF old
      <3>4. OverFor(ended, clock + 1, new.bars, new.age)
        BY <3>2, <3>3, FreshNumbers, OverForTick DEF FreshRequest
      <3>5. ASSUME old.pc = "get", NEW i \in Names, old.got[i] # -1
            PROVE  old.got[i] \in Nat
                   /\ OverFor(ended, clock + 1, old.got[i], TTL - 1 + Slow + new.age)
        <4>1. old.got[i] \in Nat /\ OverFor(ended, clock, old.got[i], TTL - 1 + Slow + old.age)
          BY <3>3, <3>5 DEF FreshRequest
        <4>2. /\ TTL - 1 + Slow + old.age \in Nat
              /\ TTL - 1 + Slow + new.age = TTL - 1 + Slow + old.age + 1
          <5>1. TTL \in Nat /\ TTL >= 1 /\ Slow \in Nat
            BY FreshNumbers
          <5>2. old.age \in Nat /\ new.age = old.age + 1
            BY <3>2
          <5>3. TTL - 1 + Slow \in Nat
            BY <5>1
          <5> QED
            BY ONLY <5>2, <5>3
        <4> QED
          BY <4>1, <4>2, FreshNumbers, OverForTick
      <3>6. new.age <= Slow
        BY <3>2, <3>3, FreshNumbers
      <3>7. FreshRequest(ended, clock + 1, new)
        BY <3>2, <3>3, <3>4, <3>5, <3>6 DEF FreshRequest
      <3> QED
        BY <3>7 DEF new
    <2> QED
      BY <2>2, <2>3
  <1> QED
    BY <1>1, <1>2, <1>3 DEF FreshInv

(* One request moves on, and one entry may be written.                      *)
LEMMA FreshMoves ==
  ASSUME OneVersion, FreshInv, NEW r \in Requests, NEW q, req' = [req EXCEPT ![r] = q],
         UNCHANGED <<ended, clock>>, FreshRequest(ended, clock, q),
         \A i \in Names : cache'[i] = cache[i] \/ FreshEntry(ended, clock, cache'[i])
  PROVE  FreshInv'
  <1>1. \A o \in Requests : req'[o] = IF o = r THEN q ELSE req[o]
    BY DEF OneVersion, RequestTypes
  <1> QED
    BY <1>1 DEF FreshInv

(* The steps of a request.                                                  *)
LEMMA FreshAnalyze ==
  ASSUME OneVersion, FreshInv, NEW r \in Requests, Analyze(r)
  PROVE  FreshInv'
  <1>1. req[r] \in RequestSet /\ FreshRequest(ended, clock, req[r])
    BY FreshNumbers DEF FreshInv
  <1>2. CASE Select(r)
    <2> DEFINE q == [NoRequest EXCEPT !.pc = "get", !.bars = Version]
    <2>1. q.pc = "get" /\ q.bars = Version /\ q.age = 0 /\ \A i \in Names : q.got[i] = -1
      BY DEF NoRequest
    <2>2. req' = [req EXCEPT ![r] = q] /\ UNCHANGED <<ended, clock, cache>>
      BY <1>2 DEF Select, NoTable
    <2> HIDE DEF q
    <2>3. OverFor(ended, clock, q.bars, q.age)
      BY <2>1, FreshNumbers DEF OverFor, Version
    <2>4. FreshRequest(ended, clock, q)
      BY <2>1, <2>3, FreshNumbers DEF FreshRequest
    <2> QED
      BY <2>2, <2>4, FreshMoves
  <1>3. CASE Get(r)
    <2> DEFINE i == Indicators[req[r].at]
               q == WithGot(req[r], i, cache[i].ver)
    <2>1. i \in Names /\ cache[i] \in EntrySet /\ req[r].pc = "get"
      <3>1. req[r].at \in 1 .. Len(Indicators)
        BY <1>1, <1>3, IndicatorsListed DEF Get, RequestSet
      <3>2. i \in Names
        BY <3>1, IndicatorsListed
      <3> QED
        BY <1>3, <3>2, FreshNumbers DEF Get
    <2>2. req' = [req EXCEPT ![r] = q] /\ UNCHANGED <<ended, clock, cache>>
      BY <1>3 DEF Get, NoTable, WithGot
    <2>3. cache[i].ver \in Int
      BY <2>1 DEF EntrySet
    <2>4. /\ q.pc = "get" /\ q.bars = req[r].bars /\ q.age = req[r].age /\ req[r].age \in Nat
          /\ \A j \in Names : q.got[j] = IF j = i THEN cache[i].ver ELSE req[r].got[j]
      <3>1. req[r].age \in Nat
        BY <1>1 DEF RequestSet
      <3>2. req[r] \in RequestSet /\ i \in Names /\ cache[i].ver \in Int
        BY <1>1, <2>1, <2>3
      <3> HIDE DEF i
      <3>3. /\ q.pc = req[r].pc /\ q.bars = req[r].bars /\ q.age = req[r].age
            /\ \A j \in Names : q.got[j] = IF j = i THEN cache[i].ver ELSE req[r].got[j]
        BY <3>2, RequestGets
      <3> QED
        BY <2>1, <3>1, <3>3
    <2> HIDE DEF i, q
    <2>5. ASSUME cache[i].ver # -1
          PROVE  cache[i].ver \in Nat /\ OverFor(ended, clock, cache[i].ver, TTL - 1 + Slow + q.age)
      <3>1. /\ cache[i].ver \in Nat /\ cache[i].age \in 0 .. TTL - 1
            /\ OverFor(ended, clock, cache[i].ver, cache[i].age + Slow)
        BY <2>1, <2>5 DEF FreshInv, FreshEntry
      <3>2. /\ cache[i].age + Slow \in Int /\ TTL - 1 + Slow + q.age \in Int
            /\ cache[i].age + Slow <= TTL - 1 + Slow + q.age
        BY <2>4, <3>1, FreshNumbers
      <3> QED
        BY <3>1, <3>2, FreshNumbers, OverForMore
    <2>6. FreshRequest(ended, clock, q)
      BY <1>1, <2>1, <2>4, <2>5 DEF FreshRequest
    <2> QED
      BY <2>2, <2>6, FreshMoves
  <1>4. CASE Compute(r)
    <2> DEFINE pc == IF Hits(r) = Names THEN "done" ELSE "set"
               q == WithAnswer(req[r], pc, Answer(r))
    <2>1. /\ req[r].pc = "get" /\ req[r].got \in [Names -> Int] /\ req[r].bars \in Nat
          /\ req[r].age \in Nat
      BY <1>1, <1>4 DEF Compute, RequestSet
    <2>2. Answer(r) \in [Names -> Int]
      BY <2>1 DEF Answer
    <2>3. req' = [req EXCEPT ![r] = q] /\ UNCHANGED <<ended, clock, cache>>
      BY <1>4 DEF Compute, NoTable, WithAnswer
    <2>4. /\ q.pc = pc /\ q.bars = req[r].bars /\ q.answer = Answer(r) /\ q.age = req[r].age
      BY <1>1, <2>2, RequestComputes
    <2> HIDE DEF q
    <2>5. CASE Hits(r) = Names
      <3>1. \A i \in Names : Answer(r)[i] = req[r].got[i] /\ req[r].got[i] # -1
        BY <2>5 DEF Answer, Hits
      <3>2. ASSUME NEW i \in Names
            PROVE  Answer(r)[i] \in Nat /\ OverFor(ended, clock, Answer(r)[i], TTL - 1 + 2 * Slow)
        <4>1. /\ req[r].got[i] \in Nat /\ req[r].age <= Slow
              /\ OverFor(ended, clock, req[r].got[i], TTL - 1 + Slow + req[r].age)
          BY <1>1, <2>1, <3>1 DEF FreshRequest
        <4>2. /\ TTL - 1 + Slow + req[r].age \in Int /\ TTL - 1 + 2 * Slow \in Int
              /\ TTL - 1 + Slow + req[r].age <= TTL - 1 + 2 * Slow
          BY <2>1, <4>1, FreshNumbers
        <4>3. OverFor(ended, clock, req[r].got[i], TTL - 1 + 2 * Slow)
          BY <4>1, <4>2, FreshNumbers, OverForMore
        <4> QED
          BY <3>1, <4>1, <4>3
      <3>3. FreshRequest(ended, clock, q)
        BY <1>1, <2>4, <2>5, <3>2 DEF FreshRequest
      <3> QED
        BY <2>3, <3>3, FreshMoves
    <2>6. CASE Hits(r) # Names
      <3>1. \A i \in Names : Answer(r)[i] = req[r].bars
        BY <2>6 DEF Answer
      <3>2. FreshRequest(ended, clock, q)
        BY <1>1, <2>1, <2>4, <2>6, <3>1 DEF FreshRequest
      <3> QED
        BY <2>3, <3>2, FreshMoves
    <2> QED
      BY <2>5, <2>6
  <1>5. CASE Set(r)
    <2> DEFINE i == Indicators[req[r].at]
               last == req[r].at = Len(Indicators)
               q == IF last THEN Written(req[r]) ELSE [req[r] EXCEPT !.at = @ + 1]
    <2>1. /\ req[r].pc = "set" /\ req[r].bars \in Nat /\ req[r].age \in Nat
          /\ OverFor(ended, clock, req[r].bars, req[r].age) /\ req[r].age <= Slow
          /\ \A j \in Names : req[r].answer[j] = req[r].bars
      BY <1>1, <1>5 DEF Set, RequestSet, FreshRequest
    <2>2. req' = [req EXCEPT ![r] = q] /\ UNCHANGED <<ended, clock>>
      BY <1>5 DEF Set, NoTable, Written
    <2>3. cache' = cache \/ cache' = [cache EXCEPT ![i] = Entry(req[r].bars)]
      BY <1>5 DEF Set
    <2>4. /\ q.answer = req[r].answer /\ q.age = req[r].age
          /\ (q.pc = "done" \/ (q.pc = "set" /\ q.bars = req[r].bars))
      BY <1>1, <2>1, RequestWrites
    <2> HIDE DEF q, i
    <2>5. /\ OverFor(ended, clock, req[r].bars, 0 + Slow)
          /\ OverFor(ended, clock, req[r].bars, TTL - 1 + 2 * Slow)
      <3>1. req[r].age <= 0 + Slow /\ req[r].age <= TTL - 1 + 2 * Slow
            /\ 0 + Slow \in Int /\ TTL - 1 + 2 * Slow \in Int
        BY <2>1, FreshNumbers
      <3> QED
        BY <2>1, <3>1, FreshNumbers, OverForMore
    <2>6. FreshEntry(ended, clock, Entry(req[r].bars))
      <3>1. 0 \in 0 .. TTL - 1
        BY FreshNumbers
      <3> QED
        BY <2>1, <2>5, <3>1 DEF FreshEntry, Entry
    <2>7. \A j \in Names : cache'[j] = cache[j] \/ FreshEntry(ended, clock, cache'[j])
      BY <2>3, <2>6 DEF OneVersion, RequestTypes
    <2>8. FreshRequest(ended, clock, q)
      BY <2>1, <2>4, <2>5 DEF FreshRequest
    <2> QED
      BY <2>2, <2>7, <2>8, FreshMoves
  <1>6. CASE Drop(r)
    <2>1. req' = [req EXCEPT ![r] = NoRequest] /\ UNCHANGED <<ended, clock, cache>>
      BY <1>6 DEF Drop, NoTable
    <2>2. FreshRequest(ended, clock, NoRequest)
      BY FreshNumbers DEF FreshRequest, NoRequest
    <2> QED
      BY <2>1, <2>2, FreshMoves
  <1> QED
    BY <1>2, <1>3, <1>4, <1>5, <1>6 DEF Analyze

(* Every step keeps it.                                                     *)
LEMMA FreshInvStep == OneVersion /\ FreshInv /\ [Next]_vars => FreshInv'
  <1> SUFFICES ASSUME OneVersion, FreshInv, [Next]_vars PROVE FreshInv'
    OBVIOUS
  <1>1. ASSUME NEW c \in Calls, ApplySplit(c) PROVE FreshInv'
    <2>1. ASSUME NEW i \in Names, DeleteKey(c, i) PROVE FreshInv'
      <3>1. \A j \in Names : cache'[j] = cache[j] \/ cache'[j] = Miss
        BY <2>1 DEF DeleteKey, OneVersion, RequestTypes
      <3> QED
        BY <2>1, <3>1, FreshEnds DEF DeleteKey
    <2>2. CASE Commit(c)
      BY <2>2, FreshEnds DEF Commit, cacheVars
    <2>3. CASE Update(c) \/ Abort(c) \/ \E s \in Splits : ReadMarker(c, s)
      BY <2>3, FreshEnds DEF Update, Abort, ReadMarker, cacheVars
    <2> QED
      BY <1>1, <2>1, <2>2, <2>3 DEF ApplySplit
  <1>2. ASSUME NEW r \in Requests, Analyze(r) PROVE FreshInv'
    BY <1>2, FreshAnalyze
  <1>3. CASE Store
    BY <1>3, FreshEnds DEF Store, cacheVars
  <1>4. CASE Tick
    BY <1>4, FreshTick
  <1>5. CASE (\E s \in Splits : Record(s)) \/ UNCHANGED vars
    BY <1>5, FreshEnds DEF Record, vars, cacheVars
  <1> QED
    BY <1>1, <1>2, <1>3, <1>4, <1>5 DEF Next

(* No answer is made of bars that are over for longer than the life of an   *)
(* entry and the time of the two requests, the one that wrote and the one   *)
(* that reads; however requests, splits and fetches overlap.                *)
THEOREM AnswersAgeLittle == Spec => []StalenessIsBounded
  <1>1. Init => FreshInv
    <2>1. Init => (\A i \in Names : cache[i] = Miss) /\ \A r \in Requests : req[r] = NoRequest
      BY DEF Init
    <2>2. FreshEntry(ended, clock, Miss) /\ FreshRequest(ended, clock, NoRequest)
      BY PriceAssumption DEF FreshEntry, FreshRequest, Miss, NoRequest
    <2> QED
      BY <2>1, <2>2 DEF FreshInv
  <1>2. FreshInv => StalenessIsBounded
    BY DEF FreshInv, FreshRequest, OverFor, StalenessIsBounded, Version
  <1> QED
    BY <1>1, <1>2, OneVersionInit, OneVersionStep, FreshInvStep, PTL DEF Spec
=============================================================================
