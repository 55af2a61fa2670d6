-------------------------------- MODULE Sums --------------------------------
(* What a sum over a finite set does: the facts about SumFunctionOnSet, the  *)
(* fold the components count and add up with, that their proofs rest on.     *)
EXTENDS Integers, FiniteSetsExt, Functions, FiniteSetTheorems, WellFoundedInduction, TLAPS

(* The member of a set that a fold takes first.                              *)
Picked(s) == CHOOSE x \in s : TRUE

(* g adds f up over every part of S, one member at a time.                   *)
AddsUp(g, f, S) ==
    g = [s \in SUBSET S |-> IF s = {} THEN 0 ELSE f[Picked(s)] + g[s \ {Picked(s)}]]

(* A set of natural numbers has a least one.                                 *)
LEMMA LeastExists ==
  ASSUME NEW N \in SUBSET Nat, N # {}
  PROVE  \E m \in N : \A n \in N : m <= n
  <1>1. PICK m \in N : \A n \in N : <<n, m>> \notin OpToRel(<, Nat)
    BY WFMin, NatLessThanWellFounded, Zenon
  <1>2. \A n \in N : ~(n < m)
    BY <1>1, Zenon DEF OpToRel
  <1> QED
    BY <1>2

(* A set of integers that are not beyond a bound has a greatest one.         *)
LEMMA GreatestExists ==
  ASSUME NEW S \in SUBSET Int, S # {}, NEW b \in Int, \A x \in S : x <= b
  PROVE  \E m \in S : \A x \in S : x <= m
  <1> DEFINE N == {n \in Nat : b - n \in S}
  <1>1. ASSUME NEW x \in S PROVE b - x \in N
    <2>1. b - x \in Nat /\ b - (b - x) = x
      OBVIOUS
    <2> QED
      BY <2>1
  <1>2. PICK m \in N : \A n \in N : m <= n
    <2>1. N \in SUBSET Nat /\ N # {}
      BY <1>1
    <2> HIDE DEF N
    <2> QED
      BY <2>1, LeastExists
  <1>3. ASSUME NEW x \in S PROVE x <= b - m
    <2>1. m <= b - x
      BY <1>1, <1>2
    <2> QED
      BY <2>1
  <1> QED
    BY <1>2, <1>3

(* The greatest of a set is its maximum.                                    *)
LEMMA MaxIs ==
  ASSUME NEW S \in SUBSET Int, NEW m \in S, \A x \in S : x <= m
  PROVE  Max(S) = m
  <1>1. \E x \in S : \A y \in S : x >= y
    OBVIOUS
  <1>2. PICK x : x = Max(S)
    OBVIOUS
  <1>3. x \in S /\ \A y \in S : x >= y
    BY <1>1, <1>2 DEF Max
  <1> QED
    BY <1>2, <1>3

(* Among sets of parts of a finite set there is one with the fewest members. *)
LEMMA SmallestExists ==
  ASSUME NEW S, IsFiniteSet(S), NEW B \in SUBSET SUBSET S, B # {}
  PROVE  \E T \in B : \A U \in B : Cardinality(T) <= Cardinality(U)
  <1> DEFINE N == {Cardinality(U) : U \in B}
  <1>1. N \in SUBSET Nat /\ N # {}
    <2>1. \A U \in B : Cardinality(U) \in Nat
      BY FS_Subset, FS_CardinalityType
    <2> QED
      BY <2>1
  <1>2. PICK m \in N : \A n \in N : m <= n
    <2> HIDE DEF N
    <2> QED
      BY <1>1, LeastExists
  <1> QED
    BY <1>2

(* So what holds of a set whenever it holds of that set without one of its   *)
(* members holds of every part of a finite set: Good is the set of parts of  *)
(* which it holds.                                                           *)
LEMMA PartByPart ==
  ASSUME NEW S, IsFiniteSet(S), NEW Good, {} \in Good,
         \A T \in SUBSET S : T # {} /\ (\A x \in T : T \ {x} \in Good) => T \in Good
  PROVE  S \in Good
  <1>1. SUFFICES ASSUME S \notin Good PROVE FALSE
    OBVIOUS
  <1> DEFINE B == {T \in SUBSET S : T \notin Good}
  <1>2. PICK T \in B : \A U \in B : Cardinality(T) <= Cardinality(U)
    <2>1. B \in SUBSET SUBSET S /\ B # {}
      BY <1>1
    <2> HIDE DEF B
    <2> QED
      BY <2>1, SmallestExists
  <1>3. PICK x \in T : T \ {x} \in B
    OBVIOUS
  <1>4. IsFiniteSet(T)
    BY FS_Subset
  <1>5. Cardinality(T \ {x}) = Cardinality(T) - 1 /\ Cardinality(T) \in Nat
    BY <1>4, FS_RemoveElement, FS_CardinalityType
  <1> QED
    BY <1>2, <1>3, <1>5

(* Two functions that agree on a set add up to the same over it, whatever    *)
(* the sets are whose parts they are added up over.                          *)
LEMMA AddsUpAgree ==
  ASSUME NEW f, NEW h, NEW S, NEW T, NEW g, NEW k, NEW R, IsFiniteSet(R),
         R \subseteq S, R \subseteq T, AddsUp(g, f, S), AddsUp(k, h, T),
         \A x \in R : f[x] = h[x]
  PROVE  g[R] = k[R]
  <1> DEFINE Good == {U \in SUBSET R : g[U] = k[U]}
  <1>1. {} \in Good
    BY DEF AddsUp
  <1>2. ASSUME NEW U \in SUBSET R, U # {}, \A x \in U : U \ {x} \in Good
        PROVE  U \in Good
    <2>1. Picked(U) \in U
      BY <1>2 DEF Picked
    <2>2. g[U \ {Picked(U)}] = k[U \ {Picked(U)}] /\ f[Picked(U)] = h[Picked(U)]
      BY <2>1, <1>2
    <2>3. g[U] = f[Picked(U)] + g[U \ {Picked(U)}] /\ k[U] = h[Picked(U)] + k[U \ {Picked(U)}]
      BY <1>2 DEF AddsUp
    <2> QED
      BY <2>2, <2>3
  <1> HIDE DEF Good
  <1>3. R \in Good
    BY <1>1, <1>2, PartByPart
  <1> QED
    BY <1>3 DEF Good

(* If some function adds f up, the fold finds it.                            *)
LEMMA SumIs ==
  ASSUME NEW f, NEW S, NEW g, AddsUp(g, f, S)
  PROVE  \E k : AddsUp(k, f, S) /\ SumFunctionOnSet(f, S) = k[S]
  BY DEF SumFunctionOnSet, FoldFunctionOnSet, MapThenFoldSet, AddsUp, Picked

(* It always does.                                                           *)
LEMMA AddsUpExists ==
  ASSUME NEW f, NEW S, IsFiniteSet(S)
  PROVE  \E g : AddsUp(g, f, S)
  <1> DEFINE Good == {T \in SUBSET S : \A U \in SUBSET T : \E g : AddsUp(g, f, U)}
  <1>1. {} \in Good
    <2> DEFINE g == [s \in SUBSET {} |-> 0]
    <2>1. AddsUp(g, f, {})
      BY DEF AddsUp
    <2> QED
      BY <2>1
  <1>2. ASSUME NEW T \in SUBSET S, T # {}, \A x \in T : T \ {x} \in Good
        PROVE  T \in Good
    <2>1. ASSUME NEW s, s \subseteq T, s # T PROVE \E k : AddsUp(k, f, s)
      <3>1. PICK x \in T : s \subseteq T \ {x}
        BY <2>1
      <3> QED
        BY <3>1, <1>2
    <2> DEFINE g == [s \in SUBSET T |-> IF s = {} THEN 0
                       ELSE f[Picked(s)] + SumFunctionOnSet(f, s \ {Picked(s)})]
    <2>2. ASSUME NEW s, s \subseteq T, s # T PROVE g[s] = SumFunctionOnSet(f, s)
      <3>1. PICK k : AddsUp(k, f, s) /\ SumFunctionOnSet(f, s) = k[s]
        BY <2>1, <2>2, SumIs
      <3>2. CASE s = {}
        BY <3>1, <3>2 DEF AddsUp
      <3>3. CASE s # {}
        <4> DEFINE r == s \ {Picked(s)}
        <4>1. Picked(s) \in s
          BY <3>3 DEF Picked
        <4>2. k[s] = f[Picked(s)] + k[r]
          BY <3>1, <3>3 DEF AddsUp
        <4>3. r \subseteq T /\ r # T /\ r \subseteq s /\ IsFiniteSet(r)
          BY <2>2, FS_Subset
        <4>4. PICK j : AddsUp(j, f, r) /\ SumFunctionOnSet(f, r) = j[r]
          <5> HIDE DEF r
          <5> QED
            BY <4>3, <2>1, SumIs
        <4>5. j[r] = k[r]
          <5> HIDE DEF r
          <5> QED
            BY <4>3, <4>4, <3>1, AddsUpAgree
        <4> QED
          BY <4>2, <4>4, <4>5, <3>1, <3>3, <2>2
      <3> QED
        BY <3>2, <3>3
    <2>3. AddsUp(g, f, T)
      <3>1. ASSUME NEW s \in SUBSET T, s # {}
            PROVE  g[s] = f[Picked(s)] + g[s \ {Picked(s)}]
        <4>1. Picked(s) \in s
          BY <3>1 DEF Picked
        <4>2. g[s \ {Picked(s)}] = SumFunctionOnSet(f, s \ {Picked(s)})
          <5> HIDE DEF g
          <5> QED
            BY <4>1, <2>2
        <4> QED
          BY <4>2, <3>1
      <3>2. g[{}] = 0
        OBVIOUS
      <3>3. g = [s \in SUBSET T |-> g[s]]
        OBVIOUS
      <3>4. ASSUME NEW s \in SUBSET T
            PROVE  g[s] = IF s = {} THEN 0 ELSE f[Picked(s)] + g[s \ {Picked(s)}]
        <4> HIDE DEF g
        <4> QED
          BY <3>1, <3>2
      <3> HIDE DEF g
      <3> QED
        BY <3>3, <3>4, Zenon DEF AddsUp
    <2>4. ASSUME NEW U \in SUBSET T PROVE \E k : AddsUp(k, f, U)
      BY <2>1, <2>3, Zenon
    <2> QED
      BY <2>4
  <1> HIDE DEF Good
  <1>3. S \in Good
    BY <1>1, <1>2, PartByPart
  <1> QED
    BY <1>3 DEF Good

(* The fold, one member at a time.                                           *)
LEMMA SumPicked ==
  ASSUME NEW f, NEW S, IsFiniteSet(S)
  PROVE  SumFunctionOnSet(f, S) =
            IF S = {} THEN 0 ELSE f[Picked(S)] + SumFunctionOnSet(f, S \ {Picked(S)})
  <1>1. PICK k : AddsUp(k, f, S) /\ SumFunctionOnSet(f, S) = k[S]
    BY AddsUpExists, SumIs
  <1>2. CASE S = {}
    BY <1>1, <1>2 DEF AddsUp
  <1>3. CASE S # {}
    <2> DEFINE R == S \ {Picked(S)}
    <2>1. k[S] = f[Picked(S)] + k[R]
      BY <1>1, <1>3 DEF AddsUp
    <2>2. IsFiniteSet(R) /\ R \subseteq S
      BY FS_Subset
    <2> HIDE DEF R
    <2>3. PICK j : AddsUp(j, f, R) /\ SumFunctionOnSet(f, R) = j[R]
      BY <2>2, AddsUpExists, SumIs
    <2>4. j[R] = k[R]
      BY <2>2, <2>3, <1>1, AddsUpAgree
    <2> QED
      BY <1>1, <1>3, <2>1, <2>3, <2>4 DEF R
  <1> QED
    BY <1>2, <1>3

(* Nothing adds up to zero.                                                 *)
LEMMA SumEmpty == ASSUME NEW f PROVE SumFunctionOnSet(f, {}) = 0
  BY SumPicked, FS_EmptySet

(* What two functions agree on adds up to the same.                          *)
LEMMA SumEqual ==
  ASSUME NEW f, NEW h, NEW S, IsFiniteSet(S), \A x \in S : f[x] = h[x]
  PROVE  SumFunctionOnSet(f, S) = SumFunctionOnSet(h, S)
  <1>1. PICK k : AddsUp(k, f, S) /\ SumFunctionOnSet(f, S) = k[S]
    BY AddsUpExists, SumIs
  <1>2. PICK j : AddsUp(j, h, S) /\ SumFunctionOnSet(h, S) = j[S]
    BY AddsUpExists, SumIs
  <1>3. k[S] = j[S]
    <2>1. PICK R : R = S
      OBVIOUS
    <2>2. IsFiniteSet(R) /\ R \subseteq S /\ \A x \in R : f[x] = h[x]
      BY <2>1
    <2>3. k[R] = j[R]
      BY <1>1, <1>2, <2>2, AddsUpAgree
    <2> QED
      BY <2>1, <2>3
  <1> QED
    BY <1>1, <1>2, <1>3

(* A sum of integers is one.                                                 *)
LEMMA SumInt ==
  ASSUME NEW f, NEW S, IsFiniteSet(S), \A x \in S : f[x] \in Int
  PROVE  SumFunctionOnSet(f, S) \in Int
  <1> DEFINE Good == {T \in SUBSET S : SumFunctionOnSet(f, T) \in Int}
  <1>1. {} \in Good
    BY SumEmpty
  <1>2. ASSUME NEW T \in SUBSET S, T # {}, \A x \in T : T \ {x} \in Good
        PROVE  T \in Good
    <2>1. Picked(T) \in T /\ IsFiniteSet(T)
      BY <1>2, FS_Subset DEF Picked
    <2>2. T \ {Picked(T)} \in Good
      BY <1>2, <2>1
    <2>3. SumFunctionOnSet(f, T) = f[Picked(T)] + SumFunctionOnSet(f, T \ {Picked(T)})
      BY <1>2, <2>1, SumPicked
    <2> QED
      BY <2>1, <2>2, <2>3
  <1> HIDE DEF Good
  <1>3. S \in Good
    BY <1>1, <1>2, PartByPart
  <1> QED
    BY <1>3 DEF Good

(* Whichever member is taken out first.                                      *)
LEMMA SumTakeOut ==
  ASSUME NEW f, NEW S, IsFiniteSet(S), \A x \in S : f[x] \in Int, NEW y \in S
  PROVE  SumFunctionOnSet(f, S) = f[y] + SumFunctionOnSet(f, S \ {y})
  <1> DEFINE Good == {T \in SUBSET S : \A x \in T :
                SumFunctionOnSet(f, T) = f[x] + SumFunctionOnSet(f, T \ {x})}
  <1>1. {} \in Good
    OBVIOUS
  <1>2. ASSUME NEW T \in SUBSET S, T # {}, \A x \in T : T \ {x} \in Good
        PROVE  T \in Good
    <2> DEFINE p == Picked(T)
    <2>1. p \in T /\ IsFiniteSet(T)
      BY <1>2, FS_Subset DEF Picked
    <2>2. SumFunctionOnSet(f, T) = f[p] + SumFunctionOnSet(f, T \ {p})
      BY <1>2, <2>1, SumPicked
    <2> HIDE DEF p
    <2>3. ASSUME NEW x \in T
          PROVE  SumFunctionOnSet(f, T) = f[x] + SumFunctionOnSet(f, T \ {x})
      <3>1. CASE x = p
        BY <2>2, <3>1
      <3>2. CASE x # p
        <4> DEFINE R == T \ {p, x}
        <4>1. (T \ {p}) \ {x} = R /\ (T \ {x}) \ {p} = R
          OBVIOUS
        <4>2. SumFunctionOnSet(f, T \ {p}) = f[x] + SumFunctionOnSet(f, R)
          <5>1. T \ {p} \in Good /\ x \in T \ {p}
            BY <1>2, <2>1, <3>2
          <5> QED
            BY <5>1, <4>1
        <4>3. SumFunctionOnSet(f, T \ {x}) = f[p] + SumFunctionOnSet(f, R)
          <5>1. T \ {x} \in Good /\ p \in T \ {x}
            BY <1>2, <2>1, <3>2
          <5> QED
            BY <5>1, <4>1
        <4>4. SumFunctionOnSet(f, R) \in Int /\ f[x] \in Int /\ f[p] \in Int
          BY <2>1, FS_Subset, SumInt
        <4> HIDE DEF R
        <4> QED
          BY <2>2, <4>2, <4>3, <4>4
      <3> QED
        BY <3>1, <3>2
    <2> QED
      BY <2>3
  <1> HIDE DEF Good
  <1>3. S \in Good
    BY <1>1, <1>2, PartByPart
  <1> QED
    BY <1>3 DEF Good

(* A member that is put in adds its value.                                  *)
LEMMA SumPutIn ==
  ASSUME NEW f, NEW S, IsFiniteSet(S), NEW y, y \notin S, \A x \in S \cup {y} : f[x] \in Int
  PROVE  SumFunctionOnSet(f, S \cup {y}) = f[y] + SumFunctionOnSet(f, S)
  <1>1. IsFiniteSet(S \cup {y}) /\ (S \cup {y}) \ {y} = S
    BY FS_AddElement
  <1> QED
    BY <1>1, SumTakeOut

(* Smaller numbers add up to less.                                           *)
LEMMA SumMonotonic ==
  ASSUME NEW f, NEW h, NEW S, IsFiniteSet(S),
         \A x \in S : f[x] \in Int /\ h[x] \in Int /\ f[x] <= h[x]
  PROVE  SumFunctionOnSet(f, S) <= SumFunctionOnSet(h, S)
  <1> DEFINE Good == {T \in SUBSET S : SumFunctionOnSet(f, T) <= SumFunctionOnSet(h, T)}
  <1>1. {} \in Good
    BY SumEmpty
  <1>2. ASSUME NEW T \in SUBSET S, T # {}, \A x \in T : T \ {x} \in Good
        PROVE  T \in Good
    <2>1. PICK p \in T : TRUE
      BY <1>2
    <2>2. IsFiniteSet(T) /\ IsFiniteSet(T \ {p})
      BY FS_Subset
    <2>3. /\ SumFunctionOnSet(f, T) = f[p] + SumFunctionOnSet(f, T \ {p})
          /\ SumFunctionOnSet(h, T) = h[p] + SumFunctionOnSet(h, T \ {p})
      BY <2>2, SumTakeOut
    <2>4. SumFunctionOnSet(f, T \ {p}) \in Int /\ SumFunctionOnSet(h, T \ {p}) \in Int
      BY <2>2, SumInt
    <2>5. SumFunctionOnSet(f, T \ {p}) <= SumFunctionOnSet(h, T \ {p})
      BY <1>2
    <2> QED
      BY <2>3, <2>4, <2>5
  <1> HIDE DEF Good
  <1>3. S \in Good
    BY <1>1, <1>2, PartByPart
  <1> QED
    BY <1>3 DEF Good

(* Zeros add up to zero.                                                    *)
LEMMA SumZero ==
  ASSUME NEW f, NEW S, IsFiniteSet(S), \A x \in S : f[x] = 0
  PROVE  SumFunctionOnSet(f, S) = 0
  <1> DEFINE Good == {T \in SUBSET S : SumFunctionOnSet(f, T) = 0}
  <1>1. {} \in Good
    BY SumEmpty
  <1>2. ASSUME NEW T \in SUBSET S, T # {}, \A x \in T : T \ {x} \in Good
        PROVE  T \in Good
    <2>1. Picked(T) \in T /\ IsFiniteSet(T)
      BY <1>2, FS_Subset DEF Picked
    <2>2. T \ {Picked(T)} \in Good
      BY <1>2, <2>1
    <2>3. SumFunctionOnSet(f, T) = f[Picked(T)] + SumFunctionOnSet(f, T \ {Picked(T)})
      BY <1>2, <2>1, SumPicked
    <2> QED
      BY <2>1, <2>2, <2>3
  <1> HIDE DEF Good
  <1>3. S \in Good
    BY <1>1, <1>2, PartByPart
  <1> QED
    BY <1>3 DEF Good

(* Naturals add up to a natural, which is zero only if each of them is.      *)
LEMMA SumNat ==
  ASSUME NEW f, NEW S, IsFiniteSet(S), \A x \in S : f[x] \in Nat
  PROVE  /\ SumFunctionOnSet(f, S) \in Nat
         /\ \A x \in S : f[x] <= SumFunctionOnSet(f, S)
         /\ SumFunctionOnSet(f, S) = 0 <=> \A x \in S : f[x] = 0
  <1> DEFINE Good == {T \in SUBSET S : SumFunctionOnSet(f, T) \in Nat}
  <1>1. {} \in Good
    BY SumEmpty
  <1>2. ASSUME NEW T \in SUBSET S, T # {}, \A x \in T : T \ {x} \in Good
        PROVE  T \in Good
    <2>1. Picked(T) \in T /\ IsFiniteSet(T)
      BY <1>2, FS_Subset DEF Picked
    <2>2. T \ {Picked(T)} \in Good
      BY <1>2, <2>1
    <2>3. SumFunctionOnSet(f, T) = f[Picked(T)] + SumFunctionOnSet(f, T \ {Picked(T)})
      BY <1>2, <2>1, SumPicked
    <2> QED
      BY <2>1, <2>2, <2>3
  <1>3. \A T \in SUBSET S : SumFunctionOnSet(f, T) \in Nat
    <2>1. ASSUME NEW T \in SUBSET S PROVE SumFunctionOnSet(f, T) \in Nat
      <3>1. IsFiniteSet(T) /\ \A x \in T : f[x] \in Nat
        BY FS_Subset
      <3> DEFINE Fine == Good \cap SUBSET T
      <3>2. {} \in Fine /\ \A R \in SUBSET T : R # {} /\ (\A x \in R : R \ {x} \in Fine)
            => R \in Fine
        <4> HIDE DEF Good
        <4> QED
          BY <1>1, <1>2
      <3> HIDE DEF Fine
      <3>3. T \in Fine
        BY <3>1, <3>2, PartByPart
      <3> QED
        BY <3>3 DEF Fine
    <2> QED
      BY <2>1
  <1>4. ASSUME NEW x \in S PROVE f[x] <= SumFunctionOnSet(f, S)
    <2>1. SumFunctionOnSet(f, S) = f[x] + SumFunctionOnSet(f, S \ {x})
      BY SumTakeOut
    <2>2. SumFunctionOnSet(f, S \ {x}) \in Nat
      BY <1>3
    <2> QED
      BY <2>1, <2>2
  <1>5. SumFunctionOnSet(f, S) \in Nat
    BY <1>3
  <1> QED
    BY <1>4, <1>5, SumZero

(* Of naturals, a part adds up to no more than the whole.                    *)
LEMMA SumOfPart ==
  ASSUME NEW f, NEW S, IsFiniteSet(S), \A x \in S : f[x] \in Nat, NEW R \in SUBSET S
  PROVE  SumFunctionOnSet(f, R) <= SumFunctionOnSet(f, S)
  <1> DEFINE Good == {T \in SUBSET S :
                SumFunctionOnSet(f, R \cap T) <= SumFunctionOnSet(f, T)}
  <1>1. {} \in Good
    <2>1. R \cap {} = {}
      OBVIOUS
    <2> QED
      BY <2>1, SumEmpty
  <1>2. ASSUME NEW T \in SUBSET S, T # {}, \A x \in T : T \ {x} \in Good
        PROVE  T \in Good
    <2>1. PICK p \in T : TRUE
      BY <1>2
    <2>2. IsFiniteSet(T) /\ IsFiniteSet(T \ {p}) /\ IsFiniteSet(R \cap T)
          /\ IsFiniteSet(R \cap (T \ {p}))
      BY FS_Subset
    <2>3. SumFunctionOnSet(f, T) = f[p] + SumFunctionOnSet(f, T \ {p})
      BY <2>2, SumTakeOut
    <2>4. /\ SumFunctionOnSet(f, T \ {p}) \in Nat
          /\ SumFunctionOnSet(f, R \cap (T \ {p})) \in Nat
          /\ f[p] \in Nat
      BY <2>2, SumNat
    <2>5. SumFunctionOnSet(f, R \cap (T \ {p})) <= SumFunctionOnSet(f, T \ {p})
      BY <1>2
    <2>6. CASE p \in R
      <3>1. (R \cap T) \ {p} = R \cap (T \ {p}) /\ p \in R \cap T
        BY <2>6
      <3>2. SumFunctionOnSet(f, R \cap T) = f[p] + SumFunctionOnSet(f, R \cap (T \ {p}))
        BY <2>2, <3>1, SumTakeOut
      <3> QED
        BY <3>2, <2>3, <2>4, <2>5
    <2>7. CASE p \notin R
      <3>1. R \cap T = R \cap (T \ {p})
        BY <2>7
      <3>2. SumFunctionOnSet(f, R \cap T) <= SumFunctionOnSet(f, T)
        BY <3>1, <2>3, <2>4, <2>5
      <3> QED
        BY <3>2
    <2> QED
      BY <2>6, <2>7
  <1> HIDE DEF Good
  <1>3. S \in Good
    BY <1>1, <1>2, PartByPart
  <1>4. R \cap S = R
    OBVIOUS
  <1> QED
    BY <1>3, <1>4 DEF Good

(* One number changes and the sum changes by as much.                        *)
LEMMA SumChangedAt ==
  ASSUME NEW f, NEW h, NEW S, IsFiniteSet(S), NEW y \in S,
         \A x \in S : f[x] \in Int /\ h[x] \in Int, \A x \in S \ {y} : h[x] = f[x]
  PROVE  SumFunctionOnSet(h, S) = SumFunctionOnSet(f, S) + h[y] - f[y]
  <1>1. IsFiniteSet(S \ {y})
    BY FS_Subset
  <1>2. SumFunctionOnSet(f, S \ {y}) = SumFunctionOnSet(h, S \ {y})
    BY <1>1, SumEqual
  <1>3. SumFunctionOnSet(f, S \ {y}) \in Int
    BY <1>1, SumInt
  <1>4. /\ SumFunctionOnSet(f, S) = f[y] + SumFunctionOnSet(f, S \ {y})
        /\ SumFunctionOnSet(h, S) = h[y] + SumFunctionOnSet(h, S \ {y})
    BY SumTakeOut
  <1> QED
    BY <1>2, <1>3, <1>4

(* Numbers that are moved one place up add up to what they did.              *)
LEMMA SumShifted ==
  ASSUME NEW f, NEW h, NEW S, IsFiniteSet(S),
         \A x \in S : f[x] \in Int
  PROVE  (\A x \in S : x \in Int /\ h[x + 1] = f[x]) =>
            SumFunctionOnSet(h, {x + 1 : x \in S}) = SumFunctionOnSet(f, S)
  <1>0. SUFFICES ASSUME \A x \in S : x \in Int /\ h[x + 1] = f[x]
                 PROVE  SumFunctionOnSet(h, {x + 1 : x \in S}) = SumFunctionOnSet(f, S)
    OBVIOUS
  <1> DEFINE Up(T) == {x + 1 : x \in T}
             Good == {T \in SUBSET S : /\ IsFiniteSet(Up(T))
                                       /\ SumFunctionOnSet(h, Up(T)) = SumFunctionOnSet(f, T)}
  <1>1. {} \in Good
    <2>1. Up({}) = {}
      OBVIOUS
    <2> QED
      BY <2>1, SumEmpty, FS_EmptySet
  <1>2. ASSUME NEW T \in SUBSET S, T # {}, \A x \in T : T \ {x} \in Good
        PROVE  T \in Good
    <2>1. PICK p \in T : TRUE
      BY <1>2
    <2>2. IsFiniteSet(T) /\ IsFiniteSet(T \ {p})
      BY FS_Subset
    <2>3. SumFunctionOnSet(f, T) = f[p] + SumFunctionOnSet(f, T \ {p})
      <3>1. \A x \in T : f[x] \in Int
        OBVIOUS
      <3> HIDE DEF Good, Up
      <3> QED
        BY <2>1, <2>2, <3>1, SumTakeOut
    <2>4. /\ IsFiniteSet(Up(T \ {p}))
          /\ SumFunctionOnSet(h, Up(T \ {p})) = SumFunctionOnSet(f, T \ {p})
      BY <1>2, <2>1
    <2>5. p + 1 \notin Up(T \ {p}) /\ Up(T) = Up(T \ {p}) \cup {p + 1}
      BY <1>0
    <2>6. \A x \in Up(T \ {p}) \cup {p + 1} : h[x] \in Int
      BY <1>0
    <2>7. /\ IsFiniteSet(Up(T))
          /\ SumFunctionOnSet(h, Up(T)) = h[p + 1] + SumFunctionOnSet(h, Up(T \ {p}))
      <3>1. PICK V : V = Up(T \ {p})
        OBVIOUS
      <3>2. IsFiniteSet(V \cup {p + 1})
        BY <2>4, <3>1, FS_AddElement
      <3>3. SumFunctionOnSet(h, V \cup {p + 1}) = h[p + 1] + SumFunctionOnSet(h, V)
        <4> HIDE DEF Good, Up
        <4> QED
          BY <2>4, <2>5, <2>6, <3>1, SumPutIn
      <3> QED
        BY <2>5, <3>1, <3>2, <3>3
    <2> QED
      BY <1>0, <2>3, <2>4, <2>7
  <1> HIDE DEF Good
  <1>3. S \in Good
    BY <1>1, <1>2, PartByPart
  <1> QED
    BY <1>3 DEF Good

(* What is not in a part is nothing: the part adds up to the whole.          *)
LEMMA SumWithoutZeros ==
  ASSUME NEW f, NEW S, IsFiniteSet(S), \A x \in S : f[x] \in Int, NEW R \in SUBSET S,
         \A x \in S \ R : f[x] = 0
  PROVE  SumFunctionOnSet(f, S) = SumFunctionOnSet(f, R)
  <1> DEFINE Good == {T \in SUBSET S :
                SumFunctionOnSet(f, R \cap T) = SumFunctionOnSet(f, T)}
  <1>1. {} \in Good
    <2>1. R \cap {} = {}
      OBVIOUS
    <2> QED
      BY <2>1
  <1>2. ASSUME NEW T \in SUBSET S, T # {}, \A x \in T : T \ {x} \in Good
        PROVE  T \in Good
    <2>1. PICK p \in T : TRUE
      BY <1>2
    <2>2. IsFiniteSet(T) /\ IsFiniteSet(T \ {p}) /\ IsFiniteSet(R \cap T)
      BY FS_Subset
    <2>3. SumFunctionOnSet(f, T) = f[p] + SumFunctionOnSet(f, T \ {p})
      BY <2>2, SumTakeOut
    <2>4. SumFunctionOnSet(f, R \cap (T \ {p})) = SumFunctionOnSet(f, T \ {p})
      BY <1>2
    <2>5. SumFunctionOnSet(f, T \ {p}) \in Int
      BY <2>2, SumInt
    <2>6. CASE p \in R
      <3>1. (R \cap T) \ {p} = R \cap (T \ {p}) /\ p \in R \cap T
        BY <2>6
      <3>2. SumFunctionOnSet(f, R \cap T) = f[p] + SumFunctionOnSet(f, R \cap (T \ {p}))
        BY <2>2, <3>1, SumTakeOut
      <3> QED
        BY <3>2, <2>3, <2>4
    <2>7. CASE p \notin R
      <3>1. R \cap T = R \cap (T \ {p}) /\ f[p] = 0
        BY <2>7
      <3>2. SumFunctionOnSet(f, T) = SumFunctionOnSet(f, T \ {p})
        BY <3>1, <2>3, <2>5
      <3>3. SumFunctionOnSet(f, R \cap T) = SumFunctionOnSet(f, R \cap (T \ {p}))
        BY <3>1
      <3>4. SumFunctionOnSet(f, R \cap T) = SumFunctionOnSet(f, T)
        BY <3>2, <3>3, <2>4
      <3> QED
        BY <3>4
    <2> QED
      BY <2>6, <2>7
  <1> HIDE DEF Good
  <1>3. S \in Good
    BY <1>1, <1>2, PartByPart
  <1>4. R \cap S = R
    OBVIOUS
  <1> QED
    BY <1>3, <1>4 DEF Good

(* A multiple of every number adds up to that multiple.                      *)
LEMMA SumScaled ==
  ASSUME NEW f, NEW h, NEW S, IsFiniteSet(S), NEW c \in Int,
         \A x \in S : f[x] \in Int /\ h[x] = c * f[x]
  PROVE  SumFunctionOnSet(h, S) = c * SumFunctionOnSet(f, S)
  <1> DEFINE Good == {T \in SUBSET S : SumFunctionOnSet(h, T) = c * SumFunctionOnSet(f, T)}
  <1>1. {} \in Good
    BY SumEmpty
  <1>2. ASSUME NEW T \in SUBSET S, T # {}, \A x \in T : T \ {x} \in Good
        PROVE  T \in Good
    <2>1. PICK p \in T : TRUE
      BY <1>2
    <2>2. IsFiniteSet(T) /\ IsFiniteSet(T \ {p}) /\ \A x \in T : f[x] \in Int /\ h[x] \in Int
      BY FS_Subset
    <2>3. /\ SumFunctionOnSet(f, T) = f[p] + SumFunctionOnSet(f, T \ {p})
          /\ SumFunctionOnSet(h, T) = h[p] + SumFunctionOnSet(h, T \ {p})
      BY <2>2, SumTakeOut
    <2>4. SumFunctionOnSet(f, T \ {p}) \in Int
      BY <2>2, SumInt
    <2>5. SumFunctionOnSet(h, T \ {p}) = c * SumFunctionOnSet(f, T \ {p})
      BY <1>2
    <2>6. f[p] \in Int /\ h[p] = c * f[p]
      OBVIOUS
    <2>7. ASSUME NEW a \in Int, NEW b \in Int PROVE c * a + c * b = c * (a + b)
      OBVIOUS
    <2>8. SumFunctionOnSet(h, T) = c * SumFunctionOnSet(f, T)
      BY <2>3, <2>4, <2>5, <2>6, <2>7
    <2> QED
      BY <2>8
  <1> HIDE DEF Good
  <1>3. S \in Good
    BY <1>1, <1>2, PartByPart
  <1> QED
    BY <1>3 DEF Good

(* The squares of naturals add up to no more than the square of their sum.   *)
LEMMA SumOfSquares ==
  ASSUME NEW f, NEW h, NEW S, IsFiniteSet(S),
         \A x \in S : f[x] \in Nat /\ h[x] = f[x] * f[x]
  PROVE  SumFunctionOnSet(h, S) <= SumFunctionOnSet(f, S) * SumFunctionOnSet(f, S)
  <1> DEFINE Good == {T \in SUBSET S :
            SumFunctionOnSet(h, T) <= SumFunctionOnSet(f, T) * SumFunctionOnSet(f, T)}
  <1>1. {} \in Good
    BY SumEmpty
  <1>2. ASSUME NEW T \in SUBSET S, T # {}, \A x \in T : T \ {x} \in Good
        PROVE  T \in Good
    <2>1. PICK p : p \in T
      BY <1>2
    <2>2. IsFiniteSet(T) /\ IsFiniteSet(T \ {p}) /\ \A x \in T : f[x] \in Int /\ h[x] \in Int
      <3>1. ASSUME NEW x \in T PROVE f[x] \in Int /\ h[x] \in Int
        <4>1. f[x] \in Nat /\ h[x] = f[x] * f[x]
          OBVIOUS
        <4> QED
          BY <4>1
      <3> QED
        BY <3>1, FS_Subset
    <2> HIDE DEF Good
    <2>3. /\ SumFunctionOnSet(f, T) = f[p] + SumFunctionOnSet(f, T \ {p})
          /\ SumFunctionOnSet(h, T) = h[p] + SumFunctionOnSet(h, T \ {p})
      BY ONLY <2>1, <2>2, SumTakeOut
    <2>4. SumFunctionOnSet(f, T \ {p}) \in Nat
      BY <2>2, SumNat
    <2>5. SumFunctionOnSet(h, T \ {p})
            <= SumFunctionOnSet(f, T \ {p}) * SumFunctionOnSet(f, T \ {p})
      BY <1>2, <2>1 DEF Good
    <2>6. f[p] \in Nat /\ h[p] = f[p] * f[p]
      BY <2>1
    <2>7. SumFunctionOnSet(h, T \ {p}) \in Int
      <3>1. \A x \in T \ {p} : h[x] \in Int
        BY ONLY <2>2
      <3> QED
        BY ONLY <2>2, <3>1, SumInt
    <2>8. ASSUME NEW a \in Nat, NEW b \in Nat, NEW c \in Int, c <= b * b
          PROVE  a * a + c <= (a + b) * (a + b)
      <3>1. (a + b) * (a + b) = a * a + 2 * (a * b) + b * b /\ a * b >= 0
        OBVIOUS
      <3> QED
        BY <3>1, <2>8
    <2>9. SumFunctionOnSet(h, T) <= SumFunctionOnSet(f, T) * SumFunctionOnSet(f, T)
      BY ONLY <2>3, <2>4, <2>5, <2>6, <2>7, <2>8
    <2> QED
      BY <2>9 DEF Good
  <1> HIDE DEF Good
  <1>3. S \in Good
    BY <1>1, <1>2, PartByPart
  <1> QED
    BY <1>3 DEF Good

(* One of finitely many is the least, and one the greatest.                  *)
LEMMA ExtremesExist ==
  ASSUME NEW f, NEW S, IsFiniteSet(S), S # {}, \A x \in S : f[x] \in Int
  PROVE  /\ \E x \in S : \A y \in S : f[x] <= f[y]
         /\ \E x \in S : \A y \in S : f[y] <= f[x]
  <1> DEFINE Good == {T \in SUBSET S : T # {} =>
                /\ \E x \in T : \A y \in T : f[x] <= f[y]
                /\ \E x \in T : \A y \in T : f[y] <= f[x]}
  <1>1. {} \in Good
    OBVIOUS
  <1>2. ASSUME NEW T \in SUBSET S, T # {}, \A x \in T : T \ {x} \in Good
        PROVE  T \in Good
    <2>1. PICK p \in T : TRUE
      BY <1>2
    <2>2. CASE T \ {p} = {}
      <3>1. T = {p} /\ f[p] \in Int
        BY <2>2
      <3> QED
        BY <3>1
    <2>3. CASE T \ {p} # {}
      <3>1. /\ \E x \in T \ {p} : \A y \in T \ {p} : f[x] <= f[y]
            /\ \E x \in T \ {p} : \A y \in T \ {p} : f[y] <= f[x]
        BY <1>2, <2>1, <2>3
      <3>2. \E x \in T : \A y \in T : f[x] <= f[y]
        <4>1. PICK m \in T \ {p} : \A y \in T \ {p} : f[m] <= f[y]
          BY <3>1
        <4>2. f[m] \in Int /\ \A y \in T : f[y] \in Int
          OBVIOUS
        <4>3. CASE f[m] <= f[p]
          BY <4>1, <4>3
        <4>4. CASE f[p] < f[m]
          <5>1. \A y \in T : f[p] <= f[y]
            BY <4>1, <4>2, <4>4
          <5> QED
            BY <5>1
        <4> QED
          BY <4>2, <4>3, <4>4
      <3>3. \E x \in T : \A y \in T : f[y] <= f[x]
        <4>1. PICK m \in T \ {p} : \A y \in T \ {p} : f[y] <= f[m]
          BY <3>1
        <4>2. f[m] \in Int /\ \A y \in T : f[y] \in Int
          OBVIOUS
        <4>3. CASE f[p] <= f[m]
          BY <4>1, <4>3
        <4>4. CASE f[m] < f[p]
          <5>1. \A y \in T : f[y] <= f[p]
            BY <4>1, <4>2, <4>4
          <5> QED
            BY <5>1
        <4> QED
          BY <4>2, <4>3, <4>4
      <3> QED
        BY <3>2, <3>3
    <2> QED
      BY <2>2, <2>3
  <1> HIDE DEF Good
  <1>3. S \in Good
    BY <1>1, <1>2, PartByPart
  <1> QED
    BY <1>3 DEF Good

(* Two sets that have no member in common add up to both their sums.         *)
LEMMA SumDisjoint ==
  ASSUME NEW f, NEW A, NEW B, IsFiniteSet(A), IsFiniteSet(B), A \cap B = {},
         \A x \in A \cup B : f[x] \in Int
  PROVE  SumFunctionOnSet(f, A \cup B) = SumFunctionOnSet(f, A) + SumFunctionOnSet(f, B)
  <1> DEFINE Good == {T \in SUBSET B : SumFunctionOnSet(f, A \cup T) =
                                           SumFunctionOnSet(f, A) + SumFunctionOnSet(f, T)}
  <1>0. SumFunctionOnSet(f, A) \in Int
    BY SumInt
  <1>1. {} \in Good
    <2>1. A \cup {} = A
      OBVIOUS
    <2> QED
      BY <1>0, <2>1, SumEmpty
  <1>2. ASSUME NEW T \in SUBSET B, T # {}, \A x \in T : T \ {x} \in Good
        PROVE  T \in Good
    <2>1. PICK p \in T : TRUE
      BY <1>2
    <2>2. IsFiniteSet(T) /\ IsFiniteSet(T \ {p}) /\ IsFiniteSet(A \cup T)
      BY FS_Subset, FS_Union
    <2>3. SumFunctionOnSet(f, T) = f[p] + SumFunctionOnSet(f, T \ {p})
      BY <2>2, SumTakeOut
    <2>4. SumFunctionOnSet(f, A \cup T) = f[p] + SumFunctionOnSet(f, A \cup (T \ {p}))
      <3>1. (A \cup T) \ {p} = A \cup (T \ {p}) /\ p \in A \cup T
        OBVIOUS
      <3>2. \A x \in A \cup T : f[x] \in Int
        OBVIOUS
      <3> QED
        BY <2>2, <3>1, <3>2, SumTakeOut
    <2>5. SumFunctionOnSet(f, A \cup (T \ {p})) =
              SumFunctionOnSet(f, A) + SumFunctionOnSet(f, T \ {p})
      BY <1>2
    <2>6. SumFunctionOnSet(f, T \ {p}) \in Int /\ f[p] \in Int
      BY <2>2, SumInt
    <2>7. SumFunctionOnSet(f, A \cup T) = SumFunctionOnSet(f, A) + SumFunctionOnSet(f, T)
      BY <1>0, <2>3, <2>4, <2>5, <2>6
    <2> QED
      BY <2>7
  <1> HIDE DEF Good
  <1>3. B \in Good
    BY <1>1, <1>2, PartByPart
  <1> QED
    BY <1>3 DEF Good

(* Numbers that are counted under other names add up to the same.            *)
LEMMA SumRenamed ==
  ASSUME NEW f, NEW h, NEW g, NEW S, IsFiniteSet(S),
         \A x \in S : h[x] \in Int /\ h[x] = f[g[x]],
         \A x, y \in S : g[x] = g[y] => x = y
  PROVE  /\ IsFiniteSet({g[x] : x \in S})
         /\ SumFunctionOnSet(f, {g[x] : x \in S}) = SumFunctionOnSet(h, S)
  <1> DEFINE Named(T) == {g[x] : x \in T}
             Good == {T \in SUBSET S : /\ IsFiniteSet(Named(T))
                                       /\ SumFunctionOnSet(f, Named(T)) = SumFunctionOnSet(h, T)}
  <1>1. {} \in Good
    <2>1. Named({}) = {}
      OBVIOUS
    <2> QED
      BY <2>1, SumEmpty, FS_EmptySet
  <1>2. ASSUME NEW T \in SUBSET S, T # {}, \A x \in T : T \ {x} \in Good
        PROVE  T \in Good
    <2>1. PICK p \in T : TRUE
      BY <1>2
    <2>2. Named(T) = Named(T \ {p}) \cup {g[p]} /\ g[p] \notin Named(T \ {p})
      OBVIOUS
    <2>3. IsFiniteSet(Named(T \ {p})) /\
          SumFunctionOnSet(f, Named(T \ {p})) = SumFunctionOnSet(h, T \ {p})
      BY <1>2
    <2>4. \A y \in Named(T \ {p}) \cup {g[p]} : f[y] \in Int
      <3>1. \A x \in S : f[g[x]] \in Int
        OBVIOUS
      <3> QED
        BY <3>1
    <2>5. IsFiniteSet(T)
      BY FS_Subset
    <2>6. SumFunctionOnSet(h, T) = h[p] + SumFunctionOnSet(h, T \ {p})
      BY <2>5, SumTakeOut
    <2>7. f[g[p]] = h[p]
      OBVIOUS
    <2> HIDE DEF Named
    <2>8. SumFunctionOnSet(f, Named(T)) = f[g[p]] + SumFunctionOnSet(f, Named(T \ {p}))
      BY <2>2, <2>3, <2>4, SumPutIn
    <2>9. IsFiniteSet(Named(T))
      <3>1. \A U : IsFiniteSet(U) => IsFiniteSet(U \cup {g[p]})
        BY FS_AddElement
      <3> QED
        BY <2>2, <2>3, <3>1
    <2> QED
      BY <2>3, <2>6, <2>7, <2>8, <2>9
  <1> HIDE DEF Good
  <1>3. S \in Good
    BY <1>1, <1>2, PartByPart
  <1> QED
    BY <1>3 DEF Good

(* The columns that P has in the row of c.                                   *)
InRow(P, c, I) == {i \in I : <<c, i>> \in P}

(* A table adds up to the sums of its rows: r[c] is the row of c.            *)
LEMMA SumByRows ==
  ASSUME NEW f, NEW h, NEW r, NEW C, NEW I, IsFiniteSet(C),
         IsFiniteSet(I), NEW P \in SUBSET (C \X I),
         \A p \in P : f[p] \in Int /\ f[p] = r[p[1]][p[2]],
         \A c \in C : h[c] = SumFunctionOnSet(r[c], InRow(P, c, I))
  PROVE  SumFunctionOnSet(f, P) = SumFunctionOnSet(h, C)
  <1> DEFINE In(T) == {p \in P : p[1] \in T}
             Good == {T \in SUBSET C : /\ IsFiniteSet(In(T))
                                       /\ SumFunctionOnSet(f, In(T)) = SumFunctionOnSet(h, T)}
  <1>1. {} \in Good
    <2>1. In({}) = {}
      OBVIOUS
    <2> QED
      BY <2>1, SumEmpty, FS_EmptySet
  <1>2. ASSUME NEW c \in C
        PROVE  /\ IsFiniteSet(In({c})) /\ SumFunctionOnSet(f, In({c})) = h[c] /\ h[c] \in Int
    <2> DEFINE Q == {i \in I : <<c, i>> \in P}
               g == [i \in Q |-> <<c, i>>]
               row == r[c]
    <2>1. In({c}) = {g[i] : i \in Q}
      <3>1. ASSUME NEW p \in In({c}) PROVE p[2] \in Q /\ p = g[p[2]]
        <4>1. p = <<c, p[2]>> /\ p[2] \in I
          OBVIOUS
        <4> QED
          BY <4>1
      <3>2. ASSUME NEW i \in Q PROVE g[i] \in In({c})
        OBVIOUS
      <3> HIDE DEF In, g, Q
      <3> QED
        BY <3>1, <3>2
    <2>2. IsFiniteSet(Q)
      BY FS_Subset
    <2>3. \A i \in Q : row[i] \in Int /\ row[i] = f[g[i]]
      <3>1. ASSUME NEW i \in Q PROVE row[i] \in Int /\ row[i] = f[g[i]]
        <4>1. <<c, i>> \in P /\ g[i] = <<c, i>> /\ <<c, i>>[1] = c /\ <<c, i>>[2] = i
          OBVIOUS
        <4> QED
          BY <4>1
      <3> QED
        BY <3>1
    <2>4. \A i, j \in Q : g[i] = g[j] => i = j
      OBVIOUS
    <2>5. h[c] = SumFunctionOnSet(row, Q)
      BY DEF InRow
    <2> HIDE DEF In, Q, g, row
    <2>6. SumFunctionOnSet(row, Q) \in Int
      BY <2>2, <2>3, SumInt
    <2>7. /\ IsFiniteSet({g[i] : i \in Q})
          /\ SumFunctionOnSet(f, {g[i] : i \in Q}) = SumFunctionOnSet(row, Q)
      BY <2>2, <2>3, <2>4, SumRenamed
    <2> QED
      BY <2>1, <2>5, <2>6, <2>7
  <1>3. ASSUME NEW T \in SUBSET C, T # {}, \A x \in T : T \ {x} \in Good
        PROVE  T \in Good
    <2>1. PICK c \in T : TRUE
      BY <1>3
    <2> DEFINE A == In(T \ {c})
               B == In({c})
               W == In(T)
    <2>2. /\ W = A \cup B /\ A \cap B = {} /\ \A p \in A \cup B : f[p] \in Int
          /\ IsFiniteSet(A) /\ SumFunctionOnSet(f, A) = SumFunctionOnSet(h, T \ {c})
      BY <1>3
    <2>3. IsFiniteSet(B) /\ SumFunctionOnSet(f, B) = h[c] /\ h[c] \in Int
      BY <1>2
    <2> HIDE DEF A, B, W
    <2>4. SumFunctionOnSet(f, W) = SumFunctionOnSet(h, T \ {c}) + h[c]
      BY <2>2, <2>3, SumDisjoint
    <2>5. IsFiniteSet(T) /\ IsFiniteSet(T \ {c}) /\ \A x \in T : h[x] \in Int
      BY <1>2, FS_Subset
    <2>6. SumFunctionOnSet(h, T) = h[c] + SumFunctionOnSet(h, T \ {c})
      BY <2>5, SumTakeOut
    <2>7. SumFunctionOnSet(h, T \ {c}) \in Int
      BY <2>5, SumInt
    <2>8. SumFunctionOnSet(f, W) = SumFunctionOnSet(h, T)
      BY <2>3, <2>4, <2>6, <2>7
    <2>9. IsFiniteSet(W)
      BY <2>2, <2>3, FS_Union
    <2> QED
      BY <2>8, <2>9 DEF W
  <1> HIDE DEF Good
  <1>4. C \in Good
    BY <1>1, <1>3, PartByPart
  <1>5. In(C) = P
    OBVIOUS
  <1> QED
    BY <1>4, <1>5 DEF Good
=============================================================================
