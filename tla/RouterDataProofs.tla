-------------------------- MODULE RouterDataProofs --------------------------
(***************************************************************************)
(* Theorems about the data the router learns from.                         *)
(*                                                                         *)
(* The dataset and the sweeps over it, for any writers, trainers, studies, *)
(* seeds, configs and lengths: rows come under their own authority, and a  *)
(* training that was interrupted is the training that was not, except that *)
(* a step may be that of a build that was overtaken by another name.       *)
(*                                                                         *)
(* The directory of the long videos, for any worlds, builders, faults and  *)
(* deaths: what is current was audited, and what was current stays.  The   *)
(* search for distractors, for any lengths, bounds and ranking: it makes   *)
(* the choice that a search without pruning would come to first.  The      *)
(* examples made of it are accepted by their consumer.                     *)
(***************************************************************************)
EXTENDS SeedSweep, LongRoutePublication, FiniteSetTheorems, SequenceTheorems, WellFoundedInduction, TLAPS

-----------------------------------------------------------------------------
\* The search for distractors.

\* Any family of finite sets has one that holds no other.
LEMMA LeastOfSets ==
  ASSUME NEW B, B # {}, \A S \in B : IsFiniteSet(S)
  PROVE  \E S \in B : \A T \in B : T \subseteq S => T = S
<1> DEFINE U == UNION B
<1>1. IsWellFoundedOn(StrictSubsetOrdering(U), FiniteSubsetsOf(U))
  BY FS_StrictSubsetOrderingWellFounded
<1>2. B \subseteq FiniteSubsetsOf(U)
  BY DEF FiniteSubsetsOf
<1>3. PICK S \in B : \A T \in B : ~(<<T, S>> \in StrictSubsetOrdering(U))
  BY <1>1, <1>2, WFMin
<1>4. \A T \in B : T \subseteq S => T = S
  BY <1>3 DEF StrictSubsetOrdering
<1> QED BY <1>4

LEMMA LeastOfNumbers ==
  ASSUME NEW S \in SUBSET Nat, S # {}
  PROVE  \E m \in S : \A n \in S : m <= n
<1>1. IsWellFoundedOn(OpToRel(<, Nat), Nat)
  BY NatLessThanWellFounded
<1>2. PICK m \in S : \A n \in S : ~(<<n, m>> \in OpToRel(<, Nat))
  BY <1>1, WFMin
<1>3. \A n \in S : ~(n < m)
  BY <1>2 DEF OpToRel
<1> QED BY <1>3

LEMMA LeastIsMin ==
  ASSUME NEW S \in SUBSET Nat, S # {}
  PROVE  Min(S) \in S /\ \A n \in S : Min(S) <= n
<1>1. PICK m \in S : \A n \in S : m <= n
  BY LeastOfNumbers
<1> QED BY <1>1 DEF Min

LEMMA GreatestIsMax ==
  ASSUME NEW S \in SUBSET Nat, S # {}, NEW b \in Nat, \A n \in S : n <= b
  PROVE  Max(S) \in S /\ \A n \in S : n <= Max(S)
<1> DEFINE R == {b - n : n \in S}
<1>1. R \in SUBSET Nat /\ R # {}
  <2>1. \A n \in S : n \in Nat /\ b - n \in Nat
    OBVIOUS
  <2> QED BY <2>1
<1>2. PICK m \in R : \A n \in R : m <= n
  BY <1>1, LeastOfNumbers
<1>3. PICK x \in S : m = b - x
  BY <1>2
<1>4. \A y \in S : x >= y
  <2> TAKE y \in S
  <2>1. b - x <= b - y
    BY <1>2, <1>3
  <2>2. x \in Nat /\ y \in Nat
    OBVIOUS
  <2> QED BY <2>1, <2>2
<1>5. Max(S) \in S /\ \A y \in S : Max(S) >= y
  BY <1>4 DEF Max
<1> QED BY <1>5

\* The sum of the lengths at the places of a set is folded one place at a time.
Weight(len, S) == MapThenSumSet(LAMBDA i : len[i], S)

One(S) == CHOOSE x \in S : TRUE

Adding(len, S, f) ==
    f = [s \in SUBSET S |-> IF s = {} THEN 0 ELSE len[One(s)] + f[s \ {One(s)}]]

LEMMA WeightIsFolded ==
  ASSUME NEW len, NEW S
  PROVE  Weight(len, S) = (CHOOSE f : Adding(len, S, f))[S]
BY DEF Weight, MapThenSumSet, MapThenFoldSet, Adding, One

LEMMA OneOfThem == \A S : S # {} => One(S) \in S
BY DEF One

LEMMA FoldsAgree ==
  ASSUME NEW len, NEW S, NEW T, IsFiniteSet(S), NEW f, NEW g,
         Adding(len, S, f), Adding(len, T, g)
  PROVE  \A X \in SUBSET (S \cap T) : f[X] = g[X]
<1> DEFINE Bad == {X \in SUBSET (S \cap T) : f[X] # g[X]}
<1>1. ASSUME Bad # {} PROVE FALSE
  <2>1. \A X \in Bad : IsFiniteSet(X)
    BY FS_Subset
  <2>2. PICK X \in Bad : \A Y \in Bad : Y \subseteq X => Y = X
    <3> HIDE DEF Bad
    <3> QED BY <1>1, <2>1, LeastOfSets
  <2>3. X \in SUBSET S /\ X \in SUBSET T
    OBVIOUS
  <2>4. f[X] = (IF X = {} THEN 0 ELSE len[One(X)] + f[X \ {One(X)}])
    BY <2>3 DEF Adding
  <2>5. g[X] = (IF X = {} THEN 0 ELSE len[One(X)] + g[X \ {One(X)}])
    BY <2>3 DEF Adding
  <2>6. CASE X = {}
    BY <2>4, <2>5, <2>6
  <2>7. CASE X # {}
    <3>1. X \ {One(X)} # X /\ X \ {One(X)} \subseteq X
      BY <2>7, OneOfThem
    <3>2. f[X \ {One(X)}] = g[X \ {One(X)}]
      BY <2>2, <3>1
    <3> QED BY <2>4, <2>5, <2>7, <3>2
  <2> QED BY <2>6, <2>7
<1> QED BY <1>1

LEMMA FoldsExist ==
  ASSUME NEW len, NEW S, IsFiniteSet(S)
  PROVE  \E f : Adding(len, S, f)
<1> DEFINE Bad == {X \in SUBSET S : ~\E f : Adding(len, X, f)}
<1>1. ASSUME Bad # {} PROVE FALSE
  <2>1. \A X \in Bad : IsFiniteSet(X)
    BY FS_Subset
  <2>2. PICK X \in Bad : \A Y \in Bad : Y \subseteq X => Y = X
    <3> HIDE DEF Bad
    <3> QED BY <1>1, <2>1, LeastOfSets
  <2> DEFINE w(s) == (CHOOSE f : Adding(len, s, f))[s]
             g == [s \in SUBSET X |-> IF s = {} THEN 0 ELSE len[One(s)] + w(s \ {One(s)})]
  <2>3. \A s \in SUBSET X : s # X => g[s] = w(s)
    <3> TAKE s \in SUBSET X
    <3> HAVE s # X
    <3>1. \E f : Adding(len, s, f)
      BY <2>2
    <3>2. PICK f : f = CHOOSE h : Adding(len, s, h)
      OBVIOUS
    <3>3. Adding(len, s, f)
      BY <3>1, <3>2
    <3>4. f[s] = IF s = {} THEN 0 ELSE len[One(s)] + f[s \ {One(s)}]
      BY <3>3 DEF Adding
    <3>5. CASE s = {}
      BY <3>2, <3>4, <3>5
    <3>6. CASE s # {}
      <4> DEFINE r == s \ {One(s)}
      <4>1. r \in SUBSET X /\ r # X /\ r \in SUBSET s
        OBVIOUS
      <4>2. \E h : Adding(len, r, h)
        BY <2>2, <4>1
      <4>3. PICK h : h = CHOOSE k : Adding(len, r, k)
        OBVIOUS
      <4>4. Adding(len, r, h)
        BY <4>2, <4>3
      <4>5. IsFiniteSet(r)
        BY <2>1, <4>1, FS_Subset
      <4>6. r \in SUBSET (r \cap s)
        BY <4>1
      <4>7. h[r] = f[r]
        <5> HIDE DEF r
        <5> QED BY <3>3, <4>4, <4>5, <4>6, FoldsAgree
      <4> QED BY <3>2, <3>4, <3>6, <4>3, <4>7
    <3> QED BY <3>5, <3>6
  <2>4. Adding(len, X, g)
    <3>1. \A s \in SUBSET X : s # {} => g[s \ {One(s)}] = w(s \ {One(s)})
      BY <2>3, OneOfThem
    <3>2. \A s \in SUBSET X : g[s] = IF s = {} THEN 0 ELSE len[One(s)] + g[s \ {One(s)}]
      <4> TAKE s \in SUBSET X
      <4>1. g[s] = IF s = {} THEN 0 ELSE len[One(s)] + w(s \ {One(s)})
        OBVIOUS
      <4> HIDE DEF g, w
      <4> QED BY <3>1, <4>1
    <3>3. g = [s \in SUBSET X |-> g[s]]
      OBVIOUS
    <3> HIDE DEF g
    <3>4. g = [s \in SUBSET X |-> IF s = {} THEN 0 ELSE len[One(s)] + g[s \ {One(s)}]]
      BY <3>2, <3>3
    <3> QED BY <3>4 DEF Adding
  <2>5. X \in SUBSET S /\ ~\E f : Adding(len, X, f)
    BY <2>2
  <2> HIDE DEF g
  <2> QED BY <2>4, <2>5
<1> QED BY <1>1

LEMMA WeightIsStepwise ==
  ASSUME NEW len, NEW S, IsFiniteSet(S)
  PROVE  /\ S = {} => Weight(len, S) = 0
         /\ S # {} => Weight(len, S) = len[One(S)] + Weight(len, S \ {One(S)})
<1>1. PICK f : f = CHOOSE h : Adding(len, S, h)
  OBVIOUS
<1>2. Adding(len, S, f)
  BY <1>1, FoldsExist
<1>3. f[S] = IF S = {} THEN 0 ELSE len[One(S)] + f[S \ {One(S)}]
  BY <1>2 DEF Adding
<1>4. Weight(len, S) = f[S]
  BY <1>1, WeightIsFolded
<1>5. ASSUME S # {} PROVE f[S \ {One(S)}] = Weight(len, S \ {One(S)})
  <2> DEFINE r == S \ {One(S)}
  <2>1. IsFiniteSet(r) /\ r \in SUBSET (r \cap S)
    BY FS_Subset
  <2> HIDE DEF r
  <2>2. PICK h : h = CHOOSE k : Adding(len, r, k)
    OBVIOUS
  <2>3. Adding(len, r, h)
    BY <2>1, <2>2, FoldsExist
  <2>4. h[r] = f[r]
    BY <1>2, <2>1, <2>3, FoldsAgree
  <2>5. Weight(len, r) = h[r]
    BY <2>2, WeightIsFolded
  <2> QED BY <2>4, <2>5 DEF r
<1> QED BY <1>3, <1>4, <1>5

LEMMA WeightsAreNumbers ==
  ASSUME NEW len, NEW S, IsFiniteSet(S), \A i \in S : len[i] \in Nat
  PROVE  Weight(len, S) \in Nat
<1> DEFINE Bad == {X \in SUBSET S : Weight(len, X) \notin Nat}
<1>1. ASSUME Bad # {} PROVE FALSE
  <2>1. \A X \in Bad : IsFiniteSet(X)
    BY FS_Subset
  <2>2. PICK X \in Bad : \A Y \in Bad : Y \subseteq X => Y = X
    <3> HIDE DEF Bad
    <3> QED BY <1>1, <2>1, LeastOfSets
  <2>3. X # {}
    <3>1. X = {} => Weight(len, X) = 0
      BY <2>1, WeightIsStepwise
    <3>2. Weight(len, X) \notin Nat
      BY <2>2
    <3> QED BY <3>1, <3>2
  <2>4. One(X) \in X /\ X \ {One(X)} # X
    BY <2>3, OneOfThem
  <2>5. Weight(len, X \ {One(X)}) \in Nat
    BY <2>2, <2>4
  <2>6. Weight(len, X) = len[One(X)] + Weight(len, X \ {One(X)})
    BY <2>1, <2>3, WeightIsStepwise
  <2> QED BY <2>4, <2>5, <2>6
<1> QED BY <1>1

\* The order in which the fold takes the places is of no account.
LEMMA WeightAddsOne ==
  ASSUME NEW len, NEW S, IsFiniteSet(S), \A i \in S : len[i] \in Nat
  PROVE  \A i \in S : Weight(len, S) = len[i] + Weight(len, S \ {i})
<1> DEFINE P(X) == \A i \in X : Weight(len, X) = len[i] + Weight(len, X \ {i})
           Bad == {X \in SUBSET S : ~P(X)}
<1>1. ASSUME Bad # {} PROVE FALSE
  <2>1. \A X \in Bad : IsFiniteSet(X)
    BY FS_Subset
  <2>2. PICK X \in Bad : \A Y \in Bad : Y \subseteq X => Y = X
    <3> HIDE DEF Bad
    <3> QED BY <1>1, <2>1, LeastOfSets
  <2>3. PICK i \in X : Weight(len, X) # len[i] + Weight(len, X \ {i})
    BY <2>2
  <2> DEFINE o == One(X)
  <2>4. o \in X /\ Weight(len, X) = len[o] + Weight(len, X \ {o})
    BY <2>1, <2>3, OneOfThem, WeightIsStepwise
  <2>5. o # i
    BY <2>3, <2>4
  <2>6. \A Y \in SUBSET X : Y # X => P(Y)
    BY <2>2
  <2>7. Weight(len, X \ {o}) = len[i] + Weight(len, (X \ {o}) \ {i})
    <3>1. X \ {o} \in SUBSET X /\ X \ {o} # X /\ i \in X \ {o}
      BY <2>4, <2>5
    <3> QED BY <2>6, <3>1
  <2>8. Weight(len, X \ {i}) = len[o] + Weight(len, (X \ {i}) \ {o})
    <3>1. X \ {i} \in SUBSET X /\ X \ {i} # X /\ o \in X \ {i}
      BY <2>4, <2>5
    <3> QED BY <2>6, <3>1
  <2>9. (X \ {i}) \ {o} = (X \ {o}) \ {i}
    OBVIOUS
  <2>10. Weight(len, (X \ {o}) \ {i}) \in Nat /\ len[o] \in Nat /\ len[i] \in Nat
    <3>1. (X \ {o}) \ {i} \in SUBSET S /\ o \in S /\ i \in S
      BY <2>4
    <3>2. IsFiniteSet((X \ {o}) \ {i})
      BY <3>1, FS_Subset
    <3> QED BY <3>1, <3>2, WeightsAreNumbers
  <2>11. \A a, b, c \in Nat : a + (b + c) = b + (a + c)
    OBVIOUS
  <2> HIDE DEF o, P
  <2> QED BY <2>3, <2>4, <2>7, <2>8, <2>9, <2>10, <2>11
<1> QED BY <1>1

LEMMA WeightOfUnion ==
  ASSUME NEW len, NEW S, NEW T, IsFiniteSet(S), IsFiniteSet(T), S \cap T = {},
         \A i \in S \cup T : len[i] \in Nat
  PROVE  Weight(len, S \cup T) = Weight(len, S) + Weight(len, T)
<1> DEFINE Bad == {X \in SUBSET T : Weight(len, S \cup X) # Weight(len, S) + Weight(len, X)}
<1>1. ASSUME Bad # {} PROVE FALSE
  <2>1. \A X \in Bad : IsFiniteSet(X)
    BY FS_Subset
  <2>2. PICK X \in Bad : \A Y \in Bad : Y \subseteq X => Y = X
    <3> HIDE DEF Bad
    <3> QED BY <1>1, <2>1, LeastOfSets
  <2>3. /\ Weight(len, S) \in Nat
        /\ \A Y \in SUBSET T : /\ IsFiniteSet(Y) /\ IsFiniteSet(S \cup Y)
                               /\ \A i \in S \cup Y : len[i] \in Nat
                               /\ Weight(len, Y) \in Nat
    BY FS_Subset, FS_Union, WeightsAreNumbers
  <2>4. X # {}
    <3>1. ASSUME X = {} PROVE FALSE
      <4>1. S \cup X = S /\ Weight(len, X) = 0
        BY <2>1, <3>1, WeightIsStepwise
      <4>2. Weight(len, S \cup X) = Weight(len, S) + Weight(len, X)
        BY <2>3, <4>1
      <4> QED BY <2>2, <4>2
    <3> QED BY <3>1
  <2>5. PICK i \in X : TRUE
    BY <2>4
  <2>6. X \ {i} \in SUBSET T /\ X \ {i} # X /\ i \notin S
    OBVIOUS
  <2>7. Weight(len, S \cup (X \ {i})) = Weight(len, S) + Weight(len, X \ {i})
    BY <2>2, <2>6
  <2>8. Weight(len, X) = len[i] + Weight(len, X \ {i})
    BY <2>3, WeightAddsOne
  <2>9. Weight(len, S \cup X) = len[i] + Weight(len, S \cup (X \ {i}))
    <3>1. (S \cup X) \ {i} = S \cup (X \ {i})
      BY <2>6
    <3>2. X \in SUBSET T /\ i \in S \cup X
      OBVIOUS
    <3>3. IsFiniteSet(S \cup X) /\ \A j \in S \cup X : len[j] \in Nat
      BY <2>3, <3>2
    <3>4. Weight(len, S \cup X) = len[i] + Weight(len, (S \cup X) \ {i})
      BY <3>2, <3>3, WeightAddsOne
    <3> QED BY <3>1, <3>4
  <2>10. Weight(len, S) \in Nat /\ Weight(len, X \ {i}) \in Nat /\ len[i] \in Nat
    BY <2>3, <2>6
  <2>11. Weight(len, S \cup X) = Weight(len, S) + Weight(len, X)
    BY <2>7, <2>8, <2>9, <2>10
  <2> QED BY <2>2, <2>11
<1>2. T \notin Bad
  BY <1>1
<1> QED BY <1>2

LEMMA WeightGrows ==
  ASSUME NEW len, NEW T, IsFiniteSet(T), NEW S \in SUBSET T, \A i \in T : len[i] \in Nat
  PROVE  /\ Weight(len, S) \in Nat /\ Weight(len, T \ S) \in Nat /\ Weight(len, T) \in Nat
         /\ Weight(len, T) = Weight(len, S) + Weight(len, T \ S)
         /\ Weight(len, S) <= Weight(len, T)
<1>1. IsFiniteSet(S) /\ IsFiniteSet(T \ S) /\ S \cup (T \ S) = T /\ S \cap (T \ S) = {}
  BY FS_Subset
<1>2. Weight(len, S \cup (T \ S)) = Weight(len, S) + Weight(len, T \ S)
  BY <1>1, WeightOfUnion
<1>3. Weight(len, S) \in Nat /\ Weight(len, T \ S) \in Nat
  BY <1>1, WeightsAreNumbers
<1>4. Weight(len, T) = Weight(len, S) + Weight(len, T \ S)
  BY <1>1, <1>2
<1> QED BY <1>3, <1>4

\* A finite set has subsets of each size up to its own.
LEMMA SubsetsOfEachSize ==
  ASSUME NEW S, IsFiniteSet(S), NEW k \in Nat, k <= Cardinality(S)
  PROVE  \E X \in SUBSET S : Cardinality(X) = k
<1> DEFINE B == {X \in SUBSET S : Cardinality(X) >= k}
<1>1. S \in B /\ \A X \in B : IsFiniteSet(X)
  BY FS_Subset, FS_CardinalityType
<1>2. PICK X \in B : \A Y \in B : Y \subseteq X => Y = X
  <2> HIDE DEF B
  <2> QED BY <1>1, LeastOfSets
<1>3. IsFiniteSet(X) /\ Cardinality(X) \in Nat /\ Cardinality(X) >= k
  BY <1>1, <1>2, FS_CardinalityType
<1>4. ASSUME Cardinality(X) > k PROVE FALSE
  <2>1. X # {}
    BY <1>4, FS_EmptySet
  <2>2. PICK i \in X : TRUE
    BY <2>1
  <2>3. Cardinality(X \ {i}) = Cardinality(X) - 1
    BY <1>3, FS_RemoveElement
  <2>4. X \ {i} \in B
    BY <1>3, <1>4, <2>3
  <2> QED BY <1>2, <2>4
<1> QED BY <1>3, <1>4

LEMMA SetsOfEachSize ==
  ASSUME NEW S, IsFiniteSet(S), NEW T \in SUBSET S, NEW k \in Nat,
         Cardinality(T) <= k, k <= Cardinality(S)
  PROVE  \E X \in SUBSET S : T \subseteq X /\ Cardinality(X) = k
<1>1. IsFiniteSet(T) /\ Cardinality(T) \in Nat /\ Cardinality(S) \in Nat
  BY FS_Subset, FS_CardinalityType
<1>2. IsFiniteSet(S \ T) /\ Cardinality(S \ T) = Cardinality(S) - Cardinality(T)
  <2>1. S \cap T = T
    OBVIOUS
  <2> QED BY <2>1, FS_Difference
<1>3. PICK Y \in SUBSET (S \ T) : Cardinality(Y) = k - Cardinality(T)
  <2>1. k - Cardinality(T) \in Nat /\ k - Cardinality(T) <= Cardinality(S \ T)
    BY <1>1, <1>2
  <2> QED BY <1>2, <2>1, SubsetsOfEachSize
<1>4. IsFiniteSet(Y) /\ T \cap Y = {}
  BY <1>2, FS_Subset
<1>5. Cardinality(T \cup Y) = Cardinality(T) + Cardinality(Y) - 0
  <2>1. Cardinality(T \cap Y) = 0
    BY <1>4, FS_EmptySet
  <2> QED BY <1>1, <1>4, <2>1, FS_Union
<1>6. T \cup Y \in SUBSET S /\ Cardinality(T \cup Y) = k
  BY <1>1, <1>3, <1>5
<1> QED BY <1>6

\* The lengths of the candidates at some places of a ranking.
Measured(len) ==
    /\ IsFiniteSet(DOMAIN len) /\ DOMAIN len \subseteq Nat \ {0}
    /\ \A i \in DOMAIN len : len[i] \in Nat

Good(len, own) == {S \in SUBSET DOMAIN len : Acceptable(len, own, S)}

LEMMA BoundsAreNumbers ==
  /\ MinDistractors \in Nat /\ MaxDistractors \in Nat
  /\ MinDuration \in Nat /\ MaxDuration \in Nat
BY LongRouteAssumption DEF LongRouteAssumption

LEMMA OfTwo ==
  ASSUME NEW a \in Int, NEW b \in Int
  PROVE  /\ Max({a, b}) = (IF a >= b THEN a ELSE b)
         /\ Min({a, b}) = (IF a <= b THEN a ELSE b)
BY DEF Max, Min

LEMMA AcceptableChoices ==
  ASSUME NEW len, NEW own, NEW S
  PROVE  Acceptable(len, own, S) <=>
           /\ Cardinality(S) \in MinDistractors..MaxDistractors
           /\ own + Weight(len, S) \in MinDuration..MaxDuration
BY DEF Acceptable, Total, Weight

\* The sums of some distractors of the rest are numbers, none greater than the sum of all.
LEMMA SumsAreBounded ==
  ASSUME NEW len, Measured(len), NEW rest \in SUBSET DOMAIN len, NEW k,
         NEW X \in SUBSET rest, Cardinality(X) = k
  PROVE  Min(Sums(len, rest, k)) <= Weight(len, X) /\ Weight(len, X) <= Max(Sums(len, rest, k))
         /\ Min(Sums(len, rest, k)) \in Nat /\ Max(Sums(len, rest, k)) \in Nat
<1> DEFINE F == Sums(len, rest, k)
<1>1. F = {Weight(len, T) : T \in {Y \in SUBSET rest : Cardinality(Y) = k}}
  BY DEF Sums, Weight, kSubset
<1>2. IsFiniteSet(rest) /\ \A i \in rest : len[i] \in Nat
  BY FS_Subset DEF Measured
<1>3. \A T \in SUBSET rest : Weight(len, T) \in Nat /\ Weight(len, T) <= Weight(len, rest)
  BY <1>2, WeightGrows
<1>4. F \in SUBSET Nat /\ \A n \in F : n <= Weight(len, rest)
  BY <1>1, <1>3
<1>5. Weight(len, X) \in F
  BY <1>1
<1>6. Weight(len, rest) \in Nat
  BY <1>2, WeightsAreNumbers
<1> HIDE DEF F
<1>7. Min(F) \in F /\ \A n \in F : Min(F) <= n
  BY <1>4, <1>5, LeastIsMin
<1>8. Max(F) \in F /\ \A n \in F : n <= Max(F)
  BY <1>4, <1>5, <1>6, GreatestIsMax
<1> QED BY <1>4, <1>5, <1>7, <1>8 DEF F

\* Nothing acceptable is lost where the search stops.
LEMMA HopelessIsRight ==
  ASSUME NEW len, Measured(len), NEW own \in Nat,
         NEW rest \in SUBSET DOMAIN len, NEW S \in SUBSET DOMAIN len, rest \cap S = {},
         ~Acceptable(len, own, S), Hopeless(len, own, rest, S),
         NEW T, S \subseteq T, T \subseteq S \cup rest
  PROVE  ~Acceptable(len, own, T)
<1> SUFFICES ASSUME Acceptable(len, own, T) PROVE FALSE
  OBVIOUS
<1> USE BoundsAreNumbers
<1> DEFINE R == T \ S
<1>1. R \in SUBSET rest /\ S \cup R = T /\ S \cap R = {} /\ R # {}
  <2>1. T # S
    OBVIOUS
  <2> QED BY <2>1
<1>2. /\ IsFiniteSet(S) /\ IsFiniteSet(R) /\ IsFiniteSet(rest) /\ IsFiniteSet(T)
      /\ \A i \in T : len[i] \in Nat
  <2>1. T \in SUBSET DOMAIN len /\ R \in SUBSET DOMAIN len
    BY <1>1
  <2> HIDE DEF R
  <2> QED BY <2>1, FS_Subset DEF Measured
<1> DEFINE s == Cardinality(S)
           r == Cardinality(R)
           n == Cardinality(rest)
           u == Weight(len, S)
           v == Weight(len, R)
<1> HIDE DEF R
<1>3. s \in Nat /\ r \in Nat /\ n \in Nat /\ r <= n /\ r > 0
  <2>1. r # 0
    BY <1>1, <1>2, FS_EmptySet
  <2> QED BY <1>1, <1>2, <2>1, FS_CardinalityType, FS_Subset
<1>4. Cardinality(T) = s + r
  <2>1. Cardinality(S \cap R) = 0
    BY <1>1, FS_EmptySet
  <2>2. Cardinality(S \cup R) = s + r - Cardinality(S \cap R)
    BY <1>2, FS_Union
  <2> HIDE DEF s, r
  <2> QED BY <1>1, <1>3, <2>1, <2>2
<1>5. u \in Nat /\ v \in Nat /\ Weight(len, T) = u + v
  <2>1. S \in SUBSET T /\ T \ S = R
    BY DEF R
  <2>2. /\ Weight(len, S) \in Nat /\ Weight(len, T \ S) \in Nat /\ Weight(len, T) \in Nat
        /\ Weight(len, T) = Weight(len, S) + Weight(len, T \ S)
        /\ Weight(len, S) <= Weight(len, T)
    <3>1. IsFiniteSet(T) /\ \A i \in T : len[i] \in Nat
      BY <1>2
    <3> QED BY <2>1, <3>1, WeightGrows, Zenon
  <2> HIDE DEF R
  <2>3. u \in Nat /\ v \in Nat
    BY <2>1, <2>2
  <2>4. Weight(len, T) = u + v
    BY <2>1, <2>2
  <2> QED BY <2>3, <2>4
<1>6. s + r \in MinDistractors..MaxDistractors /\ own + (u + v) \in MinDuration..MaxDuration
  BY <1>4, <1>5, AcceptableChoices
<1>7. Needed(S) = (IF MinDistractors - s <= 0 THEN 0 ELSE MinDistractors - s)
  <2>1. MinDistractors - s \in Int
    BY <1>3
  <2>2. Max({0, MinDistractors - s}) = (IF 0 >= MinDistractors - s THEN 0 ELSE MinDistractors - s)
    BY <2>1, OfTwo
  <2> HIDE DEF s
  <2> QED BY <1>3, <2>2 DEF Needed, s
<1>8. Slots(rest, S) = (IF MaxDistractors - s <= n THEN MaxDistractors - s ELSE n)
  <2>1. MaxDistractors - s \in Int /\ n \in Int
    BY <1>3
  <2>2. Min({MaxDistractors - s, n}) = (IF MaxDistractors - s <= n THEN MaxDistractors - s ELSE n)
    <3> HIDE DEF s, n
    <3> QED BY <2>1, OfTwo
  <2> QED BY <2>2 DEF Slots
<1>9. Total(len, own, S) = own + u
  BY DEF Total, Weight
<1> DEFINE needed == Needed(S)
           slots == Slots(rest, S)
<1>10. needed \in Nat /\ needed <= r /\ needed <= n
  <2> HIDE DEF s, r, n
  <2> QED BY <1>3, <1>6, <1>7
<1>11. slots \in Nat /\ r <= slots /\ slots <= n
  <2> HIDE DEF s, r, n
  <2> QED BY <1>3, <1>6, <1>8
<1>12. ~(needed > 0 /\ own + u + Min(Sums(len, rest, needed)) > MaxDuration)
  <2>1. PICK X \in SUBSET R : Cardinality(X) = needed
    BY <1>2, <1>10, SubsetsOfEachSize
  <2>2. X \in SUBSET rest
    BY <1>1
  <2>3. Min(Sums(len, rest, needed)) <= Weight(len, X) /\ Min(Sums(len, rest, needed)) \in Nat
    <3> HIDE DEF needed
    <3> QED BY <2>1, <2>2, SumsAreBounded
  <2>4. Weight(len, X) \in Nat /\ Weight(len, X) <= v
    <3>1. \A i \in R : len[i] \in Nat
      BY <1>1, <1>2
    <3> QED BY <1>2, <3>1, WeightGrows
  <2> DEFINE m == Min(Sums(len, rest, needed))
             x == Weight(len, X)
  <2> HIDE DEF m, x, u, v
  <2>5. m <= x /\ m \in Nat /\ x \in Nat /\ x <= v
    BY <2>3, <2>4 DEF m, x
  <2>6. ~(own + u + m > MaxDuration)
    BY <1>5, <1>6, <2>5
  <2> QED BY <2>6 DEF m
<1>13. ~(own + u + Max(Sums(len, rest, slots)) < MinDuration)
  <2>1. PICK X \in SUBSET rest : R \subseteq X /\ Cardinality(X) = slots
    BY <1>1, <1>2, <1>11, SetsOfEachSize
  <2>2. Weight(len, X) <= Max(Sums(len, rest, slots)) /\ Max(Sums(len, rest, slots)) \in Nat
    <3> HIDE DEF slots
    <3> QED BY <2>1, SumsAreBounded
  <2>3. Weight(len, X) \in Nat /\ v <= Weight(len, X)
    <3>1. \A i \in X : len[i] \in Nat
      BY DEF Measured
    <3>2. IsFiniteSet(X) /\ R \in SUBSET X
      BY <1>2, <2>1, FS_Subset
    <3> QED BY <3>1, <3>2, WeightGrows
  <2> DEFINE m == Max(Sums(len, rest, slots))
             x == Weight(len, X)
  <2> HIDE DEF m, x, u, v
  <2>4. x <= m /\ m \in Nat /\ x \in Nat /\ v <= x
    BY <2>2, <2>3 DEF m, x
  <2>5. ~(own + u + m < MinDuration)
    BY <1>5, <1>6, <2>4
  <2> QED BY <2>5 DEF m
<1>14. ~Misses(len, rest, own + u, needed, slots)
  <2> HIDE DEF needed, slots, u
  <2> QED BY <1>12, <1>13 DEF Misses
<1>15. rest # {} /\ s # MaxDistractors /\ ~(n < needed)
  <2>1. rest # {}
    BY <1>1
  <2> HIDE DEF s, r, n, needed
  <2> QED BY <2>1, <1>3, <1>6, <1>10
<1> QED BY <1>9, <1>14, <1>15 DEF Hopeless

\* Of two choices only one is first, and one that takes a place is before one that goes on
\* without it.
LEMMA OneOfThemIsFirst ==
  ASSUME NEW S \in SUBSET Nat, NEW T \in SUBSET Nat, IsFirst(S, T), IsFirst(T, S)
  PROVE  S = T
<1> DEFINE D == (S \cup T) \ (S \cap T)
           E == (T \cup S) \ (T \cap S)
<1>1. D = E
  OBVIOUS
<1>2. ASSUME D # {} PROVE FALSE
  <2>1. Min(D) \in D
    BY <1>2, LeastIsMin
  <2>2. ~(Min(D) \in S /\ Min(D) \in T)
    BY <2>1
  <2>3. ~(S \subseteq T /\ T \subseteq S)
    BY <1>2
  <2>4. \/ S \subseteq T /\ \A i \in S, j \in T \ S : i < j
        \/ Min(D) \in S /\ ~(T \subseteq S /\ \A i \in T, j \in S \ T : i < j)
    BY <1>2 DEF IsFirst
  <2>5. \/ T \subseteq S /\ \A i \in T, j \in S \ T : i < j
        \/ Min(E) \in T /\ ~(S \subseteq T /\ \A i \in S, j \in T \ S : i < j)
    BY <1>1, <1>2 DEF IsFirst
  <2> HIDE DEF D, E
  <2> QED BY <1>1, <2>2, <2>3, <2>4, <2>5
<1> QED BY <1>2

LEMMA TakenComesFirst ==
  ASSUME NEW S \in SUBSET Nat, NEW T \in SUBSET Nat, NEW i \in S, i \notin T,
         \A j \in Nat : j < i => (j \in S <=> j \in T), NEW t \in T, i < t
  PROVE  IsFirst(S, T)
<1> DEFINE D == (S \cup T) \ (S \cap T)
<1>1. i \in D /\ D \in SUBSET Nat /\ \A j \in D : ~(j < i)
  OBVIOUS
<1>2. Min(D) \in D /\ Min(D) <= i
  <2> HIDE DEF D
  <2> QED BY <1>1, LeastIsMin
<1>3. Min(D) = i
  <2> HIDE DEF D
  <2>1. Min(D) \in Nat /\ i \in Nat /\ ~(Min(D) < i)
    BY <1>1, <1>2
  <2> QED BY <1>2, <2>1
<1>4. ~(T \subseteq S /\ \A a \in T, b \in S \ T : a < b)
  <2>1. ~(t < i)
    OBVIOUS
  <2> QED BY <2>1
<1> QED BY <1>3, <1>4 DEF IsFirst

\* What the search does with the places that are left, from what it does with fewer.
Row(len, own, from, rest) ==
    [S \in SUBSET DOMAIN len |->
          IF Acceptable(len, own, S) THEN S
          ELSE IF Hopeless(len, own, rest, S) THEN NoChoice
          ELSE LET i     == Min(rest)
                   taken == IF Total(len, own, S \cup {i}) <= MaxDuration
                            THEN from[rest \ {i}][S \cup {i}] ELSE NoChoice
               IN IF taken # NoChoice THEN taken ELSE from[rest \ {i}][S]]

Searching(len, own, from) == from = [rest \in SUBSET DOMAIN len |-> Row(len, own, from, rest)]

LEMMA RowsRestOnFewer ==
  ASSUME NEW len, NEW own, NEW f, NEW g, NEW rest,
         rest # {} => f[rest \ {Min(rest)}] = g[rest \ {Min(rest)}]
  PROVE  Row(len, own, f, rest) = Row(len, own, g, rest)
<1>1. CASE rest = {}
  <2>1. \A S : Hopeless(len, own, rest, S)
    BY <1>1 DEF Hopeless
  <2> QED BY <2>1 DEF Row
<1>2. CASE rest # {}
  BY <1>2 DEF Row
<1> QED BY <1>1, <1>2

LEMMA SearchesExist ==
  ASSUME NEW len, Measured(len), NEW own
  PROVE  \E from : Searching(len, own, from)
<1> DEFINE Few(k) == {rest \in SUBSET DOMAIN len : Cardinality(rest) <= k}
           P(k, f) == f = [rest \in Few(k) |-> Row(len, own, f, rest)]
           Bad == {k \in Nat : ~\E f : P(k, f)}
<1>1. \A rest \in SUBSET DOMAIN len :
        /\ IsFiniteSet(rest) /\ Cardinality(rest) \in Nat
        /\ rest # {} => /\ Min(rest) \in rest
                        /\ Cardinality(rest \ {Min(rest)}) = Cardinality(rest) - 1
  <2> TAKE rest \in SUBSET DOMAIN len
  <2>1. IsFiniteSet(rest) /\ rest \in SUBSET Nat
    BY FS_Subset DEF Measured
  <2>2. rest # {} => Min(rest) \in rest
    BY <2>1, LeastIsMin
  <2> QED BY <2>1, <2>2, FS_CardinalityType, FS_RemoveElement
<1>2. \A k \in Nat : \A f : P(k, f) => \E g : P(k + 1, g)
  <2> SUFFICES ASSUME NEW k \in Nat, NEW f, P(k, f) PROVE \E g : P(k + 1, g)
    OBVIOUS
  <2> DEFINE g == [rest \in Few(k + 1) |-> Row(len, own, f, rest)]
  <2>1. \A rest \in Few(k) : g[rest] = f[rest]
    <3> TAKE rest \in Few(k)
    <3>1. rest \in SUBSET DOMAIN len /\ Cardinality(rest) <= k
      OBVIOUS
    <3>2. Cardinality(rest) \in Nat
      <4> HIDE DEF Few, P
      <4> QED BY <1>1, <3>1
    <3>3. Cardinality(rest) <= k + 1
      BY <3>1, <3>2
    <3>4. rest \in Few(k + 1)
      BY <3>1, <3>3
    <3>5. f[rest] = Row(len, own, f, rest)
      <4>1. f = [r \in Few(k) |-> Row(len, own, f, r)]
        OBVIOUS
      <4> HIDE DEF Few, P
      <4> QED BY <4>1
    <3> HIDE DEF Few, P
    <3> QED BY <3>4, <3>5
  <2>2. \A rest \in Few(k + 1) : Row(len, own, f, rest) = Row(len, own, g, rest)
    <3> TAKE rest \in Few(k + 1)
    <3>1. rest # {} => rest \ {Min(rest)} \in Few(k)
      <4>1. rest # {} => Cardinality(rest \ {Min(rest)}) <= k
        BY <1>1
      <4> QED BY <4>1
    <3>2. rest # {} => f[rest \ {Min(rest)}] = g[rest \ {Min(rest)}]
      BY <2>1, <3>1
    <3> HIDE DEF g, Few, P
    <3> QED BY <3>2, RowsRestOnFewer, Zenon
  <2>3. g = [rest \in Few(k + 1) |-> Row(len, own, g, rest)]
    <3>1. g = [rest \in Few(k + 1) |-> Row(len, own, f, rest)]
      OBVIOUS
    <3> HIDE DEF g, Few
    <3> QED BY <2>2, <3>1
  <2> HIDE DEF g
  <2> QED BY <2>3
<1>3. \E f : P(0, f)
  <2> DEFINE f == [rest \in Few(0) |-> Row(len, own, len, rest)]
  <2>1. \A rest \in Few(0) : rest = {}
    <3> TAKE rest \in Few(0)
    <3>1. rest \in SUBSET DOMAIN len /\ Cardinality(rest) <= 0
      OBVIOUS
    <3>2. IsFiniteSet(rest) /\ Cardinality(rest) \in Nat
      <4> HIDE DEF f, Few
      <4> QED BY <1>1, <3>1
    <3>3. Cardinality(rest) = 0
      BY <3>1, <3>2
    <3> QED BY <3>2, <3>3, FS_EmptySet
  <2>2. \A rest \in Few(0) : Row(len, own, len, rest) = Row(len, own, f, rest)
    BY <2>1, RowsRestOnFewer
  <2>3. f = [rest \in Few(0) |-> Row(len, own, f, rest)]
    <3>1. f = [rest \in Few(0) |-> Row(len, own, len, rest)]
      OBVIOUS
    <3> HIDE DEF f, Few
    <3> QED BY <2>2, <3>1
  <2> HIDE DEF f
  <2> QED BY <2>3
<1>4. ASSUME Bad # {} PROVE FALSE
  <2>1. PICK k \in Bad : \A j \in Bad : k <= j
    <3>1. Bad \in SUBSET Nat
      OBVIOUS
    <3> HIDE DEF Bad
    <3> QED BY <1>4, <3>1, LeastOfNumbers
  <2>2. k \in Nat /\ ~\E f : P(k, f)
    BY <2>1
  <2>3. k # 0
    BY <1>3, <2>2
  <2>4. k - 1 \in Nat /\ k - 1 \notin Bad
    <3> HIDE DEF Bad
    <3> QED BY <2>1, <2>2, <2>3
  <2>5. PICK f : P(k - 1, f)
    BY <2>4
  <2>6. \E g : P((k - 1) + 1, g)
    <3> HIDE DEF P
    <3> QED BY <1>2, <2>4, <2>5
  <2>7. (k - 1) + 1 = k
    BY <2>2
  <2> HIDE DEF P
  <2> QED BY <2>2, <2>6, <2>7
<1> DEFINE n == Cardinality(DOMAIN len)
<1>5. n \in Nat /\ Few(n) = SUBSET DOMAIN len
  <2>1. IsFiniteSet(DOMAIN len)
    BY DEF Measured
  <2> QED BY <2>1, FS_CardinalityType, FS_Subset
<1>6. PICK f : P(n, f)
  BY <1>4, <1>5
<1>7. Searching(len, own, f)
  <2> HIDE DEF n, Few
  <2> QED BY <1>5, <1>6 DEF Searching
<1> QED BY <1>7

LEMMA SearchIsOfAll ==
  ASSUME NEW len, Measured(len), NEW own
  PROVE  \E from : Searching(len, own, from) /\ Search(len, own) = from[DOMAIN len][{}]
<1>1. PICK from : from = CHOOSE f : Searching(len, own, f)
  OBVIOUS
<1>2. Searching(len, own, from)
  BY <1>1, SearchesExist
<1>3. Search(len, own) = from[DOMAIN len][{}]
  BY <1>1 DEF Search, Searching, Row
<1> QED BY <1>2, <1>3

\* The acceptable choices that a search may still come to.
Completions(len, own, rest, S) == {T \in Good(len, own) : S \subseteq T /\ T \subseteq S \cup rest}

FirstOf(x, C) == IF C = {} THEN x = NoChoice ELSE x \in C /\ \A T \in C : IsFirst(x, T)

\* The search goes through the ranking: all it has taken is before all that is left.
AllBefore(rest, S) == \A i \in S, j \in rest : i < j

LEMMA NoChoiceIsNotGood ==
  ASSUME NEW len, Measured(len), NEW own
  PROVE  NoChoice \notin Good(len, own)
BY DEF Measured, Good, NoChoice

LEMMA SearchIsRight ==
  ASSUME NEW len, Measured(len), NEW own \in Nat, NEW from, Searching(len, own, from)
  PROVE  \A rest, S \in SUBSET DOMAIN len :
           AllBefore(rest, S) => FirstOf(from[rest][S], Completions(len, own, rest, S))
<1> DEFINE K == DOMAIN len
           C(rest, S) == Completions(len, own, rest, S)
           P(rest) == \A S \in SUBSET K : AllBefore(rest, S) => FirstOf(from[rest][S], C(rest, S))
           Bad == {rest \in SUBSET K : ~P(rest)}
<1>1. \A rest \in SUBSET K, S \in SUBSET K :
        from[rest][S] =
          IF Acceptable(len, own, S) THEN S
          ELSE IF Hopeless(len, own, rest, S) THEN NoChoice
          ELSE LET i     == Min(rest)
                   taken == IF Total(len, own, S \cup {i}) <= MaxDuration
                            THEN from[rest \ {i}][S \cup {i}] ELSE NoChoice
               IN IF taken # NoChoice THEN taken ELSE from[rest \ {i}][S]
  BY DEF Searching, Row
<1>2. K \in SUBSET Nat /\ IsFiniteSet(K) /\ \A i \in K : len[i] \in Nat
  BY DEF Measured
<1>3. ASSUME Bad # {} PROVE FALSE
  <2>1. \A rest \in Bad : IsFiniteSet(rest)
    BY <1>2, FS_Subset
  <2>2. PICK rest \in Bad : \A r \in Bad : r \subseteq rest => r = rest
    <3> HIDE DEF Bad
    <3> QED BY <1>3, <2>1, LeastOfSets
  <2>3. PICK S \in SUBSET K : AllBefore(rest, S) /\ ~FirstOf(from[rest][S], C(rest, S))
    BY <2>2
  <2>4. rest \in SUBSET K /\ rest \in SUBSET Nat /\ S \in SUBSET Nat
    BY <1>2
  <2>5. \A r \in SUBSET K : r \subseteq rest /\ r # rest => P(r)
    BY <2>2
  <2>6. \A i \in S, j \in rest : i < j
    BY <2>3 DEF AllBefore
  <2>7. rest \cap S = {}
    <3>1. \A i \in rest \cap S : i \in Nat /\ i < i
      BY <2>4, <2>6
    <3> QED BY <3>1
  <2> DEFINE x == from[rest][S]
  <2>8. CASE Acceptable(len, own, S)
    <3>1. x = S /\ S \in C(rest, S)
      BY <1>1, <2>4, <2>8 DEF Completions, Good
    <3>2. \A T \in C(rest, S) : IsFirst(S, T)
      <4> TAKE T \in C(rest, S)
      <4>1. S \subseteq T /\ T \ S \subseteq rest
        BY DEF Completions
      <4>2. \A i \in S, j \in T \ S : i < j
        BY <2>6, <4>1
      <4> QED BY <4>1, <4>2 DEF IsFirst
    <3> QED BY <2>3, <3>1, <3>2 DEF FirstOf
  <2>9. CASE ~Acceptable(len, own, S) /\ Hopeless(len, own, rest, S)
    <3>1. x = NoChoice
      BY <1>1, <2>4, <2>9
    <3>2. \A T : S \subseteq T /\ T \subseteq S \cup rest => ~Acceptable(len, own, T)
      BY <2>4, <2>7, <2>9, HopelessIsRight
    <3>3. C(rest, S) = {}
      BY <3>2 DEF Completions, Good
    <3> QED BY <2>3, <3>1, <3>3 DEF FirstOf
  <2>10. CASE ~Acceptable(len, own, S) /\ ~Hopeless(len, own, rest, S)
    <3> DEFINE i == Min(rest)
               left == rest \ {i}
               with == S \cup {i}
               y == from[left][with]
               z == from[left][S]
    <3>1. rest # {}
      BY <2>10 DEF Hopeless
    <3>2. i \in rest /\ \A j \in rest : i <= j
      BY <2>4, <3>1, LeastIsMin
    <3>3. left \in SUBSET K /\ left # rest /\ left \subseteq rest /\ with \in SUBSET K /\ i \notin S
      BY <2>4, <2>7, <3>2
    <3>4. \A j \in left : i < j
      <4> TAKE j \in left
      <4>1. i <= j /\ i # j /\ i \in Nat /\ j \in Nat
        BY <2>4, <3>2
      <4> HIDE DEF i
      <4> QED BY <4>1
    <3>5. AllBefore(left, S) /\ AllBefore(left, with)
      <4> HIDE DEF i
      <4> QED BY <2>6, <3>4 DEF AllBefore
    <3>6. P(left)
      BY <2>5, <3>3
    <3>7. FirstOf(y, C(left, with)) /\ FirstOf(z, C(left, S))
      <4> HIDE DEF left, with, C
      <4> QED BY <3>3, <3>5, <3>6
    <3> HIDE DEF i
    <3>8. C(rest, S) = C(left, with) \cup C(left, S)
      <4>1. \A T : (S \subseteq T /\ T \subseteq S \cup rest) <=>
                     \/ with \subseteq T /\ T \subseteq with \cup left
                     \/ S \subseteq T /\ T \subseteq S \cup left
        BY <3>2
      <4> HIDE DEF left, with
      <4> QED BY <4>1 DEF Completions
    <3>9. Total(len, own, with) > MaxDuration => C(left, with) = {}
      <4> SUFFICES ASSUME Total(len, own, with) > MaxDuration, NEW T \in C(left, with)
                   PROVE  FALSE
        OBVIOUS
      <4>1. T \in SUBSET K /\ Acceptable(len, own, T) /\ with \in SUBSET T
        BY DEF Completions, Good
      <4>2. IsFiniteSet(T) /\ \A j \in T : len[j] \in Nat
        BY <1>2, <4>1, FS_Subset
      <4> HIDE DEF with
      <4>3. /\ Weight(len, with) \in Nat /\ Weight(len, T) \in Nat
            /\ Weight(len, with) <= Weight(len, T)
        BY <4>1, <4>2, WeightGrows
      <4>4. own + Weight(len, T) \in MinDuration..MaxDuration
        BY <4>1, AcceptableChoices
      <4>5. Total(len, own, with) = own + Weight(len, with)
        BY DEF Total, Weight
      <4> QED BY <4>3, <4>4, <4>5, BoundsAreNumbers
    <3> DEFINE taken == IF Total(len, own, with) <= MaxDuration THEN y ELSE NoChoice
    <3>10. taken = y
      <4>1. Total(len, own, with) \in Nat
        <5>1. IsFiniteSet(with) /\ \A j \in with : len[j] \in Nat
          BY <1>2, <3>3, FS_Subset
        <5>2. Weight(len, with) \in Nat
          BY <5>1, WeightsAreNumbers
        <5> QED BY <5>2 DEF Total, Weight
      <4>2. CASE Total(len, own, with) <= MaxDuration
        BY <4>2
      <4>3. CASE Total(len, own, with) > MaxDuration
        <5>1. y = NoChoice
          BY <3>7, <3>9, <4>3 DEF FirstOf
        <5> QED BY <5>1
      <4> HIDE DEF taken, with, y
      <4> QED BY <4>1, <4>2, <4>3, BoundsAreNumbers
    <3>11. x = IF taken # NoChoice THEN taken ELSE z
      <4>1. x = LET m    == Min(rest)
                    took == IF Total(len, own, S \cup {m}) <= MaxDuration
                            THEN from[rest \ {m}][S \cup {m}] ELSE NoChoice
                IN IF took # NoChoice THEN took ELSE from[rest \ {m}][S]
        BY <1>1, <2>4, <2>10
      <4> QED BY <4>1 DEF i
    <3> HIDE DEF taken, y, z, x
    <3>12. CASE C(left, with) = {}
      <4>1. x = z
        BY <3>7, <3>10, <3>11, <3>12 DEF FirstOf
      <4>2. C(rest, S) = C(left, S)
        BY <3>8, <3>12
      <4> HIDE DEF C, left
      <4> QED BY <2>3, <3>7, <4>1, <4>2 DEF x
    <3>13. CASE C(left, with) # {}
      <4>1. y \in C(left, with) /\ \A T \in C(left, with) : IsFirst(y, T)
        <5> HIDE DEF C, left, with
        <5> QED BY <3>7, <3>13 DEF FirstOf
      <4>2. y \in Good(len, own) /\ with \subseteq y /\ y \subseteq with \cup left
        BY <4>1 DEF Completions
      <4>3. x = y
        <5>1. y # NoChoice
          BY <4>2, NoChoiceIsNotGood
        <5> QED BY <3>10, <3>11, <5>1
      <4>4. \A T \in C(left, S) : IsFirst(y, T)
        <5> TAKE T \in C(left, S)
        <5>1. T \in SUBSET K /\ Acceptable(len, own, T) /\ S \subseteq T /\ T \subseteq S \cup left
          BY DEF Completions, Good
        <5>2. PICK t \in T : t \in left
          <6>1. T # S
            BY <2>10, <5>1
          <6> QED BY <5>1, <6>1
        <5>3. i < t
          BY <3>4, <5>2
        <5>4. i \in y /\ i \notin T
          BY <3>3, <4>2, <5>1
        <5>5. \A j \in Nat : j < i => (j \in y <=> j \in T)
          <6> TAKE j \in Nat
          <6> HAVE j < i
          <6>1. j \notin left /\ j # i
            <7>1. i \in Nat
              BY <2>4, <3>2
            <7>2. ~(i < j) /\ j # i
              BY <7>1
            <7> QED BY <3>4, <7>2
          <6>2. j \in y <=> j \in S
            BY <4>2, <6>1
          <6>3. j \in T <=> j \in S
            BY <5>1, <6>1
          <6> QED BY <6>2, <6>3
        <5>6. y \in SUBSET Nat /\ T \in SUBSET Nat
          BY <1>2, <4>2, <5>1 DEF Good
        <5> HIDE DEF left, with, C, K
        <5> QED BY <5>2, <5>3, <5>4, <5>5, <5>6, TakenComesFirst
      <4>5. FirstOf(x, C(rest, S))
        <5> HIDE DEF C, left, with
        <5> QED BY <3>8, <4>1, <4>3, <4>4 DEF FirstOf
      <4> QED BY <2>3, <4>5 DEF x
    <3> QED BY <3>12, <3>13
  <2> QED BY <2>8, <2>9, <2>10
<1> QED BY <1>3

LEMMA RankedLengths ==
  ASSUME NEW w \in Worlds, NEW target \in Events
  PROVE  Measured(LengthsOf(w, Ranked(w, target))) /\ w.length[target] \in Nat
<1> DEFINE places == Ranked(w, target)
           len == LengthsOf(w, places)
<1>1. w.near \in Seq(Events) /\ w.length \in [Events -> Nat]
  BY LongRouteAssumption DEF LongRouteAssumption
<1>2. Len(w.near) \in Nat /\ DOMAIN w.near = 1..Len(w.near)
  BY <1>1
<1>3. places \in SUBSET (1..Len(w.near)) /\ \A i \in places : w.near[i] \in Events
  BY <1>1, <1>2 DEF Ranked, Candidates
<1>4. IsFiniteSet(places) /\ places \subseteq Nat \ {0}
  <2>1. IsFiniteSet(1..Len(w.near))
    BY <1>2, FS_Interval
  <2>2. places \in SUBSET (1..Len(w.near))
    BY <1>3
  <2>3. (1..Len(w.near)) \subseteq Nat \ {0}
    BY <1>2
  <2> HIDE DEF places
  <2>4. IsFiniteSet(places)
    BY <2>1, <2>2, FS_Subset
  <2> QED BY <2>2, <2>3, <2>4
<1>5. DOMAIN len = places /\ \A i \in places : len[i] = w.length[w.near[i]]
  BY DEF LengthsOf
<1>6. \A i \in places : len[i] \in Nat
  <2> HIDE DEF places, len
  <2> QED BY <1>1, <1>3, <1>5
<1> HIDE DEF places, len
<1>7. Measured(len)
  BY <1>4, <1>5, <1>6 DEF Measured
<1> QED BY <1>1, <1>7 DEF len, places

LEMMA FirstChoices ==
  ASSUME NEW w \in Worlds, NEW target \in Events
  PROVE  SelectDistractors(w, target) = FirstChoice(w, target)
<1> DEFINE len == LengthsOf(w, Ranked(w, target))
           own == w.length[target]
           K == DOMAIN len
           good == Good(len, own)
           P(S) == S \in good /\ \A T \in good : IsFirst(S, T)
<1>1. Measured(len) /\ own \in Nat
  BY RankedLengths
<1>2. FirstChoice(w, target) = IF good = {} THEN NoChoice
                               ELSE CHOOSE S \in good : \A T \in good : IsFirst(S, T)
  BY DEF FirstChoice, Good
<1>3. SelectDistractors(w, target) = IF own > MaxDuration THEN NoChoice ELSE Search(len, own)
  BY DEF SelectDistractors
<1>4. good \subseteq SUBSET Nat
  BY <1>1 DEF Good, Measured
<1> HIDE DEF len, own
<1>5. CASE own > MaxDuration
  <2>1. ASSUME NEW T \in good PROVE FALSE
    <3>1. T \in SUBSET K /\ own + Weight(len, T) \in MinDuration..MaxDuration
      BY AcceptableChoices DEF Good
    <3>2. IsFiniteSet(T) /\ \A i \in T : len[i] \in Nat
      BY <1>1, <3>1, FS_Subset DEF Measured
    <3>3. Weight(len, T) \in Nat
      BY <3>2, WeightsAreNumbers
    <3> QED BY <1>1, <1>5, <3>1, <3>3, BoundsAreNumbers
  <2>2. good = {}
    BY <2>1
  <2> HIDE DEF good
  <2> QED BY <1>2, <1>3, <1>5, <2>2
<1>6. CASE ~(own > MaxDuration)
  <2>1. PICK from : Searching(len, own, from) /\ Search(len, own) = from[K][{}]
    BY <1>1, SearchIsOfAll
  <2> DEFINE x == from[K][{}]
  <2>2. FirstOf(x, Completions(len, own, K, {}))
    <3>1. AllBefore(K, {})
      BY DEF AllBefore
    <3>2. K \in SUBSET DOMAIN len /\ {} \in SUBSET DOMAIN len
      OBVIOUS
    <3> HIDE DEF K
    <3> QED BY <1>1, <2>1, <3>1, <3>2, SearchIsRight
  <2>3. Completions(len, own, K, {}) = good
    BY DEF Completions, Good
  <2>4. SelectDistractors(w, target) = x
    BY <1>3, <1>6, <2>1
  <2> HIDE DEF x, good
  <2>5. CASE good = {}
    BY <1>2, <2>2, <2>3, <2>4, <2>5 DEF FirstOf
  <2>6. CASE good # {}
    <3>1. P(x)
      BY <2>2, <2>3, <2>6 DEF FirstOf
    <3>2. \A S : P(S) => S = x
      BY <1>4, <3>1, OneOfThemIsFirst
    <3>3. FirstChoice(w, target) = CHOOSE S \in good : \A T \in good : IsFirst(S, T)
      BY <1>2, <2>6
    <3>4. (CHOOSE S \in good : \A T \in good : IsFirst(S, T)) = x
      BY <3>1, <3>2
    <3> QED BY <2>4, <3>3, <3>4
  <2> QED BY <2>5, <2>6
<1> QED BY <1>5, <1>6

\* What the manifests and the seed decide stays as it is.
LEMMA WorldStays == BuildSpec => [](world \in Worlds)
<1>1. BuildInit => world \in Worlds
  BY DEF BuildInit
<1>2. world \in Worlds /\ [BuildNext]_buildVars => (world \in Worlds)'
  BY DEF BuildNext, BuildStep, Start, Validate, Snapshot, Audit, Begin, Write, Recheck, Publish,
         Announce, Point, Abort, RemoveDirectory, RecordFailure, Fault, Die, Replace, buildVars
<1> QED BY <1>1, <1>2, PTL DEF BuildSpec

\* Whatever the lengths, the bounds and the ranking: the search that stops early makes the
\* choice that comes first among all acceptable ones, or finds none where there is none
\* (_select_distractors, longroute.py:783-846).
THEOREM SelectionStaysFirst == BuildSpec => []SelectionIsFirst
<1>1. world \in Worlds => SelectionIsFirst
  BY FirstChoices DEF SelectionIsFirst, SelectedFirst
<1> QED BY <1>1, WorldStays, PTL

-----------------------------------------------------------------------------
\* The examples.

\* The places of a set in their order: the rank of one is how many come up to it.
RankIn(S, j) == Cardinality({k \in S : k <= j})
At(S, i) == CHOOSE j \in S : RankIn(S, j) = i

InOrderOf(S) ==
    /\ \A i \in 1..Cardinality(S) : At(S, i) \in S
    /\ \A i, k \in 1..Cardinality(S) : At(S, i) = At(S, k) => i = k
    /\ \A j \in S : \E i \in 1..Cardinality(S) : At(S, i) = j

LEMMA PlacesInOrder ==
  ASSUME NEW S \in SUBSET Nat, IsFiniteSet(S)
  PROVE  Cardinality(S) \in Nat /\ InOrderOf(S)
<1> DEFINE n == Cardinality(S)
           upto(j) == {k \in S : k <= j}
           rank == [j \in S |-> RankIn(S, j)]
<1>1. n \in Nat
  BY FS_CardinalityType
<1>2. \A j \in S : IsFiniteSet(upto(j)) /\ RankIn(S, j) \in 1..n
  <2> TAKE j \in S
  <2>1. upto(j) \in SUBSET S /\ j \in upto(j)
    OBVIOUS
  <2>2. RankIn(S, j) = Cardinality(upto(j))
    BY DEF RankIn
  <2> HIDE DEF upto
  <2>3. IsFiniteSet(upto(j)) /\ Cardinality(upto(j)) <= n
    BY <2>1, FS_Subset
  <2>4. Cardinality(upto(j)) \in Nat /\ Cardinality(upto(j)) # 0
    BY <2>1, <2>3, FS_CardinalityType, FS_EmptySet
  <2> QED BY <1>1, <2>2, <2>3, <2>4
<1>3. \A j, k \in S : j < k => RankIn(S, j) # RankIn(S, k)
  <2> SUFFICES ASSUME NEW j \in S, NEW k \in S, j < k, RankIn(S, j) = RankIn(S, k) PROVE FALSE
    OBVIOUS
  <2>0. j \in Nat /\ k \in Nat /\ \A m \in S : m \in Nat
    OBVIOUS
  <2>1. upto(j) \in SUBSET upto(k) /\ k \in upto(k) /\ k \notin upto(j)
    <3>1. \A m \in S : m <= j => m <= k
      BY <2>0
    <3>2. k <= k /\ ~(k <= j)
      BY <2>0
    <3> QED BY <3>1, <3>2
  <2>2. Cardinality(upto(j)) = Cardinality(upto(k))
    BY DEF RankIn
  <2> HIDE DEF upto
  <2> QED BY <1>2, <2>1, <2>2, FS_Subset
<1>4. \A j, k \in S : RankIn(S, j) = RankIn(S, k) => j = k
  <2> SUFFICES ASSUME NEW j \in S, NEW k \in S, RankIn(S, j) = RankIn(S, k) PROVE j = k
    OBVIOUS
  <2>1. j < k \/ k < j \/ j = k
    OBVIOUS
  <2> QED BY <1>3, <2>1
<1>5. rank \in Injection(S, 1..n)
  BY <1>2, <1>4 DEF Injection, IsInjective
<1>6. rank \in Surjection(S, 1..n)
  <2>1. IsFiniteSet(1..n) /\ Cardinality(1..n) = n
    BY <1>1, FS_Interval
  <2> HIDE DEF rank
  <2> QED BY <1>5, <2>1, FS_Injection
<1>7. \A i \in 1..n : \E j \in S : RankIn(S, j) = i
  BY <1>6 DEF Surjection
<1>8. \A i \in 1..n : At(S, i) \in S /\ RankIn(S, At(S, i)) = i
  BY <1>7 DEF At
<1>9. \A j \in S : At(S, RankIn(S, j)) = j
  <2> TAKE j \in S
  <2>1. RankIn(S, j) \in 1..n
    BY <1>2
  <2>2. At(S, RankIn(S, j)) \in S /\ RankIn(S, At(S, RankIn(S, j))) = RankIn(S, j)
    BY <1>8, <2>1
  <2> QED BY <1>4, <2>2
<1>10. \A j \in S : \E i \in 1..n : At(S, i) = j
  BY <1>2, <1>9
<1>11. \A i, k \in 1..n : At(S, i) = At(S, k) => i = k
  BY <1>8
<1> QED BY <1>1, <1>8, <1>10, <1>11 DEF InOrderOf

\* A sum is the same whatever its terms are named.
Renames(f, c, T, len, S) ==
    /\ IsFiniteSet(T) /\ IsFiniteSet(S)
    /\ \A i \in T : f[i] \in S /\ c[i] = len[f[i]]
    /\ \A j \in S : len[j] \in Nat
    /\ \A i, k \in T : f[i] = f[k] => i = k
    /\ \A j \in S : \E i \in T : f[i] = j

LEMMA WeightOfImage ==
  ASSUME NEW f, NEW c, NEW T, NEW len, NEW S, Renames(f, c, T, len, S)
  PROVE  Weight(c, T) = Weight(len, S)
<1> USE DEF Renames
<1> DEFINE image(X) == {f[i] : i \in X}
           Bad == {X \in SUBSET T : Weight(c, X) # Weight(len, image(X))}
<1>1. ASSUME Bad # {} PROVE FALSE
  <2>1. \A X \in Bad : IsFiniteSet(X)
    BY FS_Subset
  <2>2. PICK X \in Bad : \A Y \in Bad : Y \subseteq X => Y = X
    <3> HIDE DEF Bad
    <3> QED BY <1>1, <2>1, LeastOfSets
  <2>3. X # {}
    <3>1. ASSUME X = {} PROVE FALSE
      <4>1. Weight(c, {}) = 0 /\ Weight(len, {}) = 0
        BY FS_EmptySet, WeightIsStepwise
      <4>2. image(X) = {}
        BY <3>1
      <4> QED BY <3>1, <4>1, <4>2
    <3> QED BY <3>1
  <2>4. PICK i \in X : TRUE
    BY <2>3
  <2>5. X \ {i} \in SUBSET T /\ X \ {i} # X /\ X \ {i} \subseteq X
    OBVIOUS
  <2>6. Weight(c, X \ {i}) = Weight(len, image(X \ {i}))
    BY <2>2, <2>5
  <2>7. image(X \ {i}) = image(X) \ {f[i]} /\ f[i] \in image(X) /\ image(X) \in SUBSET S
    OBVIOUS
  <2>8. IsFiniteSet(image(X)) /\ \A j \in image(X) : len[j] \in Nat
    <3> HIDE DEF image
    <3> QED BY <2>7, FS_Subset
  <2>9. Weight(c, X) = c[i] + Weight(c, X \ {i})
    <3>1. \A k \in X : c[k] \in Nat
      OBVIOUS
    <3> QED BY <2>1, <3>1, WeightAddsOne
  <2>10. Weight(len, image(X)) = len[f[i]] + Weight(len, image(X) \ {f[i]})
    <3> HIDE DEF image
    <3> QED BY <2>7, <2>8, WeightAddsOne
  <2>11. c[i] = len[f[i]]
    OBVIOUS
  <2>12. Weight(c, X) = Weight(len, image(X))
    <3> HIDE DEF image
    <3> QED BY <2>6, <2>7, <2>9, <2>10, <2>11
  <2> QED BY <2>12
<1>2. Weight(c, T) = Weight(len, image(T))
  BY <1>1
<1>3. image(T) = S
  OBVIOUS
<1> QED BY <1>2, <1>3

\* A target inserted among the others.
Holding(E, s, p, e, t) ==
    /\ t \in Seq(E) /\ Len(t) = Len(s) + 1 /\ t[p] = e
    /\ \A j \in 1..(p - 1) : t[j] = s[j]
    /\ \A j \in (p + 1)..(Len(s) + 1) : t[j] = s[j - 1]

LEMMA Insertions ==
  ASSUME NEW E, NEW s \in Seq(E), NEW e \in E, NEW p \in 1..(Len(s) + 1)
  PROVE  Holding(E, s, p, e, InsertAt(s, p, e))
<1> DEFINE n == Len(s)
           front == SubSeq(s, 1, p - 1)
           back  == SubSeq(s, p, n)
           mid   == front \o <<e>>
           all   == mid \o back
<1>1. n \in Nat /\ \A i \in 1..n : s[i] \in E
  OBVIOUS
<1>2. front \in Seq(E) /\ Len(front) = p - 1 /\ \A i \in 1..(p - 1) : front[i] = s[i]
  <2>1. 1 \in Int /\ p - 1 \in Int /\ \A i \in 1..(p - 1) : s[i] \in E
    BY <1>1
  <2>2. /\ front \in Seq(E) /\ Len(front) = IF 1 <= p - 1 THEN (p - 1) - 1 + 1 ELSE 0
        /\ \A i \in 1..((p - 1) - 1 + 1) : front[i] = s[1 + i - 1]
    BY <2>1, SubSeqProperties
  <2> HIDE DEF front
  <2> QED BY <1>1, <2>2
<1>3. back \in Seq(E) /\ Len(back) = n - p + 1 /\ \A i \in 1..(n - p + 1) : back[i] = s[p + i - 1]
  <2>1. p \in Int /\ n \in Int /\ \A i \in p..n : s[i] \in E
    BY <1>1
  <2>2. /\ back \in Seq(E) /\ Len(back) = IF p <= n THEN n - p + 1 ELSE 0
        /\ \A i \in 1..(n - p + 1) : back[i] = s[p + i - 1]
    BY <2>1, SubSeqProperties
  <2> HIDE DEF back
  <2> QED BY <1>1, <2>2
<1> HIDE DEF front, back
<1>4. /\ mid \in Seq(E) /\ Len(mid) = p /\ mid[p] = e
      /\ \A i \in 1..(p - 1) : mid[i] = s[i]
  <2>1. <<e>> \in Seq(E) /\ Len(<<e>>) = 1 /\ <<e>>[1] = e
    OBVIOUS
  <2> DEFINE one == <<e>>
  <2> HIDE DEF one
  <2>2. /\ front \o one \in Seq(E) /\ Len(front \o one) = Len(front) + Len(one)
        /\ \A i \in 1..(Len(front) + Len(one)) :
             (front \o one)[i] = IF i <= Len(front) THEN front[i] ELSE one[i - Len(front)]
    BY <1>2, <2>1, ConcatProperties DEF one
  <2>3. mid = front \o one
    BY DEF one
  <2>4. Len(one) = 1 /\ one[1] = e
    BY DEF one
  <2> HIDE DEF mid
  <2> QED BY <1>1, <1>2, <2>2, <2>3, <2>4
<1> HIDE DEF mid
<1>5. /\ all \in Seq(E) /\ Len(all) = p + (n - p + 1)
      /\ \A i \in 1..(p + (n - p + 1)) : all[i] = IF i <= p THEN mid[i] ELSE back[i - p]
  BY <1>3, <1>4, ConcatProperties
<1>6. all = InsertAt(s, p, e)
  BY DEF InsertAt, mid, front, back
<1> HIDE DEF all
<1>7. Len(all) = n + 1 /\ p \in Nat
  BY <1>1, <1>5
<1>8. all[p] = e /\ \A j \in 1..(p - 1) : all[j] = s[j]
  BY <1>1, <1>4, <1>5
<1>9. \A j \in (p + 1)..(n + 1) : all[j] = s[j - 1]
  <2> TAKE j \in (p + 1)..(n + 1)
  <2>1. j - p \in 1..(n - p + 1) /\ j \in 1..(p + (n - p + 1)) /\ ~(j <= p)
    BY <1>1
  <2>2. all[j] = back[j - p] /\ back[j - p] = s[p + (j - p) - 1]
    BY <1>3, <1>5, <2>1
  <2>3. p + (j - p) - 1 = j - 1
    BY <1>1
  <2> QED BY <2>2, <2>3
<1> QED BY <1>5, <1>6, <1>7, <1>8, <1>9 DEF Holding

\* The segments of a list of events follow each other without a gap.
LengthsAlong(w, entries) == [j \in DOMAIN entries |-> w.length[entries[j]]]

Timeline(w, entries, segments) ==
    /\ segments \in Seq([event : Events, start : Nat, end : Nat])
    /\ Len(segments) = Len(entries)
    /\ \A i \in 1..Len(entries) :
         /\ segments[i].event = entries[i]
         /\ segments[i].start = (IF i = 1 THEN 0 ELSE segments[i - 1].end)
         /\ segments[i].end = segments[i].start + w.length[entries[i]]
         /\ segments[i].end > segments[i].start
         /\ segments[i].end = Weight(LengthsAlong(w, entries), 1..i)

LEMMA SegmentsFollow ==
  ASSUME NEW w \in Worlds, NEW entries \in Seq(Events)
  PROVE  Timeline(w, entries, Segments(w, entries))
<1> DEFINE n == Len(entries)
           length == LengthsAlong(w, entries)
           start(i) == Weight(length, 1..(i - 1))
           segments == Segments(w, entries)
<1>1. n \in Nat /\ DOMAIN entries = 1..n /\ \A i \in 1..n : entries[i] \in Events
  OBVIOUS
<1>2. w.length \in [Events -> Nat \ {0}]
  BY LongRouteAssumption DEF LongRouteAssumption
<1>3. \A j \in 1..n : length[j] = w.length[entries[j]] /\ length[j] \in Nat \ {0}
  <2>1. \A j \in 1..n : length[j] = w.length[entries[j]]
    BY <1>1 DEF LengthsAlong
  <2> HIDE DEF length
  <2> QED BY <1>1, <1>2, <2>1
<1>4. segments = [i \in 1..n |-> [event |-> entries[i], start |-> start(i),
                                  end |-> start(i) + length[i]]]
  BY <1>1 DEF Segments, Weight, LengthsAlong
<1> HIDE DEF segments, length
<1>5. \A i \in 1..(n + 1) : start(i) \in Nat
  <2> TAKE i \in 1..(n + 1)
  <2>1. i - 1 \in Int /\ 1 \in Int /\ \A j \in 1..(i - 1) : j \in 1..n
    BY <1>1
  <2>2. IsFiniteSet(1..(i - 1)) /\ \A j \in 1..(i - 1) : length[j] \in Nat
    BY <1>3, <2>1, FS_Interval
  <2> QED BY <2>2, WeightsAreNumbers
<1>6. \A i \in 1..n : start(i + 1) = start(i) + length[i]
  <2> TAKE i \in 1..n
  <2>0. i \in Int /\ 1 \in Int /\ i \in 1..i /\ \A j \in 1..i : j \in 1..n
    BY <1>1
  <2>1. IsFiniteSet(1..i) /\ i \in 1..i /\ \A j \in 1..i : length[j] \in Nat
    BY <1>3, <2>0, FS_Interval
  <2>2. Weight(length, 1..i) = length[i] + Weight(length, (1..i) \ {i})
    BY <2>1, WeightAddsOne
  <2>3. (1..i) \ {i} = 1..(i - 1) /\ (i + 1) - 1 = i
    OBVIOUS
  <2>4. start(i) \in Nat /\ length[i] \in Nat
    BY <1>3, <1>5
  <2> HIDE DEF length
  <2>5. start(i + 1) = Weight(length, 1..i)
    BY <2>3
  <2>6. start(i) = Weight(length, (1..i) \ {i})
    BY <2>3
  <2> HIDE DEF start
  <2> QED BY <2>2, <2>4, <2>5, <2>6
<1>7. start(1) = 0
  <2>1. 1..(1 - 1) = {}
    OBVIOUS
  <2>2. Weight(length, {}) = 0
    BY FS_EmptySet, WeightIsStepwise
  <2> QED BY <2>1, <2>2
<1>8. \A i \in 1..n : start(i + 1) = Weight(length, 1..i)
  <2> TAKE i \in 1..n
  <2>1. (i + 1) - 1 = i
    OBVIOUS
  <2> QED BY <2>1
<1> HIDE DEF start
<1>9. \A i \in 1..n : /\ segments[i].event = entries[i] /\ segments[i].start = start(i)
                      /\ segments[i].end = start(i + 1)
  BY <1>4, <1>6
<1>10. segments \in Seq([event : Events, start : Nat, end : Nat]) /\ Len(segments) = n
  <2>1. \A i \in 1..n : start(i) \in Nat /\ start(i) + length[i] \in Nat
    BY <1>3, <1>5
  <2>2. \A i \in 1..n : [event |-> entries[i], start |-> start(i), end |-> start(i) + length[i]]
                           \in [event : Events, start : Nat, end : Nat]
    BY <1>1, <2>1
  <2>3. segments \in [1..n -> [event : Events, start : Nat, end : Nat]]
    BY <1>4, <2>2
  <2> DEFINE R == [event : Events, start : Nat, end : Nat]
  <2>4. segments \in [1..n -> R]
    BY <2>3
  <2> HIDE DEF R
  <2>5. segments \in Seq(R) /\ Len(segments) = n
    BY <1>1, <2>4
  <2> QED BY <2>5 DEF R
<1>11. \A i \in 1..n : segments[i].start = (IF i = 1 THEN 0 ELSE segments[i - 1].end)
  <2> TAKE i \in 1..n
  <2>1. CASE i = 1
    BY <1>7, <1>9, <2>1
  <2>2. CASE i # 1
    <3>1. i - 1 \in 1..n /\ (i - 1) + 1 = i
      BY <1>1, <2>2
    <3> QED BY <1>9, <2>2, <3>1
  <2> QED BY <2>1, <2>2
<1>12. \A i \in 1..n : /\ segments[i].end = segments[i].start + w.length[entries[i]]
                       /\ segments[i].end > segments[i].start
  <2> TAKE i \in 1..n
  <2>1. start(i) \in Nat /\ length[i] \in Nat \ {0} /\ length[i] = w.length[entries[i]]
    BY <1>3, <1>5
  <2>2. start(i + 1) = start(i) + length[i]
    BY <1>6
  <2> QED BY <1>9, <2>1, <2>2
<1>13. \A i \in 1..n : segments[i].end = Weight(length, 1..i)
  BY <1>8, <1>9
<1>14. Timeline(w, entries, segments)
  BY <1>9, <1>10, <1>11, <1>12, <1>13 DEF Timeline, length
<1> QED BY <1>14 DEF segments

\* The distractors of a target: acceptable, of its candidates.
Suits(w, target, S) ==
    /\ S \in SUBSET Ranked(w, target)
    /\ Acceptable(LengthsOf(w, Ranked(w, target)), w.length[target], S)

LEMMA ChoicesSuit ==
  ASSUME NEW w \in Worlds, NEW target \in Events, SelectDistractors(w, target) # NoChoice
  PROVE  Suits(w, target, SelectDistractors(w, target))
<1> DEFINE len == LengthsOf(w, Ranked(w, target))
           own == w.length[target]
           good == Good(len, own)
<1>1. Measured(len) /\ own \in Nat
  BY RankedLengths
<1>2. SelectDistractors(w, target) = FirstChoice(w, target)
  BY FirstChoices
<1>3. DOMAIN len = Ranked(w, target)
  BY DEF LengthsOf
<1>4. SelectDistractors(w, target) = IF own > MaxDuration THEN NoChoice ELSE Search(len, own)
  BY DEF SelectDistractors
<1>5. SelectDistractors(w, target) \in good
  <2> DEFINE K == DOMAIN len
  <2> HIDE DEF len, own
  <2>1. PICK from : Searching(len, own, from) /\ Search(len, own) = from[K][{}]
    BY <1>1, SearchIsOfAll
  <2>2. FirstOf(from[K][{}], Completions(len, own, K, {}))
    <3>1. AllBefore(K, {})
      BY DEF AllBefore
    <3>2. K \in SUBSET DOMAIN len /\ {} \in SUBSET DOMAIN len
      OBVIOUS
    <3> HIDE DEF K
    <3> QED BY <1>1, <2>1, <3>1, <3>2, SearchIsRight
  <2>3. Completions(len, own, K, {}) \subseteq good
    BY DEF Completions
  <2>4. SelectDistractors(w, target) = from[K][{}]
    BY <1>4, <2>1
  <2> QED BY <2>2, <2>3, <2>4 DEF FirstOf
<1> QED BY <1>3, <1>5 DEF Suits, Good

\* What a target and its distractors make together.
Composed(w, target, S, p, entries) ==
    /\ entries \in Seq(Events) /\ Len(entries) = Cardinality(S) + 1 /\ entries[p] = target
    /\ \A j \in 1..Len(entries) :
         Groupings[w][VideoOf[entries[j]]] = Groupings[w][VideoOf[target]]
    /\ Weight(LengthsAlong(w, entries), 1..Len(entries))
         = w.length[target] + Weight(LengthsOf(w, Ranked(w, target)), S)

LEMMA TargetsAreInserted ==
  ASSUME NEW w \in Worlds, NEW target \in Events, NEW S, Suits(w, target, S),
         NEW p \in 1..(Cardinality(S) + 1)
  PROVE  /\ Cardinality(S) \in Nat
         /\ Chosen(w, S) \in Seq(Events) /\ Len(Chosen(w, S)) = Cardinality(S)
         /\ Composed(w, target, S, p, InsertAt(Chosen(w, S), p, target))
<1> DEFINE n == Cardinality(S)
           R == Ranked(w, target)
           len == LengthsOf(w, R)
           others == Chosen(w, S)
           entries == InsertAt(others, p, target)
           length == LengthsAlong(w, entries)
           split(e) == Groupings[w][VideoOf[e]]
           from == [j \in (1..(n + 1)) \ {p} |-> IF j < p THEN At(S, j) ELSE At(S, j - 1)]
<1>1. S \in SUBSET R /\ Measured(len) /\ DOMAIN len = R /\ w.length[target] \in Nat
  BY RankedLengths DEF Suits, LengthsOf
<1>2. S \in SUBSET Nat /\ IsFiniteSet(S) /\ \A i \in S : len[i] \in Nat
  <2> HIDE DEF R, len
  <2> QED BY <1>1, FS_Subset DEF Measured
<1>3. n \in Nat /\ InOrderOf(S)
  BY <1>2, PlacesInOrder
<1>4. \A i \in S : /\ w.near[i] \in Events /\ split(w.near[i]) = split(target)
                   /\ len[i] = w.length[w.near[i]]
  <2>1. \A i \in R : w.near[i] \in Candidates(w, target) /\ len[i] = w.length[w.near[i]]
    BY DEF Ranked, LengthsOf
  <2>2. \A e \in Candidates(w, target) : e \in Events /\ split(e) = split(target)
    BY DEF Candidates
  <2> HIDE DEF R, len, split
  <2> QED BY <1>1, <2>1, <2>2
<1>5. others = [i \in 1..n |-> w.near[At(S, i)]]
  BY DEF Chosen, At, RankIn
<1>6. \A i \in 1..n : At(S, i) \in S
  BY <1>3 DEF InOrderOf
<1> HIDE DEF others, len, R, n, split
<1>7. others \in Seq(Events) /\ Len(others) = n
  <2>1. others \in [1..n -> Events]
    BY <1>4, <1>5, <1>6
  <2> QED BY <1>3, <2>1
<1>8. Holding(Events, others, p, target, entries)
  <2>1. p \in 1..(Len(others) + 1)
    BY <1>7 DEF n
  <2> QED BY <1>7, <2>1, Insertions
<1> HIDE DEF entries
<1>9. /\ entries \in Seq(Events) /\ Len(entries) = n + 1 /\ entries[p] = target
      /\ \A j \in 1..(p - 1) : entries[j] = others[j]
      /\ \A j \in (p + 1)..(n + 1) : entries[j] = others[j - 1]
  BY <1>7, <1>8 DEF Holding
<1>10. p \in 1..(n + 1)
  BY DEF n
<1>11. \A j \in (1..(n + 1)) \ {p} : /\ from[j] \in S /\ entries[j] = w.near[from[j]]
  <2> TAKE j \in (1..(n + 1)) \ {p}
  <2>1. CASE j < p
    <3>1. j \in 1..(p - 1) /\ j \in 1..n /\ from[j] = At(S, j)
      BY <1>3, <1>10, <2>1
    <3> QED BY <1>5, <1>6, <1>9, <3>1
  <2>2. CASE ~(j < p)
    <3>1. j \in (p + 1)..(n + 1) /\ j - 1 \in 1..n /\ from[j] = At(S, j - 1)
      BY <1>3, <1>10, <2>2
    <3> QED BY <1>5, <1>6, <1>9, <3>1
  <2> QED BY <2>1, <2>2
<1>12. \A j, k \in (1..(n + 1)) \ {p} : from[j] = from[k] => j = k
  <2>1. \A i, k \in 1..n : At(S, i) = At(S, k) => i = k
    BY <1>3 DEF InOrderOf, n
  <2> SUFFICES ASSUME NEW j \in (1..(n + 1)) \ {p}, NEW k \in (1..(n + 1)) \ {p},
                      from[j] = from[k]
               PROVE  j = k
    OBVIOUS
  <2> DEFINE a == IF j < p THEN j ELSE j - 1
             b == IF k < p THEN k ELSE k - 1
  <2>2. a \in 1..n /\ b \in 1..n
    BY <1>3, <1>10
  <2>3. At(S, a) = At(S, b)
    OBVIOUS
  <2>4. a = b
    BY <2>1, <2>2, <2>3
  <2> QED BY <1>3, <1>10, <2>4
<1>13. \A i \in S : \E j \in (1..(n + 1)) \ {p} : from[j] = i
  <2> TAKE i \in S
  <2>1. PICK k \in 1..n : At(S, k) = i
    BY <1>3 DEF InOrderOf, n
  <2>2. CASE k < p
    <3>1. k \in (1..(n + 1)) \ {p} /\ from[k] = i
      BY <1>3, <1>10, <2>1, <2>2
    <3> QED BY <3>1
  <2>3. CASE ~(k < p)
    <3>1. k + 1 \in (1..(n + 1)) \ {p} /\ ~(k + 1 < p) /\ (k + 1) - 1 = k
      BY <1>3, <1>10, <2>3
    <3>2. from[k + 1] = i
      BY <2>1, <3>1
    <3> QED BY <3>1, <3>2
  <2> QED BY <2>2, <2>3
<1> HIDE DEF from
<1>14. DOMAIN entries = 1..(n + 1) /\ \A j \in 1..(n + 1) : length[j] = w.length[entries[j]]
  <2>1. DOMAIN entries = 1..(n + 1)
    BY <1>3, <1>9
  <2> QED BY <2>1 DEF LengthsAlong
<1>15. \A j \in (1..(n + 1)) \ {p} : length[j] = len[from[j]]
  BY <1>4, <1>11, <1>14
<1> HIDE DEF length
<1>16. IsFiniteSet(1..(n + 1)) /\ IsFiniteSet((1..(n + 1)) \ {p})
  <2>1. IsFiniteSet(1..(n + 1))
    BY <1>3, FS_Interval
  <2> QED BY <2>1, FS_RemoveElement
<1> DEFINE U == 1..(n + 1)
           T == U \ {p}
<1>17. Weight(length, T) = Weight(len, S)
  <2>1. /\ IsFiniteSet(T) /\ \A j \in T : from[j] \in S /\ length[j] = len[from[j]]
        /\ \A j, k \in T : from[j] = from[k] => j = k
        /\ \A i \in S : \E j \in T : from[j] = i
    BY <1>11, <1>12, <1>13, <1>15, <1>16
  <2> HIDE DEF T
  <2>2. Renames(from, length, T, len, S)
    BY <1>2, <2>1 DEF Renames
  <2> QED BY <2>2, WeightOfImage
<1>18. Weight(length, U) = length[p] + Weight(length, T)
  <2>1. \A j \in U : length[j] \in Nat
    BY <1>1, <1>2, <1>9, <1>11, <1>14, <1>15
  <2>2. IsFiniteSet(U) /\ p \in U
    BY <1>10, <1>16
  <2> HIDE DEF U, T
  <2>3. \A i \in U : Weight(length, U) = length[i] + Weight(length, U \ {i})
    BY <2>1, <2>2, WeightAddsOne
  <2>4. T = U \ {p}
    BY DEF T
  <2> QED BY <2>2, <2>3, <2>4
<1>19. \A j \in 1..(n + 1) : split(entries[j]) = split(target)
  BY <1>4, <1>9, <1>11
<1>20. Composed(w, target, S, p, entries)
  <2>1. Weight(length, 1..(n + 1)) = w.length[target] + Weight(len, S)
    BY <1>9, <1>10, <1>14, <1>17, <1>18
  <2> QED BY <1>9, <1>19, <2>1 DEF Composed, length, len, R, n, split
<1> QED BY <1>3, <1>7, <1>20 DEF entries, others, n

\* The example of a question before any is asked for a neighbour.
Plain(w, q, x) ==
    /\ AcceptedExample(w, x)
    /\ x.segments \in Seq([event : Events, start : Nat, end : Nat])
    /\ x = [question |-> q, split |-> x.split, position |-> x.position,
            support |-> <<Targets[q]>>, template |-> "single_event", relation |-> "is",
            answer |-> "its own", segments |-> x.segments, duration |-> x.duration]

LEMMA SingleExamples ==
  ASSUME NEW w \in Worlds, NEW q \in Answerable(w)
  PROVE  Plain(w, q, SingleExample(w, q))
<1> DEFINE target == Targets[q]
           S == SelectDistractors(w, target)
           others == Chosen(w, S)
           n == Cardinality(S)
           p == (w.place[q] % (Len(others) + 1)) + 1
           entries == InsertAt(others, p, target)
           segments == Segments(w, entries)
           len == LengthsOf(w, Ranked(w, target))
           split(e) == Groupings[w][VideoOf[e]]
           x == SingleExample(w, q)
<1>1. q \in Questions /\ target \in Events /\ w.place[q] \in Nat /\ S # NoChoice
  <2>1. q \in Questions /\ S # NoChoice
    BY DEF Answerable
  <2>2. w.place \in [Questions -> Nat] /\ ToSet(Targets) \subseteq Events
    BY LongRouteAssumption DEF LongRouteAssumption
  <2>3. target \in ToSet(Targets)
    BY <2>1 DEF ToSet, Questions
  <2> QED BY <2>1, <2>2, <2>3
<1>2. Suits(w, target, S)
  BY <1>1, ChoicesSuit
<1>3. x = [question |-> q, split |-> split(target), position |-> p,
           support |-> <<target>>, template |-> "single_event", relation |-> "is",
           answer |-> "its own", segments |-> segments,
           duration |-> segments[Len(segments)].end]
  BY DEF SingleExample, Inserted
<1>4. 1 \in 1..(n + 1) /\ n \in Nat /\ Len(others) = n
  <2>1. n \in Nat
    <3>1. S \in SUBSET Ranked(w, target) /\ Measured(len) /\ DOMAIN len = Ranked(w, target)
      BY <1>1, <1>2, RankedLengths DEF Suits, LengthsOf
    <3> HIDE DEF len, S
    <3>2. IsFiniteSet(S)
      BY <3>1, FS_Subset DEF Measured
    <3> QED BY <3>2, FS_CardinalityType DEF n
  <2>2. 1 \in 1..(n + 1)
    BY <2>1
  <2> HIDE DEF S, target
  <2> QED BY <1>1, <1>2, <2>1, <2>2, TargetsAreInserted
<1>5. p \in 1..(n + 1)
  <2> DEFINE a == w.place[q]
             b == n + 1
  <2>1. a \in Nat /\ b \in Nat \ {0}
    BY <1>1, <1>4
  <2>2. p = (a % b) + 1
    BY <1>4
  <2> HIDE DEF a, b
  <2>3. a % b \in 0..(b - 1)
    BY <2>1
  <2>4. p \in 1..b
    BY <2>1, <2>2, <2>3
  <2> QED BY <2>4 DEF b
<1>6. Composed(w, target, S, p, entries)
  <2> HIDE DEF S, target, p
  <2> QED BY <1>1, <1>2, <1>5, TargetsAreInserted
<1> HIDE DEF S, entries, len, p, x, split, target
<1>7. /\ entries \in Seq(Events) /\ Len(entries) = n + 1 /\ entries[p] = target
      /\ \A j \in 1..(n + 1) : split(entries[j]) = split(target)
      /\ Weight(LengthsAlong(w, entries), 1..(n + 1)) = w.length[target] + Weight(len, S)
  BY <1>6 DEF Composed, split, len
<1>8. Timeline(w, entries, segments)
  BY <1>7, SegmentsFollow
<1> HIDE DEF segments, n
<1>9. /\ segments \in Seq([event : Events, start : Nat, end : Nat])
      /\ Len(segments) = n + 1 /\ DOMAIN segments = 1..(n + 1)
  BY <1>7, <1>8 DEF Timeline
<1>10. \A i \in 1..(n + 1) :
         /\ segments[i].event = entries[i]
         /\ segments[i].start = (IF i = 1 THEN 0 ELSE segments[i - 1].end)
         /\ segments[i].end = segments[i].start + w.length[entries[i]]
         /\ segments[i].end > segments[i].start
  BY <1>7, <1>8 DEF Timeline
<1>11. segments[n + 1].end = w.length[target] + Weight(len, S)
  <2>1. n + 1 \in 1..(n + 1)
    BY <1>4
  <2> QED BY <1>7, <1>8, <2>1 DEF Timeline
<1>12. ValidLineage(w, x)
  <2>1. \A i \in DOMAIN segments :
          /\ split(segments[i].event) = split(target)
          /\ segments[i].start = (IF i = 1 THEN 0 ELSE segments[i - 1].end)
          /\ segments[i].end = segments[i].start + w.length[segments[i].event]
          /\ segments[i].end > segments[i].start
    BY <1>7, <1>9, <1>10
  <2>2. p \in DOMAIN segments /\ segments[p].event = target
    BY <1>5, <1>7, <1>9, <1>10
  <2>3. ToSet(<<target>>) \subseteq {segments[i].event : i \in DOMAIN segments}
    BY <2>2 DEF ToSet
  <2>4. /\ x.segments = segments /\ x.split = split(target) /\ x.position = p
        /\ x.question = q /\ x.support = <<target>> /\ x.duration = segments[Len(segments)].end
    BY <1>3
  <2> QED BY <2>1, <2>2, <2>3, <2>4 DEF ValidLineage, split, target
<1>13. /\ Len(x.segments) - 1 \in MinDistractors..MaxDistractors
       /\ x.duration \in MinDuration..MaxDuration
  <2>1. /\ n \in MinDistractors..MaxDistractors
        /\ w.length[target] + Weight(len, S) \in MinDuration..MaxDuration
    BY <1>2, AcceptableChoices DEF Suits, len, n
  <2>2. Len(x.segments) = n + 1 /\ x.duration = segments[n + 1].end
    BY <1>3, <1>9
  <2> QED BY <1>4, <1>11, <2>1, <2>2
<1>14. x.template = "single_event"
  BY <1>3
<1>15. AcceptedExample(w, x)
  BY <1>12, <1>13, <1>14 DEF AcceptedExample
<1>16. /\ x.segments \in Seq([event : Events, start : Nat, end : Nat])
       /\ x = [question |-> q, split |-> x.split, position |-> x.position,
               support |-> <<target>>, template |-> "single_event", relation |-> "is",
               answer |-> "its own", segments |-> x.segments, duration |-> x.duration]
  BY <1>3, <1>9
<1> QED BY <1>15, <1>16 DEF Plain, x, target

LEMMA NeighbourExamples ==
  ASSUME NEW w \in Worlds, NEW q \in Questions, NEW x, Plain(w, q, x), Neighbours(w, x) # {}
  PROVE  /\ AcceptedExample(w, MultiEvent(w, x))
         /\ MultiEvent(w, x).template # "single_event"
<1> DEFINE p == x.position
           s == x.segments
           m == Len(s)
           label(i) == w.label[s[i].event]
           after == <<p, p + 1>> \in Neighbours(w, x)
           a == IF after THEN p ELSE p - 1
           b == IF after THEN p + 1 ELSE p
           support == <<s[a].event, s[b].event>>
           relation == IF after THEN "after" ELSE "before"
           answer == w.label[IF after THEN s[b].event ELSE s[a].event]
           y == MultiEvent(w, x)
<1>1. /\ s \in Seq([event : Events, start : Nat, end : Nat])
      /\ m \in Nat /\ DOMAIN s = 1..m
  <2> DEFINE R == [event : Events, start : Nat, end : Nat]
  <2>1. s \in Seq(R)
    BY DEF Plain
  <2> HIDE DEF R, s
  <2>2. s \in Seq(R) /\ m \in Nat /\ DOMAIN s = 1..m
    BY <2>1
  <2> QED BY <2>2 DEF R
<1>2. /\ ValidLineage(w, x) /\ Len(s) - 1 \in MinDistractors..MaxDistractors
      /\ x.duration \in MinDuration..MaxDuration
  BY DEF Plain, AcceptedExample
<1> DEFINE split == x.split
           duration == x.duration
<1>3. x = [question |-> q, split |-> split, position |-> p,
           support |-> <<Targets[q]>>, template |-> "single_event", relation |-> "is",
           answer |-> "its own", segments |-> s, duration |-> duration]
  BY DEF Plain
<1>4. p \in 1..m /\ s[p].event = Targets[q]
  <2>1. p \in DOMAIN s /\ s[p].event = Targets[x.question]
    BY <1>2 DEF ValidLineage
  <2>2. x.question = q
    <3> HIDE DEF s, p, split, duration
    <3> QED BY <1>3
  <2> QED BY <1>1, <2>1, <2>2
<1>5. y = [x EXCEPT !.template = "before_after", !.support = support,
                    !.relation = relation, !.answer = answer]
  BY DEF MultiEvent
<1> HIDE DEF y, support, relation, answer, m
<1>6. /\ y.question = q /\ y.split = x.split /\ y.position = p /\ y.segments = s
      /\ y.duration = x.duration /\ y.support = support /\ y.template = "before_after"
      /\ y.relation = relation /\ y.answer = answer
  <2> HIDE DEF s, p, split, duration
  <2>1. /\ y.question = q /\ y.split = split /\ y.position = p /\ y.segments = s
        /\ y.duration = duration /\ y.support = support /\ y.template = "before_after"
        /\ y.relation = relation /\ y.answer = answer
    BY <1>3, <1>5
  <2> QED BY <2>1 DEF split, duration
<1>7. /\ a \in 1..m /\ b \in 1..m /\ b = a + 1 /\ p \in {a, b} /\ (after <=> p = a)
      /\ label(a) # label(b) /\ label(IF after THEN b ELSE a) # "None of these"
  <2>1. \A pair \in Neighbours(w, x) :
          /\ pair \in Pairs(x) /\ label(pair[1]) # label(pair[2])
          /\ label(IF pair[1] = p THEN pair[2] ELSE pair[1]) # "None of these"
    BY DEF Neighbours
  <2>2. \A pair \in Pairs(x) :
          \E i \in {p - 1, p} : i \in 1..(m - 1) /\ pair = <<i, i + 1>>
    BY DEF Pairs, m
  <2> HIDE DEF label, p
  <2>3. CASE after
    <3>1. <<p, p + 1>>[1] = p /\ <<p, p + 1>>[2] = p + 1
      OBVIOUS
    <3>2. label(p) # label(p + 1) /\ label(p + 1) # "None of these"
      BY <2>1, <2>3, <3>1
    <3>3. PICK i \in {p - 1, p} : i \in 1..(m - 1) /\ <<p, p + 1>> = <<i, i + 1>>
      BY <2>1, <2>2, <2>3
    <3>4. p = i
      BY <3>3
    <3>5. a = p /\ b = p + 1
      BY <2>3
    <3>6. p \in 1..(m - 1)
      BY <3>3, <3>4
    <3>7. a \in 1..m /\ b \in 1..m /\ b = a + 1 /\ p \in {a, b} /\ p = a
      BY <1>1, <3>5, <3>6
    <3>8. label(a) # label(b) /\ label(b) # "None of these"
      BY <3>2, <3>5
    <3> HIDE DEF after, a, b
    <3> QED BY <2>3, <3>7, <3>8
  <2>4. CASE ~after
    <3>1. PICK pair \in Neighbours(w, x) : TRUE
      OBVIOUS
    <3>2. PICK i \in {p - 1, p} : i \in 1..(m - 1) /\ pair = <<i, i + 1>>
      BY <2>1, <2>2, <3>1
    <3>3. i = p - 1
      BY <2>4, <3>1, <3>2
    <3>4. pair[1] = p - 1 /\ pair[2] = p /\ pair[1] # p
      BY <1>1, <1>4, <3>2, <3>3
    <3>5. label(p - 1) # label(p) /\ label(p - 1) # "None of these"
      BY <2>1, <3>1, <3>4
    <3>6. a = p - 1 /\ b = p
      BY <2>4
    <3>7. p - 1 \in 1..(m - 1)
      BY <3>2, <3>3
    <3>8. a \in 1..m /\ b \in 1..m /\ b = a + 1 /\ p \in {a, b} /\ p # a
      BY <1>1, <1>4, <3>6, <3>7
    <3>9. label(a) # label(b) /\ label(a) # "None of these"
      BY <3>5, <3>6
    <3> HIDE DEF after, a, b
    <3> QED BY <2>4, <3>8, <3>9
  <2> QED BY <2>3, <2>4
<1> HIDE DEF after
<1>8. support[1] = s[a].event /\ support[2] = s[b].event
      /\ ToSet(support) = {s[a].event, s[b].event}
  <2>1. DOMAIN support = 1..2 /\ support[1] = s[a].event /\ support[2] = s[b].event
    BY DEF support
  <2>2. 1..2 = {1, 2}
    OBVIOUS
  <2> QED BY <2>1, <2>2 DEF ToSet
<1>9. ValidLineage(w, y)
  <2>1. ToSet(y.support) \subseteq {s[i].event : i \in DOMAIN s}
    BY <1>1, <1>6, <1>7, <1>8
  <2>2. s[p].event = Targets[q] /\ p \in DOMAIN s
    BY <1>1, <1>4
  <2>3. \A i \in DOMAIN s :
         /\ Groupings[w][VideoOf[s[i].event]] = x.split
         /\ s[i].start = (IF i = 1 THEN 0 ELSE s[i - 1].end)
         /\ s[i].end = s[i].start + w.length[s[i].event] /\ s[i].end > s[i].start
    BY <1>2 DEF ValidLineage
  <2>4. x.duration = s[Len(s)].end
    BY <1>2 DEF ValidLineage
  <2> HIDE DEF s, p, a, b
  <2> QED BY <1>6, <2>1, <2>2, <2>3, <2>4 DEF ValidLineage
<1>10. /\ w.label[y.support[1]] # w.label[y.support[2]]
       /\ Targets[y.question] = y.support[IF y.relation = "after" THEN 1 ELSE 2]
       /\ y.answer = w.label[y.support[IF y.relation = "after" THEN 2 ELSE 1]]
       /\ y.answer # "None of these"
  <2>1. CASE after
    <3>1. p = a /\ relation = "after" /\ answer = w.label[s[b].event]
      BY <1>7, <2>1 DEF relation, answer
    <3> HIDE DEF p, a, b
    <3> QED BY <1>4, <1>6, <1>7, <1>8, <2>1, <3>1
  <2>2. CASE ~after
    <3>1. p = b /\ relation = "before" /\ answer = w.label[s[a].event]
      BY <1>7, <2>2 DEF relation, answer
    <3> HIDE DEF p, a, b
    <3> QED BY <1>4, <1>6, <1>7, <1>8, <2>2, <3>1
  <2> QED BY <2>1, <2>2
<1>11. AcceptedExample(w, y)
  BY <1>2, <1>6, <1>9, <1>10 DEF AcceptedExample
<1> QED BY <1>6, <1>11 DEF y

\* The first of the shuffled questions up to a place, one more at a time.
LEMMA DrawnAreAsMany ==
  ASSUME NEW w \in Worlds, NEW E \in SUBSET Questions, IsFiniteSet(E),
         NEW count \in 0..Cardinality(E)
  PROVE  Drawn(w, E, count) \in SUBSET E /\ Cardinality(Drawn(w, E, count)) = count
<1> DEFINE s == w.shuffled
           L == Len(s)
           among(i) == {s[j] : j \in 1..i} \cap E
           enough == {i \in 0..L : Cardinality(among(i)) >= count}
           m == Min(enough)
<1>1. L \in Nat /\ DOMAIN s = 1..L /\ ToSet(s) = Questions
  BY LongRouteAssumption DEF LongRouteAssumption
<1>2. \A i \in 0..L : /\ among(i) \in SUBSET E /\ IsFiniteSet(among(i))
                      /\ Cardinality(among(i)) \in Nat
  <2> TAKE i \in 0..L
  <2>1. among(i) \in SUBSET E
    OBVIOUS
  <2> HIDE DEF among
  <2> QED BY <2>1, FS_Subset, FS_CardinalityType
<1>3. among(L) = E /\ among(0) = {}
  BY <1>1 DEF ToSet
<1>4. \A i \in 1..L : Cardinality(among(i)) <= Cardinality(among(i - 1)) + 1
  <2> TAKE i \in 1..L
  <2>1. i - 1 \in 0..L /\ i \in 0..L
    BY <1>1
  <2>2. among(i) \in SUBSET (among(i - 1) \cup {s[i]})
    <3>1. \A j \in 1..i : j = i \/ j \in 1..(i - 1)
      BY <1>1
    <3> QED BY <3>1
  <2> HIDE DEF among
  <2>3. /\ IsFiniteSet(among(i - 1) \cup {s[i]})
        /\ Cardinality(among(i - 1) \cup {s[i]})
             = IF s[i] \in among(i - 1) THEN Cardinality(among(i - 1))
               ELSE Cardinality(among(i - 1)) + 1
    BY <1>2, <2>1, FS_AddElement
  <2>4. Cardinality(among(i)) <= Cardinality(among(i - 1) \cup {s[i]})
    BY <2>2, <2>3, FS_Subset
  <2>5. Cardinality(among(i - 1)) \in Nat /\ Cardinality(among(i)) \in Nat
    BY <1>2, <2>1
  <2> QED BY <2>3, <2>4, <2>5
<1> HIDE DEF among
<1>5. count \in Nat
  BY FS_CardinalityType
<1>6. enough \in SUBSET Nat /\ enough # {}
  <2>1. L \in enough
    BY <1>1, <1>3, FS_CardinalityType
  <2> QED BY <1>1, <2>1
<1>7. m \in enough /\ \A i \in enough : m <= i
  <2> HIDE DEF enough
  <2> QED BY <1>6, LeastIsMin
<1>8. Drawn(w, E, count) = among(m)
  BY DEF Drawn, among
<1> HIDE DEF m
<1>9. m \in 0..L /\ Cardinality(among(m)) >= count
  BY <1>7
<1>10. Cardinality(among(m)) <= count
  <2>1. CASE m = 0
    <3>1. Cardinality(among(m)) = 0
      BY <1>3, <2>1, FS_EmptySet
    <3> QED BY <1>5, <3>1
  <2>2. CASE m # 0
    <3>1. m \in 1..L /\ m - 1 \in 0..L /\ ~(m <= m - 1)
      BY <1>1, <1>9, <2>2
    <3>2. m - 1 \notin enough
      BY <1>7, <3>1
    <3>3. ~(Cardinality(among(m - 1)) >= count)
      BY <3>1, <3>2
    <3>4. Cardinality(among(m)) <= Cardinality(among(m - 1)) + 1
      BY <1>4, <3>1
    <3>5. Cardinality(among(m - 1)) \in Nat /\ Cardinality(among(m)) \in Nat
      BY <1>2, <1>9, <3>1
    <3> QED BY <1>5, <3>3, <3>4, <3>5
  <2> QED BY <2>1, <2>2
<1>11. Cardinality(among(m)) = count /\ among(m) \in SUBSET E
  BY <1>2, <1>5, <1>9, <1>10
<1> QED BY <1>8, <1>11

LEMMA SharesAreBounded ==
  ASSUME NEW n \in Nat, NEW e \in Nat, Lower(n) <= Upper(n), Lower(n) <= e
  PROVE  /\ Min({Desired(n), e}) \in 0..e
         /\ 100 * Min({Desired(n), e}) \in (20 * n)..(30 * n)
<1> DEFINE lo == Lower(n)
           hi == Upper(n)
           r  == Rounded(n * MultiPercent, 100)
           d  == Desired(n)
           c  == Min({d, e})
<1>1. lo = (20 * n + 100 - 1) \div 100 /\ hi = (30 * n) \div 100
  BY DEF Lower, Upper, Ceiling
<1>2. lo \in Nat /\ hi \in Nat /\ 100 * lo >= 20 * n /\ 100 * hi <= 30 * n
  BY <1>1
<1>3. r \in Int
  <2> DEFINE t == n * MultiPercent
             u == t \div 100
             v == t % 100
  <2>1. MultiPercent \in Nat
    BY LongRouteAssumption DEF LongRouteAssumption
  <2>2. t \in Nat
    BY <2>1
  <2>3. r = IF 2 * v > 100 \/ (2 * v = 100 /\ u % 2 = 1) THEN u + 1 ELSE u
    BY DEF Rounded
  <2> HIDE DEF t, r
  <2>4. u \in Int
    BY <2>2
  <2> HIDE DEF u, v
  <2> QED BY <2>3, <2>4
<1> HIDE DEF lo, hi, r
<1>4. d = Min({Max({r, lo}), hi})
  BY DEF Desired, r, lo, hi
<1>5. Max({r, lo}) = (IF r >= lo THEN r ELSE lo)
  BY <1>2, <1>3, OfTwo
<1>6. Max({r, lo}) \in Int /\ Max({r, lo}) >= lo
  BY <1>2, <1>3, <1>5
<1>7. d = (IF Max({r, lo}) <= hi THEN Max({r, lo}) ELSE hi)
  <2> DEFINE M == Max({r, lo})
  <2>1. M \in Int /\ hi \in Int /\ d = Min({M, hi})
    BY <1>2, <1>4, <1>6
  <2> HIDE DEF M, d
  <2>2. d = (IF M <= hi THEN M ELSE hi)
    BY <2>1, OfTwo
  <2> QED BY <2>2 DEF M
<1>8. d \in Int /\ lo <= d /\ d <= hi
  <2>1. lo <= hi
    BY DEF lo, hi
  <2> QED BY <1>2, <1>6, <1>7, <2>1
<1>9. c = (IF d <= e THEN d ELSE e)
  <2> HIDE DEF d
  <2> QED BY <1>8, OfTwo
<1>10. lo <= e
  BY DEF lo
<1> HIDE DEF c, d
<1>11. c \in 0..e /\ 100 * c \in (20 * n)..(30 * n)
  <2>1. c \in Int /\ lo <= c /\ c <= hi /\ c <= e
    BY <1>2, <1>8, <1>9, <1>10
  <2> QED BY <1>2, <2>1
<1> QED BY <1>11 DEF c, d

LEMMA QuestionsAreFinite ==
  ASSUME NEW w \in Worlds
  PROVE  IsFiniteSet(Questions)
<1> DEFINE s == w.shuffled
<1>1. s \in Seq(Questions) /\ ToSet(s) = Questions
  BY LongRouteAssumption DEF LongRouteAssumption
<1>2. Len(s) \in Nat /\ s \in [1..Len(s) -> Questions] /\ DOMAIN s = 1..Len(s)
  BY <1>1
<1>3. \A q \in Questions : \E i \in 1..Len(s) : s[i] = q
  BY <1>1, <1>2 DEF ToSet
<1> HIDE DEF s
<1>4. s \in Surjection(1..Len(s), Questions) /\ IsFiniteSet(1..Len(s))
  BY <1>2, <1>3, FS_Interval DEF Surjection
<1> QED BY <1>4, FS_Surjection

LEMMA AcceptedExamples ==
  ASSUME NEW w \in Worlds
  PROVE  Accepted[w]
<1> DEFINE basic == Basic(w)
           A == Answerable(w)
           eligible == Eligible(w, basic)
           n == Cardinality(A)
           e == Cardinality(eligible)
           count == Min({Desired(n), e})
           drawn == Drawn(w, eligible, count)
           X == ExamplesOf[w]
           asking == {q \in DOMAIN X : X[q].template # "single_event"}
           Fit == /\ \A q \in DOMAIN X : AcceptedExample(w, X[q])
                  /\ 100 * Cardinality(asking)
                       \in (20 * Cardinality(DOMAIN X))..(30 * Cardinality(DOMAIN X))
<1> SUFFICES Fit
  BY DEF Accepted
<1>1. DOMAIN basic = A /\ \A q \in A : basic[q] = SingleExample(w, q)
  BY DEF Basic
<1>2. \A q \in A : q \in Questions /\ Plain(w, q, basic[q])
  BY <1>1, SingleExamples DEF Answerable
<1>3. /\ eligible \in SUBSET A /\ A \in SUBSET Questions
      /\ \A q \in eligible : Neighbours(w, basic[q]) # {}
  BY <1>1 DEF Eligible, Answerable
<1>4. X = Upgraded(w, basic)
  BY DEF ExamplesOf, Examples
<1> HIDE DEF basic, A, eligible, X
<1>5. /\ IsFiniteSet(A) /\ IsFiniteSet(eligible) /\ n \in Nat /\ e \in Nat
  BY <1>3, QuestionsAreFinite, FS_Subset, FS_CardinalityType
<1>6. X = IF Lower(n) > Upper(n) \/ e < Lower(n) THEN <<>> ELSE Upgrade(w, basic, eligible)
  BY <1>1, <1>4 DEF Upgraded, eligible
<1>7. CASE Lower(n) > Upper(n) \/ e < Lower(n)
  <2>1. DOMAIN X = {}
    BY <1>6, <1>7
  <2>2. asking = {} /\ Cardinality({}) = 0
    BY <2>1, FS_EmptySet
  <2> HIDE DEF asking
  <2> QED BY <2>1, <2>2
<1>8. CASE ~(Lower(n) > Upper(n) \/ e < Lower(n))
  <2>1. Lower(n) \in Int /\ Upper(n) \in Int
    BY <1>5 DEF Lower, Upper, Ceiling
  <2>2. count \in 0..e /\ 100 * count \in (20 * n)..(30 * n)
    <3>1. Lower(n) <= Upper(n) /\ Lower(n) <= e
      BY <1>5, <1>8, <2>1
    <3> HIDE DEF n, e
    <3> QED BY <1>5, <3>1, SharesAreBounded
  <2> HIDE DEF count
  <2>3. drawn \in SUBSET eligible /\ Cardinality(drawn) = count
    BY <1>3, <1>5, <2>2, DrawnAreAsMany
  <2>4. X = [q \in A |-> IF q \in drawn THEN MultiEvent(w, basic[q]) ELSE basic[q]]
    BY <1>1, <1>6, <1>8 DEF Upgrade, count
  <2> HIDE DEF drawn
  <2>5. \A q \in drawn : AcceptedExample(w, X[q]) /\ X[q].template # "single_event"
    <3> TAKE q \in drawn
    <3>1. q \in A /\ q \in Questions /\ X[q] = MultiEvent(w, basic[q])
      BY <1>2, <1>3, <2>3, <2>4
    <3>2. Plain(w, q, basic[q]) /\ Neighbours(w, basic[q]) # {}
      BY <1>2, <1>3, <2>3, <3>1
    <3> QED BY <3>1, <3>2, NeighbourExamples
  <2>6. \A q \in A \ drawn : AcceptedExample(w, X[q]) /\ X[q].template = "single_event"
    <3> TAKE q \in A \ drawn
    <3>1. X[q] = basic[q] /\ Plain(w, q, basic[q])
      BY <1>2, <2>4
    <3> DEFINE x == basic[q]
    <3>2. AcceptedExample(w, x)
      BY <3>1 DEF Plain
    <3>3. x.template = "single_event"
      <4> DEFINE split == x.split
                 p == x.position
                 s == x.segments
                 duration == x.duration
      <4>1. x = [question |-> q, split |-> split, position |-> p,
                 support |-> <<Targets[q]>>, template |-> "single_event", relation |-> "is",
                 answer |-> "its own", segments |-> s, duration |-> duration]
        BY <3>1 DEF Plain
      <4> HIDE DEF split, p, s, duration, x
      <4> QED BY <4>1
    <3> QED BY <3>1, <3>2, <3>3
  <2>7. DOMAIN X = A /\ asking = drawn
    BY <1>3, <2>3, <2>4, <2>5, <2>6
  <2> HIDE DEF asking
  <2>8. \A q \in DOMAIN X : AcceptedExample(w, X[q])
    BY <2>5, <2>6, <2>7
  <2> QED BY <2>2, <2>3, <2>7, <2>8
<1> QED BY <1>7, <1>8

\* Whatever the lengths, the labels, the ranking and the seed: each example is one a consumer
\* accepts, and if there are any, 20 to 30 % of them ask for a neighbour (_examples,
\* longroute.py:742-781; _validate_task8_lineage, dataset.py:562-691).
THEOREM ExamplesStayAccepted == BuildSpec => []ExamplesAreAccepted
<1>1. world \in Worlds => ExamplesAreAccepted
  BY AcceptedExamples DEF ExamplesAreAccepted
<1> QED BY <1>1, WorldStays, PTL

-----------------------------------------------------------------------------
\* The dataset and its sweeps.

USE SweepAssumption

\* The build that is named, or one that was still running where this one was named.
Named(identity, code, over) == code = identity.build \/ <<identity.build, code>> \in over

\* A sweep reads nothing before its authority, trains one of its seeds, and has come as far as
\* an uninterrupted training would have.
SweepSound(r, over) ==
    /\ r.at \in {"authority", "rows"} => r.records = {} /\ r.seed = 1
    /\ r.records # {} => r.authority = SidecarOf(r.records)
    /\ r.at \in {"seed", "train"} => r.seed \in DOMAIN Seeds
    /\ r.at = "train" =>
         /\ r.identity.seed = Seeds[r.seed] /\ r.step <= r.length
         /\ Named(r.identity, r.runs, over)
         /\ IsUninterrupted(r.model, r.identity, r.step, over)
    /\ \A x \in r.results : IsUninterrupted(x.model, x.identity, x.step, over)

CheckpointSound(s, c, over) ==
    Saved(c) => c.identity.seed = s /\ IsUninterrupted(c.model, c.identity, c.step, over)

IInv == /\ TypeOK
        /\ \A t \in Trainers : SweepSound(trainer[t], overtaken)
        /\ \A s \in SeedSet : CheckpointSound(s, checkpoint[s], overtaken)

-----------------------------------------------------------------------------
\* Two datasets with one authority are the same: ids are unique in a dataset, and the
\* digest of a row is the row.
LEMMA LoadedWithItsAuthority ==
  ASSUME NEW S \in SUBSET Records, NEW authority \in Sidecars, Loads(S, authority)
  PROVE  S \in Datasets /\ authority = SidecarOf(S)
<1>1. S \in Datasets /\ authority # NoSidecar
  BY DEF Loads, Datasets
<1>2. PICK R \in Datasets : authority = SidecarOf(R)
  BY <1>1 DEF Sidecars
<1>3. authority.digests = R
  BY <1>2 DEF SidecarOf
<1>4. S \subseteq R
  BY <1>3 DEF Loads, Inflates
<1>5. \A r, s \in R : r.id = s.id => r = s
  BY DEF Datasets, IsDataset
<1>6. {r.id : r \in R} = {r.id : r \in S}
  BY <1>3 DEF Loads
<1>7. R \subseteq S
  <2> SUFFICES ASSUME NEW r \in R PROVE r \in S
    OBVIOUS
  <2>1. r.id \in {q.id : q \in R}
    OBVIOUS
  <2>2. PICK s \in S : r.id = s.id
    BY <1>6, <2>1
  <2> QED BY <1>4, <1>5, <2>2
<1> QED BY <1>1, <1>2, <1>4, <1>7

\* A seed of the sweep is one of the seeds that have a checkpoint.
LEMMA SeedsHaveFiles ==
  ASSUME NEW i \in DOMAIN Seeds
  PROVE  Seeds[i] \in SeedSet /\ Seeds[i] \in Nat
  BY DEF SeedSet

LEMMA FreshIsUninterrupted ==
  ASSUME NEW identity \in Identities, NEW over
  PROVE  IsUninterrupted(Fresh(identity.seed), identity, 0, over)
<1> DEFINE m == Fresh(identity.seed)
<1>1. m.log = <<>> /\ Codes(m) = <<>>
  BY DEF Fresh, Codes
<1>2. Uninterrupted(identity, <<>>) = m
  BY DEF Uninterrupted, Fresh
<1> HIDE DEF m
<1> QED BY <1>1, <1>2 DEF IsUninterrupted, m

\* What was exact stays so when more builds are overtaken.
LEMMA ExactStays ==
  ASSUME NEW over, NEW more, over \subseteq more
  PROVE  /\ \A m, identity, steps :
              IsUninterrupted(m, identity, steps, over) => IsUninterrupted(m, identity, steps, more)
         /\ \A r : SweepSound(r, over) => SweepSound(r, more)
         /\ \A s, c : CheckpointSound(s, c, over) => CheckpointSound(s, c, more)
<1>1. \A m, identity, steps :
        IsUninterrupted(m, identity, steps, over) => IsUninterrupted(m, identity, steps, more)
  BY DEF IsUninterrupted
<1>2. \A identity, code : Named(identity, code, over) => Named(identity, code, more)
  BY DEF Named
<1>3. \A r : SweepSound(r, over) => SweepSound(r, more)
  BY <1>1, <1>2 DEF SweepSound
<1>4. \A s, c : CheckpointSound(s, c, over) => CheckpointSound(s, c, more)
  BY <1>1 DEF CheckpointSound
<1> QED BY <1>1, <1>3, <1>4

\* Training is exact step by step.
LEMMA StepIsUninterrupted ==
  ASSUME NEW identity \in Identities, NEW n \in Nat, NEW m \in Models, NEW over,
         NEW code \in Nat, Named(identity, code, over), IsUninterrupted(m, identity, n, over)
  PROVE  IsUninterrupted(Step(identity, code, m), identity, n + 1, over)
<1> DEFINE entry(i, c) == [drawn     |-> [seed |-> identity.seed, drawn |-> i - 1],
                           rows      |-> TrainRows(identity.records),
                           optimizer |-> i - 1,
                           config    |-> identity.config,
                           code      |-> c]
           new == Step(identity, code, m)
<1>1. /\ m.log \in Seq(Entries) /\ Len(m.log) = n /\ DOMAIN m.log = 1..n
      /\ \A i \in 1..n : m.log[i] \in Entries
  BY DEF IsUninterrupted, Models
<1>2. DOMAIN Codes(m) = 1..n /\ Len(Codes(m)) = n
  BY <1>1 DEF Codes
<1>3. /\ m.log = [i \in 1..n |-> entry(i, Codes(m)[i])]
      /\ m.optimizer = n /\ m.rng = [seed |-> identity.seed, drawn |-> n]
  BY <1>2 DEF IsUninterrupted, Uninterrupted
<1>4. \A i \in 1..n : m.log[i] = entry(i, m.log[i].code)
  BY <1>1, <1>3 DEF Codes
<1>5. [m.rng EXCEPT !.drawn = @ + 1] = [seed |-> identity.seed, drawn |-> n + 1]
  BY <1>3
<1>6. entry(n + 1, code) = [drawn |-> m.rng, rows |-> TrainRows(identity.records),
                            optimizer |-> m.optimizer, config |-> identity.config,
                            code |-> code]
  <2>1. (n + 1) - 1 = n
    OBVIOUS
  <2> QED BY <1>3, <2>1
<1>7. \A i, c : entry(i, c).code = c
  OBVIOUS
<1> HIDE DEF entry
<1>8. new = [log |-> Append(m.log, entry(n + 1, code)), optimizer |-> n + 1,
             rng |-> [seed |-> identity.seed, drawn |-> n + 1]]
  BY <1>3, <1>5, <1>6 DEF Step
<1>9. /\ DOMAIN new.log = 1..(n + 1) /\ Len(new.log) = n + 1
      /\ new.log = [i \in 1..(n + 1) |-> new.log[i]]
      /\ \A i \in 1..n : new.log[i] = m.log[i]
      /\ new.log[n + 1] = entry(n + 1, code)
  BY <1>1, <1>8
<1> HIDE DEF new
<1>10. \A i \in 1..(n + 1) : /\ new.log[i] = entry(i, new.log[i].code)
                             /\ Named(identity, new.log[i].code, over)
  <2>1. \A i \in 1..(n + 1) : i \in 1..n \/ i = n + 1
    OBVIOUS
  <2>2. \A i \in 1..n : Named(identity, m.log[i].code, over)
    BY <1>1 DEF IsUninterrupted, Named
  <2>3. \A i \in 1..n : /\ new.log[i] = entry(i, new.log[i].code)
                        /\ Named(identity, new.log[i].code, over)
    BY <1>4, <1>9, <2>2
  <2>4. /\ new.log[n + 1] = entry(n + 1, new.log[n + 1].code)
        /\ Named(identity, new.log[n + 1].code, over)
    BY <1>7, <1>9
  <2> QED BY <2>1, <2>3, <2>4
<1>11. Codes(new) = [i \in 1..(n + 1) |-> new.log[i].code] /\ Len(Codes(new)) = n + 1
  BY <1>9 DEF Codes
<1>12. new.log = [i \in 1..(n + 1) |-> entry(i, Codes(new)[i])]
  BY <1>9, <1>10, <1>11
<1>13. Uninterrupted(identity, Codes(new))
         = [log |-> [i \in 1..(n + 1) |-> entry(i, Codes(new)[i])], optimizer |-> n + 1,
            rng |-> [seed |-> identity.seed, drawn |-> n + 1]]
  BY <1>11 DEF Uninterrupted, entry
<1>14. new = Uninterrupted(identity, Codes(new))
  BY <1>8, <1>12, <1>13
<1> QED BY <1>9, <1>10, <1>14 DEF IsUninterrupted, Named, new

\* A step keeps the types.
LEMMA StepType ==
  ASSUME NEW identity \in Identities, NEW code \in Nat, NEW m \in Models
  PROVE  Step(identity, code, m) \in Models
<1> DEFINE entry == [drawn |-> m.rng, rows |-> TrainRows(identity.records),
                     optimizer |-> m.optimizer, config |-> identity.config, code |-> code]
<1>1. m.log \in Seq(Entries) /\ m.optimizer \in Nat /\ m.rng \in Rngs
  BY DEF Models
<1>2. entry \in Entries
  <2>1. TrainRows(identity.records) \in SUBSET Records
    BY DEF TrainRows, Identities, Datasets
  <2> QED BY <1>1, <2>1 DEF Entries, Identities
<1>3. [m.rng EXCEPT !.drawn = @ + 1] \in Rngs
  <2>1. \A r \in Rngs : r.drawn + 1 \in Nat
    BY DEF Rngs
  <2>2. \A r \in Rngs, n \in Nat : [r EXCEPT !.drawn = n] \in Rngs
    BY DEF Rngs
  <2> QED BY <1>1, <2>1, <2>2
<1> HIDE DEF entry
<1>5. Step(identity, code, m) = [log |-> Append(m.log, entry), optimizer |-> m.optimizer + 1,
                                 rng |-> [m.rng EXCEPT !.drawn = @ + 1]]
  BY DEF Step, entry
<1>6. Append(m.log, entry) \in Seq(Entries)
  BY <1>1, <1>2
<1> QED BY <1>1, <1>3, <1>5, <1>6 DEF Models

LEMMA FreshType ==
  ASSUME NEW seed \in Nat
  PROVE  Fresh(seed) \in Models
  BY DEF Fresh, Models, Rngs

\* A sweep that is idle, with any number of calls behind it, is sound.
LEMMA IdleIsSound ==
  ASSUME NEW calls \in Nat, NEW over
  PROVE  Idle(calls) \in Sweeps /\ SweepSound(Idle(calls), over)
<1>1. Nothing \in Identities
  BY DEF Nothing, Identities
<1>2. Fresh(0) \in Models
  BY FreshType
<1>3. NoSidecar \in Sidecars
  BY DEF Sidecars
<1>4. Idle(calls) \in Sweeps
  BY <1>1, <1>2, <1>3 DEF Idle, Sweeps
<1> QED BY <1>4 DEF Idle, SweepSound

-----------------------------------------------------------------------------
\* One trainer moves to a sound state and at most sound checkpoints are written.
LEMMA OneSweepMoves ==
  ASSUME IInv, NEW t \in Trainers, NEW new, new \in Sweeps, SweepSound(new, overtaken'),
         trainer' = [trainer EXCEPT ![t] = new], UNCHANGED <<datasetVars, build>>,
         checkpoint' \in [SeedSet -> Checkpoints],
         \A s \in SeedSet : CheckpointSound(s, checkpoint'[s], overtaken),
         overtaken \subseteq overtaken', overtaken' \subseteq Nat \X Nat
  PROVE  IInv'
<1>1. TypeOK'
  BY DEF IInv, TypeOK, datasetVars
<1>2. \A u \in Trainers : SweepSound(trainer'[u], overtaken')
  <2> SUFFICES ASSUME NEW u \in Trainers PROVE SweepSound(trainer'[u], overtaken')
    OBVIOUS
  <2>1. trainer'[u] = new \/ trainer'[u] = trainer[u]
    BY DEF IInv, TypeOK
  <2>2. SweepSound(trainer[u], overtaken')
    BY ExactStays DEF IInv
  <2> QED BY <2>1, <2>2
<1>3. \A s \in SeedSet : CheckpointSound(s, checkpoint'[s], overtaken')
  BY ExactStays
<1> QED BY <1>1, <1>2, <1>3 DEF IInv

\* The same where no checkpoint is written.
LEMMA OneSweepMovesAlone ==
  ASSUME IInv, NEW t \in Trainers, NEW new, new \in Sweeps, SweepSound(new, overtaken),
         trainer' = [trainer EXCEPT ![t] = new],
         UNCHANGED <<datasetVars, build, checkpoint, overtaken>>
  PROVE  IInv'
<1>1. overtaken' = overtaken /\ overtaken \subseteq Nat \X Nat /\ checkpoint' = checkpoint
  BY DEF IInv, TypeOK
<1>2. /\ checkpoint \in [SeedSet -> Checkpoints]
      /\ \A s \in SeedSet : CheckpointSound(s, checkpoint[s], overtaken)
  BY DEF IInv, TypeOK
<1> QED BY <1>1, <1>2, OneSweepMoves

LEMMA SweepFields ==
  ASSUME IInv, NEW t \in Trainers
  PROVE  /\ trainer[t] \in Sweeps /\ SweepSound(trainer[t], overtaken)
         /\ build \in Nat
         /\ trainer = [trainer EXCEPT ![t] = trainer[t]]
  BY DEF IInv, TypeOK

LEMMA RefusedIsSound ==
  ASSUME IInv, NEW t \in Trainers, Refused(t), UNCHANGED <<datasetVars, build, checkpoint, overtaken>>
  PROVE  IInv'
<1>1. trainer[t].calls \in Nat
  BY SweepFields DEF Sweeps
<1>2. trainer' = [trainer EXCEPT ![t] = Idle(trainer[t].calls)]
  BY DEF Refused
<1> QED BY <1>1, <1>2, IdleIsSound, OneSweepMovesAlone

LEMMA CallIsSound ==
  ASSUME IInv, NEW t \in Trainers, Call(t)
  PROVE  IInv'
<1>1. PICK c \in Configs, n \in Lengths, r \in BOOLEAN :
        trainer' = [trainer EXCEPT ![t] =
            [Idle(trainer[t].calls + 1) EXCEPT
                !.at = "authority", !.config = c, !.length = n, !.resume = r, !.runs = build]]
  BY DEF Call
<1> DEFINE idle == Idle(trainer[t].calls + 1)
           new == [idle EXCEPT !.at = "authority", !.config = c, !.length = n,
                               !.resume = r, !.runs = build]
<1>2. idle \in Sweeps /\ build \in Nat
  <2>1. trainer[t].calls + 1 \in Nat
    BY SweepFields DEF Sweeps
  <2> QED BY <2>1, IdleIsSound, SweepFields
<1>3. idle.records = {} /\ idle.seed = 1 /\ idle.results = {}
  BY DEF Idle
<1>4. new \in Sweeps
  BY <1>2 DEF Sweeps
<1>5. new.at = "authority" /\ new.records = {} /\ new.seed = 1 /\ new.results = {}
      /\ new.runs = build
  BY <1>2, <1>3 DEF Sweeps
<1>6. SweepSound(new, overtaken)
  BY <1>5 DEF SweepSound
<1>7. trainer' = [trainer EXCEPT ![t] = new] /\ UNCHANGED <<datasetVars, build, checkpoint, overtaken>>
  BY <1>1 DEF Call
<1> HIDE DEF new
<1> QED BY <1>4, <1>6, <1>7, OneSweepMovesAlone

LEMMA ReadAuthorityIsSound ==
  ASSUME IInv, NEW t \in Trainers, ReadAuthority(t)
  PROVE  IInv'
<1> DEFINE new == [trainer[t] EXCEPT !.at = "rows", !.authority = sidecar]
<1>1. CASE rows = {} \/ sidecar = NoSidecar
  BY <1>1, RefusedIsSound DEF ReadAuthority
<1>2. CASE ~(rows = {} \/ sidecar = NoSidecar)
  <2>1. trainer[t] \in Sweeps /\ SweepSound(trainer[t], overtaken) /\ trainer[t].at = "authority"
    BY SweepFields DEF ReadAuthority
  <2>2. new \in Sweeps
    BY <2>1 DEF IInv, TypeOK, Sweeps
  <2>3. SweepSound(new, overtaken)
    BY <2>1 DEF SweepSound, Sweeps
  <2>4. trainer' = [trainer EXCEPT ![t] = new]
    BY <1>2 DEF ReadAuthority, IInv, TypeOK
  <2>5. UNCHANGED <<datasetVars, build, checkpoint, overtaken>>
    BY DEF ReadAuthority
  <2> HIDE DEF new
  <2> QED BY <2>2, <2>3, <2>4, <2>5, OneSweepMovesAlone
<1> QED BY <1>1, <1>2

LEMMA ReadRowsIsSound ==
  ASSUME IInv, NEW t \in Trainers, ReadRows(t)
  PROVE  IInv'
<1> DEFINE new == [trainer[t] EXCEPT !.at = "seed", !.records = rows]
<1>1. CASE ~Loads(rows, trainer[t].authority)
  BY <1>1, RefusedIsSound DEF ReadRows
<1>2. CASE Loads(rows, trainer[t].authority)
  <2>1. trainer[t] \in Sweeps /\ SweepSound(trainer[t], overtaken) /\ trainer[t].at = "rows"
    BY SweepFields DEF ReadRows
  <2>2. trainer[t].authority \in Sidecars /\ rows \in SUBSET Records
    BY <2>1 DEF IInv, TypeOK, Sweeps, Datasets
  <2>3. rows \in Datasets /\ trainer[t].authority = SidecarOf(rows)
    BY <1>2, <2>2, LoadedWithItsAuthority
  <2>4. new \in Sweeps
    BY <2>1, <2>3 DEF Sweeps
  <2>5. 1 \in DOMAIN Seeds
    OBVIOUS
  <2>6. SweepSound(new, overtaken)
    BY <2>1, <2>3, <2>5 DEF SweepSound, Sweeps
  <2>7. trainer' = [trainer EXCEPT ![t] = new] /\ UNCHANGED <<datasetVars, build, checkpoint, overtaken>>
    BY <1>2 DEF ReadRows, IInv, TypeOK
  <2> HIDE DEF new
  <2> QED BY <2>4, <2>6, <2>7, OneSweepMovesAlone
<1> QED BY <1>1, <1>2

\* A checkpoint that is accepted is of this very training.
LEMMA BeginSeedIsSound ==
  ASSUME IInv, NEW t \in Trainers, BeginSeed(t)
  PROVE  IInv'
<1> DEFINE me       == trainer[t]
           seed     == Seeds[me.seed]
           identity == Identity(me.config, seed, me.records)
           c        == checkpoint[seed]
           step     == IF me.resume THEN c.step ELSE 0
           model    == IF me.resume THEN Restore(c) ELSE Fresh(seed)
           new      == [me EXCEPT !.at = "train", !.identity = identity,
                                  !.step = step, !.model = model]
<1>1. CASE TrainRows(me.records) = {} \/ (me.resume /\ ~Accepts(c, identity, me.length))
  BY <1>1, RefusedIsSound DEF BeginSeed
<1>2. CASE ~(TrainRows(me.records) = {} \/ (me.resume /\ ~Accepts(c, identity, me.length)))
  <2>1. me \in Sweeps /\ SweepSound(me, overtaken) /\ me.at = "seed" /\ build \in Nat
    BY SweepFields DEF BeginSeed
  <2>2. seed \in SeedSet /\ seed \in Nat
    BY <2>1, SeedsHaveFiles DEF SweepSound
  <2>3. /\ identity \in Identities /\ identity.seed = seed /\ identity.build = build
        /\ me.runs \in Nat
    BY <2>1, <2>2 DEF Identity, Identities, Sweeps
  <2>4. c \in Checkpoints /\ CheckpointSound(seed, c, overtaken)
    BY <2>2 DEF IInv, TypeOK
  <2>5. /\ step \in Nat /\ step <= me.length /\ model \in Models
        /\ IsUninterrupted(model, identity, step, overtaken)
    <3>1. CASE me.resume
      <4>1. Saved(c) /\ c.identity = identity /\ c.step <= me.length
        BY <1>2, <3>1 DEF Accepts
      <4> QED BY <2>4, <3>1, <4>1 DEF CheckpointSound, Restore, Checkpoints
    <3>2. CASE ~me.resume
      <4>1. me.length \in Nat
        BY <2>1 DEF Sweeps
      <4>2. IsUninterrupted(Fresh(seed), identity, 0, overtaken)
        BY <2>3, FreshIsUninterrupted
      <4> QED BY <2>2, <3>2, <4>1, <4>2, FreshType
    <3> QED BY <3>1, <3>2
  <2>6. /\ trainer' = [trainer EXCEPT ![t] = new] /\ UNCHANGED <<datasetVars, build, checkpoint>>
        /\ overtaken' = overtaken \cup ({<<build, me.runs>>} \ {<<build, build>>})
    BY <1>2 DEF BeginSeed, IInv, TypeOK
  <2>9. /\ overtaken \subseteq overtaken' /\ overtaken' \subseteq Nat \X Nat
        /\ Named(identity, me.runs, overtaken')
    BY <2>1, <2>3, <2>6 DEF IInv, TypeOK, Named
  <2>10. SweepSound(me, overtaken') /\ IsUninterrupted(model, identity, step, overtaken')
    <3> HIDE DEF me, identity, step, model
    <3>1. IsUninterrupted(model, identity, step, overtaken')
      BY <2>5, <2>9, ExactStays
    <3>2. SweepSound(me, overtaken')
      BY <2>1, <2>9, ExactStays
    <3> QED BY <3>1, <3>2
  <2>11. /\ checkpoint' \in [SeedSet -> Checkpoints]
         /\ \A s \in SeedSet : CheckpointSound(s, checkpoint'[s], overtaken)
    BY <2>6 DEF IInv, TypeOK
  <2> HIDE DEF identity, c, step, model
  <2>7. new \in Sweeps
    BY <2>1, <2>3, <2>5 DEF Sweeps
  <2>8. SweepSound(new, overtaken')
    BY <2>1, <2>3, <2>5, <2>9, <2>10 DEF SweepSound, Sweeps
  <2> HIDE DEF new
  <2> QED BY <2>6, <2>7, <2>8, <2>9, <2>11, OneSweepMoves
<1> QED BY <1>1, <1>2

LEMMA TrainStepIsSound ==
  ASSUME IInv, NEW t \in Trainers, TrainStep(t)
  PROVE  IInv'
<1> DEFINE me    == trainer[t]
           step  == me.step + 1
           model == Step(me.identity, me.runs, me.model)
           new   == [me EXCEPT !.step = step, !.model = model]
           file  == Payload(me.identity, step, model)
<1>1. me \in Sweeps /\ SweepSound(me, overtaken) /\ me.at = "train" /\ me.step < me.length
  BY SweepFields DEF TrainStep
<1>2. /\ me.identity \in Identities /\ me.runs \in Nat /\ me.model \in Models
      /\ me.step \in Nat /\ me.length \in Nat
  BY <1>1 DEF Sweeps
<1>3. /\ me.seed \in DOMAIN Seeds /\ me.identity.seed = Seeds[me.seed]
      /\ Named(me.identity, me.runs, overtaken)
      /\ IsUninterrupted(me.model, me.identity, me.step, overtaken)
  BY <1>1 DEF SweepSound
<1>4. step \in Nat /\ step <= me.length
  BY <1>1, <1>2
<1>5. model \in Models
  BY <1>2, StepType
<1>6. IsUninterrupted(model, me.identity, step, overtaken)
  BY <1>2, <1>3, StepIsUninterrupted
<1>7. /\ trainer' = [trainer EXCEPT ![t] = new] /\ UNCHANGED <<datasetVars, build, overtaken>>
      /\ \/ checkpoint' = [checkpoint EXCEPT ![me.identity.seed] = file]
         \/ checkpoint' = checkpoint
  BY DEF TrainStep, SaveCheckpoint, Payload, IInv, TypeOK
<1>8. file \in Checkpoints /\ CheckpointSound(me.identity.seed, file, overtaken)
  BY <1>2, <1>4, <1>5, <1>6 DEF Payload, Checkpoints, CheckpointSound
<1> HIDE DEF step, model
<1>9. new \in Sweeps
  BY <1>1, <1>4, <1>5 DEF Sweeps
<1>10. SweepSound(new, overtaken)
  BY <1>1, <1>3, <1>4, <1>5, <1>6 DEF SweepSound, Sweeps
<1> HIDE DEF new, file
<1>11. /\ checkpoint' \in [SeedSet -> Checkpoints]
       /\ \A s \in SeedSet : CheckpointSound(s, checkpoint'[s], overtaken)
  <2>1. /\ checkpoint \in [SeedSet -> Checkpoints]
        /\ \A s \in SeedSet : CheckpointSound(s, checkpoint[s], overtaken)
    BY DEF IInv, TypeOK
  <2> QED BY <1>7, <1>8, <2>1
<1>12. overtaken' = overtaken /\ overtaken \subseteq Nat \X Nat
  BY <1>7 DEF IInv, TypeOK
<1> QED BY <1>7, <1>9, <1>10, <1>11, <1>12, OneSweepMoves

LEMMA EndSeedIsSound ==
  ASSUME IInv, NEW t \in Trainers, EndSeed(t)
  PROVE  IInv'
<1> DEFINE me     == trainer[t]
           result == [identity |-> me.identity, step |-> me.length, model |-> me.model]
           new    == [me EXCEPT !.at = IF me.seed = Len(Seeds) THEN "returned" ELSE "seed",
                                !.seed = @ + 1, !.results = @ \cup {result}]
<1>1. me \in Sweeps /\ SweepSound(me, overtaken) /\ me.at = "train" /\ me.step >= me.length
  BY SweepFields DEF EndSeed
<1>2. me.step = me.length /\ me.seed \in DOMAIN Seeds
  BY <1>1 DEF SweepSound, Sweeps
<1>3. /\ result \in Checkpoints
      /\ IsUninterrupted(result.model, result.identity, result.step, overtaken)
  BY <1>1, <1>2 DEF SweepSound, Sweeps, Checkpoints
<1>4. me.seed + 1 \in Nat /\ (me.seed # Len(Seeds) => me.seed + 1 \in DOMAIN Seeds)
  BY <1>2
<1>5. trainer' = [trainer EXCEPT ![t] = new] /\ UNCHANGED <<datasetVars, build, checkpoint, overtaken>>
  BY DEF EndSeed, IInv, TypeOK
<1> HIDE DEF result
<1>6. new \in Sweeps
  BY <1>1, <1>3, <1>4 DEF Sweeps
<1>7. SweepSound(new, overtaken)
  BY <1>1, <1>3, <1>4 DEF SweepSound, Sweeps
<1> HIDE DEF new
<1> QED BY <1>5, <1>6, <1>7, OneSweepMovesAlone

\* HEAD moves under whoever is at work: what they do is noted when they ask for it.
LEMMA CommitIsSound ==
  ASSUME IInv, Commit
  PROVE  IInv'
  BY DEF IInv, TypeOK, Commit, datasetVars

LEMMA WritersAreSound ==
  ASSUME IInv, NEW w \in Writers, WriteRows(w) \/ WriteSidecar(w) \/ WriterDies(w),
         UNCHANGED <<build, checkpoint, trainer, overtaken>>
  PROVE  IInv'
<1>1. /\ rows \in Datasets \cup {{}} /\ sidecar \in Sidecars
      /\ writer \in [Writers -> [at : {"idle", "sidecar"}, records : Datasets \cup {{}},
                                 writes : Nat]]
      /\ \A v \in Writers : writer[v].at = "sidecar" => writer[v].records \in Datasets
  BY DEF IInv, TypeOK
<1>2. CASE WriteRows(w)
  <2>1. PICK study \in Studies :
          LET made == {Record(x) : x \in study}
          IN /\ IsDataset(made) /\ rows' = made /\ \A x \in study : InOneSplit(x)
             /\ writer' = [writer EXCEPT ![w] =
                  [at |-> "sidecar", records |-> made, writes |-> writer[w].writes + 1]]
    BY <1>2 DEF WriteRows
  <2> DEFINE made == {Record(x) : x \in study}
  <2>2. made \in Datasets
    BY <2>1 DEF Datasets, Records
  <2>3. writer[w].writes + 1 \in Nat
    BY <1>1
  <2> HIDE DEF made
  <2>4. rows' = made /\ sidecar' = sidecar
        /\ writer' = [writer EXCEPT ![w] =
             [at |-> "sidecar", records |-> made, writes |-> writer[w].writes + 1]]
    BY <1>2, <2>1 DEF WriteRows, made
  <2> QED BY <1>1, <2>2, <2>3, <2>4 DEF IInv, TypeOK
<1>3. CASE WriteSidecar(w) \/ WriterDies(w)
  <2>1. /\ rows' = rows /\ writer[w].at = "sidecar"
        /\ sidecar' = SidecarOf(writer[w].records) \/ sidecar' = sidecar
        /\ writer' = [writer EXCEPT ![w].at = "idle", ![w].records = {}]
    BY <1>3 DEF WriteSidecar, WriterDies
  <2>2. sidecar' \in Sidecars
    BY <1>1, <2>1 DEF Sidecars
  <2>3. /\ writer' \in [Writers -> [at : {"idle", "sidecar"}, records : Datasets \cup {{}},
                                   writes : Nat]]
        /\ \A v \in Writers : writer'[v].at = "sidecar" => writer'[v].records \in Datasets
    <3> DEFINE rest == [[writer[w] EXCEPT !.at = "idle"] EXCEPT !.records = {}]
    <3>1. writer' = [writer EXCEPT ![w] = rest]
      BY <1>1, <2>1
    <3>2. rest \in [at : {"idle", "sidecar"}, records : Datasets \cup {{}}, writes : Nat]
          /\ rest.at = "idle"
      BY <1>1
    <3> HIDE DEF rest
    <3> QED BY <1>1, <3>1, <3>2
  <2> QED BY <1>1, <2>1, <2>2, <2>3 DEF IInv, TypeOK
<1> QED BY <1>2, <1>3

-----------------------------------------------------------------------------
LEMMA InitIInv == Init => IInv
<1> SUFFICES ASSUME Init PROVE IInv
  OBVIOUS
<1>1. 0 \in Nat /\ 1 \in Nat
  OBVIOUS
<1>2. /\ NoCheckpoint \in Checkpoints /\ ~Saved(NoCheckpoint)
  <2>1. Nothing \in Identities /\ Fresh(0) \in Models
    BY FreshType DEF Nothing, Identities
  <2> QED BY <2>1 DEF NoCheckpoint, Checkpoints, Saved
<1>3. \A s \in SeedSet : CheckpointSound(s, checkpoint[s], overtaken)
  BY <1>2 DEF Init, CheckpointSound
<1>4. TypeOK
  BY <1>1, <1>2, IdleIsSound DEF Init, DatasetInit, TypeOK, Sidecars
<1>5. \A t \in Trainers : SweepSound(trainer[t], overtaken)
  BY <1>1, IdleIsSound DEF Init
<1> QED BY <1>3, <1>4, <1>5 DEF IInv

LEMMA NextIInv == IInv /\ [Next]_vars => IInv'
<1> SUFFICES ASSUME IInv, [Next]_vars PROVE IInv'
  OBVIOUS
<1>1. CASE UNCHANGED vars
  BY <1>1 DEF vars, IInv, TypeOK
<1>2. ASSUME NEW w \in Writers, WriteRows(w) \/ WriteSidecar(w) \/ WriterDies(w),
             UNCHANGED <<build, checkpoint, trainer, overtaken>>
      PROVE  IInv'
  BY <1>2, WritersAreSound
<1>3. ASSUME NEW t \in Trainers, Call(t) \/ ReadAuthority(t) \/ ReadRows(t)
      PROVE  IInv'
  BY <1>3, CallIsSound, ReadAuthorityIsSound, ReadRowsIsSound
<1>4. ASSUME NEW t \in Trainers, BeginSeed(t) \/ TrainStep(t) \/ EndSeed(t)
      PROVE  IInv'
  BY <1>4, BeginSeedIsSound, TrainStepIsSound, EndSeedIsSound
<1>5. ASSUME NEW t \in Trainers, Dies(t)
      PROVE  IInv'
  BY <1>5, RefusedIsSound DEF Dies
<1>6. CASE Commit
  BY <1>6, CommitIsSound
<1> QED BY <1>1, <1>2, <1>3, <1>4, <1>5, <1>6 DEF Next

LEMMA IInvHolds == Spec => []IInv
  BY InitIInv, NextIInv, PTL DEF Spec

\* Rows are only ever held together with the authority that was written for them, whichever
\* writers died or wrote between the two reads (load_oracle_records, dataset.py:1226).
THEOREM LoadsStayWhole == Spec => []LoadsAreWholeWrites
<1>1. IInv => LoadsAreWholeWrites
  BY DEF IInv, SweepSound, LoadsAreWholeWrites
<1> QED BY <1>1, IInvHolds, PTL

\* A row of a dataset has all the videos of its example in its split.
LEMMA RowsAreInOneSplit ==
  ASSUME NEW r \in Records
  PROVE  \A v \in r.videos : Assignment[r.manifest][v] = r.split
  BY DEF Records, Record, InOneSplit

\* No step behind a checkpoint used a row whose video has dev rows in its dataset, or whose
\* example shares a video with a dev row's of the same manifest (OracleBCDataset,
\* dataset.py:899; _validate_task8_lineage, dataset.py:618-640).
THEOREM DevStaysUnseen == Spec => []TrainingSeesNoDevVideo
<1>1. IInv => TrainingSeesNoDevVideo
  <2> SUFFICES ASSUME IInv, NEW s \in SeedSet, Saved(checkpoint[s]),
                      NEW i \in DOMAIN checkpoint[s].model.log,
                      NEW r \in checkpoint[s].model.log[i].rows,
                      NEW d \in checkpoint[s].identity.records,
                      d.split # "train"
               PROVE  /\ r.video # d.video
                      /\ r.manifest = d.manifest => r.videos \cap d.videos = {}
    BY DEF TrainingSeesNoDevVideo
  <2> DEFINE c == checkpoint[s]
             S == c.identity.records
  <2>1. c \in Checkpoints /\ CheckpointSound(s, c, overtaken)
    BY DEF IInv, TypeOK
  <2>2. c.model = Uninterrupted(c.identity, Codes(c.model))
    BY <2>1 DEF CheckpointSound, IsUninterrupted
  <2>3. c.model.log[i].rows = TrainRows(S)
    <3>1. DOMAIN Codes(c.model) = DOMAIN c.model.log
      BY DEF Codes
    <3> QED BY <2>2, <3>1 DEF Uninterrupted
  <2>4. r \in S /\ r.split = "train"
    BY <2>3 DEF TrainRows
  <2>5. S \in Datasets
    BY <2>1 DEF Checkpoints, Identities
  <2>6. r.video = d.video => r.split = d.split
    BY <2>4, <2>5 DEF Datasets, IsDataset
  <2>7. r \in Records /\ d \in Records
    BY <2>4, <2>5 DEF Datasets
  <2>8. r.manifest = d.manifest => r.videos \cap d.videos = {}
    BY <2>4, <2>7, RowsAreInOneSplit
  <2> QED BY <2>4, <2>6, <2>8
<1> QED BY <1>1, IInvHolds, PTL

\* Checkpoints and results are those of an uninterrupted training, however many processes
\* died, resumed and wrote each other's files, and however often HEAD moved: a step that the
\* named build did not run is that of a process which asked for the commit but ran what it had
\* loaded (train_bc.py:348, 576, 787).
THEOREM TrainingStaysExact == Spec => []TrainingIsExact
<1>1. IInv => TrainingIsExact
  BY DEF IInv, SweepSound, CheckpointSound, TrainingIsExact, CheckpointsAreExact,
         ResultsAreExact
<1> QED BY <1>1, IInvHolds, PTL
-----------------------------------------------------------------------------
\* The directory of the long videos.

\* No video file is again what it was before.
NotAfter(f, g) == f.train <= g.train /\ f.eval <= g.eval

Hashed  == {"audit", "begin", "write", "recheck", "publish", "announce", "point"}
Audited == {"begin", "write", "recheck"}
Checked == {"publish", "announce", "point"}

\* What a build knows.  Until it reads the hashes again, the files it has audited lie
\* between those it has hashed and those that are there, so that if the last two are equal
\* it has audited what it has hashed.
BuildSound(r) ==
    /\ r.at \in Hashed => r.seen \in Snapshots /\ NotAfter(r.seen, files)
    /\ r.at \in Audited =>
         \E f \in Snapshots : NotAfter(r.seen, f) /\ NotAfter(f, files) /\ ~Finding(world, f)
    /\ r.at \in {"write", "recheck"} \cup Checked => Buildable(world)
    /\ r.at \in Checked => ~Finding(world, r.seen)

\* The directory a build owns is there, is its own, and was never current.
OwnerSound(r) ==
    /\ r.owns => r.at \in {"announce", "point", "abort", "remove"}
    /\ r.at \in {"announce", "point", "remove"} => r.owns
    /\ r.owns => /\ r.seen \in Snapshots \ ever
                 /\ generations[r.seen] = IF r.at = "remove" THEN "part" ELSE "whole"

OwnersDiffer ==
    \A b, c \in Builders :
        builder[b].owns /\ builder[c].owns /\ builder[b].seen = builder[c].seen => b = c

\* What was ever current is whole and audited.
EverSound ==
    /\ \A s \in ever : generations[s] = "whole" /\ ~Finding(world, s) /\ Buildable(world)
    /\ pointer # None => pointer \in ever

BuildIInv == /\ BuildTypeOK
             /\ \A b \in Builders : BuildSound(builder[b])
             /\ \A b \in Builders : OwnerSound(builder[b])
             /\ OwnersDiffer
             /\ EverSound
             /\ FailedBuildsLeaveNothing

Entry == [at : Places, seen : Snapshots \cup {None}, owns : BOOLEAN]

LEMMA NoneIsNoSnapshot == None \notin Snapshots
  BY BuildAssumption DEF None, Snapshots, Versions

LEMMA VersionsAreOrdered ==
  ASSUME NEW f \in Snapshots, NEW g \in Snapshots, NotAfter(f, g)
  PROVE  /\ NotAfter(f, f)
         /\ NotAfter(g, f) => f = g
         /\ \A h \in Snapshots : NotAfter(g, h) => NotAfter(f, h)
  BY BuildAssumption DEF NotAfter, Snapshots, Versions

LEMMA InitBuildIInv == BuildInit => BuildIInv
<1> SUFFICES ASSUME BuildInit PROVE BuildIInv
  OBVIOUS
<1> USE BuildAssumption DEF BuildInit, Resting
<1>1. BuildTypeOK
  BY DEF BuildTypeOK, Snapshots, Versions, Places
<1>2. \A b \in Builders : BuildSound(builder[b]) /\ OwnerSound(builder[b])
  BY DEF BuildSound, OwnerSound, Hashed, Audited, Checked
<1>3. OwnersDiffer /\ EverSound /\ FailedBuildsLeaveNothing
  BY DEF OwnersDiffer, EverSound, FailedBuildsLeaveNothing
<1> QED BY <1>1, <1>2, <1>3 DEF BuildIInv

\* A build that goes on, or that ends, with the directories as they are.
LEMMA OneBuildMoves ==
  ASSUME BuildIInv, NEW b \in Builders,
         builder' \in [Builders -> Entry],
         \A c \in Builders \ {b} : builder'[c] = builder[c],
         UNCHANGED <<world, files, generations, pointer, ever>>,
         lastAttempt' \in {"none", "complete", "failed"} \X (Snapshots \cup {None}),
         faults' \in 0..MaxFaults, deaths' \in 0..MaxDeaths,
         torn \subseteq torn', torn' \subseteq Snapshots,
         BuildSound(builder[b])', OwnerSound(builder[b])',
         builder'[b].owns => builder[b].owns /\ builder'[b].seen = builder[b].seen,
         builder[b].owns => builder'[b].owns \/ builder[b].seen \in torn'
  PROVE  BuildIInv'
<1> USE DEF BuildIInv
<1>1. BuildTypeOK'
  BY DEF BuildTypeOK, Entry, Snapshots
<1>2. ASSUME NEW c \in Builders
      PROVE  BuildSound(builder[c])' /\ OwnerSound(builder[c])'
  <2>1. CASE c = b
    BY <2>1
  <2>2. CASE c # b
    <3>1. builder'[c] = builder[c] /\ BuildSound(builder[c]) /\ OwnerSound(builder[c])
      BY <2>2
    <3>2. BuildSound(builder[c])'
      BY <3>1 DEF BuildSound, NotAfter, Finding, Alike, Buildable
    <3>3. OwnerSound(builder[c])'
      BY <3>1 DEF OwnerSound
    <3> QED BY <3>2, <3>3
  <2> QED BY <2>1, <2>2
<1>3. OwnersDiffer'
  BY DEF OwnersDiffer
<1>4. EverSound'
  BY DEF EverSound, Finding, Alike, Buildable
<1>5. FailedBuildsLeaveNothing'
  <2> SUFFICES ASSUME NEW s \in Snapshots \ (ever \cup torn'), generations[s] # "absent"
               PROVE  \E c \in Builders : builder'[c].owns /\ builder'[c].seen = s
    BY DEF FailedBuildsLeaveNothing, Snapshots
  <2>1. PICK c \in Builders : builder[c].owns /\ builder[c].seen = s
    BY DEF FailedBuildsLeaveNothing
  <2>2. CASE c = b
    <3>1. builder'[b].owns
      BY <2>1, <2>2
    <3>2. builder'[b].seen = s
      BY <2>1, <2>2, <3>1
    <3> QED BY <3>1, <3>2
  <2>3. CASE c # b
    BY <2>1, <2>3
  <2> QED BY <2>2, <2>3
<1> QED BY <1>1, <1>2, <1>3, <1>4, <1>5

LEMMA OnlyThePlaceMoves ==
  ASSUME builder \in [Builders -> Entry], NEW b \in Builders, NEW p \in Places, Go(b, p)
  PROVE  /\ builder' \in [Builders -> Entry]
         /\ \A c \in Builders \ {b} : builder'[c] = builder[c]
         /\ builder'[b] = [builder[b] EXCEPT !.at = p]
  BY DEF Go, Entry

\* The steps of a build before it publishes, and those that come to nothing.
LEMMA QuietStepsKeepBuildIInv ==
  ASSUME BuildIInv, NEW b \in Builders,
         \/ Start(b) \/ Validate(b) \/ Snapshot(b) \/ Audit(b) \/ Begin(b) \/ Write(b)
         \/ Recheck(b) \/ Announce(b) \/ RecordFailure(b) \/ Fault(b) \/ Die(b)
  PROVE  BuildIInv'
<1> DEFINE r == builder[b]
<1>1. /\ BuildTypeOK /\ BuildSound(r) /\ OwnerSound(r)
      /\ r \in Entry /\ builder \in [Builders -> Entry]
      /\ files \in Snapshots /\ (r.owns => r.seen \in Snapshots)
  BY DEF BuildIInv, BuildTypeOK, Entry, OwnerSound
<1> USE DEF BuildTypeOK, Entry, Places, Go, Fails, Resting, disk, counters
<1>2. CASE Start(b)
  <2>1. builder'[b] = [r EXCEPT !.at = "validate"]
    BY <1>1, <1>2 DEF Start
  <2>2. BuildSound(builder[b])' /\ OwnerSound(builder[b])'
    BY <1>1, <1>2, <2>1 DEF Start, BuildSound, OwnerSound, Hashed, Audited, Checked
  <2> QED BY <1>1, <1>2, <2>1, <2>2, OneBuildMoves DEF Start
<1>3. CASE Validate(b)
  <2>1. builder'[b] = [r EXCEPT !.at = "snapshot"] \/ builder'[b] = [r EXCEPT !.at = "abort"]
    BY <1>1, <1>3 DEF Validate
  <2>2. BuildSound(builder[b])' /\ OwnerSound(builder[b])'
    BY <1>1, <1>3, <2>1 DEF Validate, BuildSound, OwnerSound, Hashed, Audited, Checked
  <2>3. builder' \in [Builders -> Entry] /\ \A c \in Builders \ {b} : builder'[c] = builder[c]
    <3>1. Go(b, "snapshot") \/ Go(b, "abort")
      BY <1>1, <1>3 DEF Validate
    <3> QED BY <1>1, <3>1, OnlyThePlaceMoves
  <2>4. builder'[b].owns => r.owns /\ builder'[b].seen = r.seen
    BY <1>1, <2>1
  <2> QED BY <1>1, <1>3, <2>2, <2>3, <2>4, OneBuildMoves DEF Validate
<1>4. CASE Snapshot(b)
  <2>1. builder'[b] = [r EXCEPT !.at = "audit", !.seen = files]
    BY <1>1, <1>4 DEF Snapshot
  <2>2. NotAfter(files, files)
    BY <1>1, BuildAssumption DEF NotAfter, Snapshots, Versions
  <2>3. BuildSound(builder[b])' /\ OwnerSound(builder[b])'
    BY <1>1, <1>4, <2>1, <2>2
       DEF Snapshot, BuildSound, OwnerSound, Hashed, Audited, Checked, NotAfter
  <2> QED BY <1>1, <1>4, <2>1, <2>3, OneBuildMoves DEF Snapshot, OwnerSound
<1>5. CASE Audit(b)
  <2>1. \/ builder'[b] = [r EXCEPT !.at = "begin"] /\ ~Finding(world, files)
        \/ builder'[b] = [r EXCEPT !.at = "abort"]
    BY <1>1, <1>5 DEF Audit
  <2>2. NotAfter(files, files)
    BY <1>1, BuildAssumption DEF NotAfter, Snapshots, Versions
  <2>3. BuildSound(builder[b])' /\ OwnerSound(builder[b])'
    BY <1>1, <1>5, <2>1, <2>2
       DEF Audit, BuildSound, OwnerSound, Hashed, Audited, Checked, NotAfter, Finding, Alike
  <2>4. builder' \in [Builders -> Entry] /\ \A c \in Builders \ {b} : builder'[c] = builder[c]
    <3>1. Go(b, "begin") \/ Go(b, "abort")
      BY <1>1, <1>5 DEF Audit
    <3> QED BY <1>1, <3>1, OnlyThePlaceMoves
  <2>5. builder'[b].owns => r.owns /\ builder'[b].seen = r.seen
    BY <1>1, <2>1
  <2> QED BY <1>1, <1>5, <2>3, <2>4, <2>5, OneBuildMoves DEF Audit
<1>6. CASE Begin(b)
  <2>1. \/ builder'[b] = [r EXCEPT !.at = "write"] /\ Buildable(world)
        \/ builder'[b] = [r EXCEPT !.at = "abort"]
    BY <1>1, <1>6 DEF Begin
  <2>2. BuildSound(builder[b])' /\ OwnerSound(builder[b])'
    BY <1>1, <1>6, <2>1 DEF Begin, BuildSound, OwnerSound, Hashed, Audited, Checked,
                            NotAfter, Finding, Alike, Buildable
  <2>3. builder' \in [Builders -> Entry] /\ \A c \in Builders \ {b} : builder'[c] = builder[c]
    <3>1. Go(b, "write") \/ Go(b, "abort")
      BY <1>1, <1>6 DEF Begin
    <3> QED BY <1>1, <3>1, OnlyThePlaceMoves
  <2>4. builder'[b].owns => r.owns /\ builder'[b].seen = r.seen
    BY <1>1, <2>1
  <2> QED BY <1>1, <1>6, <2>2, <2>3, <2>4, OneBuildMoves DEF Begin
<1>7. CASE Write(b)
  <2>1. builder'[b] = [r EXCEPT !.at = "recheck"]
    BY <1>1, <1>7 DEF Write
  <2>2. BuildSound(builder[b])' /\ OwnerSound(builder[b])'
    BY <1>1, <1>7, <2>1 DEF Write, BuildSound, OwnerSound, Hashed, Audited, Checked,
                            NotAfter, Finding, Alike, Buildable
  <2> QED BY <1>1, <1>7, <2>1, <2>2, OneBuildMoves DEF Write
<1>8. CASE Recheck(b)
  <2>1. \/ builder'[b] = [r EXCEPT !.at = "publish"] /\ files = r.seen
        \/ builder'[b] = [r EXCEPT !.at = "abort"]
    BY <1>1, <1>8 DEF Recheck
  \* What was audited lies between equal files.
  <2>2. ASSUME files = r.seen PROVE ~Finding(world, r.seen)
    <3>1. PICK f \in Snapshots : NotAfter(r.seen, f) /\ NotAfter(f, files) /\ ~Finding(world, f)
      BY <1>1, <1>8 DEF Recheck, BuildSound, Audited
    <3>2. f = files
      BY <1>1, <2>2, <3>1, VersionsAreOrdered
    <3> QED BY <2>2, <3>1, <3>2
  <2>3. BuildSound(builder[b])' /\ OwnerSound(builder[b])'
    BY <1>1, <1>8, <2>1, <2>2 DEF Recheck, BuildSound, OwnerSound, Hashed, Audited, Checked,
                                  NotAfter, Finding, Alike, Buildable
  <2>4. builder' \in [Builders -> Entry] /\ \A c \in Builders \ {b} : builder'[c] = builder[c]
    <3>1. Go(b, "publish") \/ Go(b, "abort")
      BY <1>1, <1>8 DEF Recheck
    <3> QED BY <1>1, <3>1, OnlyThePlaceMoves
  <2>5. builder'[b].owns => r.owns /\ builder'[b].seen = r.seen
    BY <1>1, <2>1
  <2> QED BY <1>1, <1>8, <2>3, <2>4, <2>5, OneBuildMoves DEF Recheck
<1>9. CASE Announce(b)
  <2>1. builder'[b] = [r EXCEPT !.at = "point"]
    BY <1>1, <1>9 DEF Announce
  <2>2. BuildSound(builder[b])' /\ OwnerSound(builder[b])'
    BY <1>1, <1>9, <2>1 DEF Announce, BuildSound, OwnerSound, Hashed, Audited, Checked,
                            NotAfter, Finding, Alike, Buildable
  <2> QED BY <1>1, <1>9, <2>1, <2>2, OneBuildMoves DEF Announce
<1>10. CASE RecordFailure(b)
  <2>1. builder'[b] = Resting
    BY <1>1, <1>10 DEF RecordFailure
  <2>2. BuildSound(builder[b])' /\ OwnerSound(builder[b])'
    BY <2>1 DEF BuildSound, OwnerSound, Hashed, Audited, Checked
  <2> QED BY <1>1, <1>10, <2>1, <2>2, OneBuildMoves DEF RecordFailure, OwnerSound
<1>11. CASE Fault(b)
  <2>1. faults' \in 0..MaxFaults
    BY <1>1, <1>11, BuildAssumption DEF Fault
  <2>2. CASE r.at \in {"abort", "remove", "record"}
    <3>1. builder'[b] = Resting /\ torn' = (IF r.owns THEN torn \cup {r.seen} ELSE torn)
      BY <1>1, <1>11, <2>2 DEF Fault
    <3>2. BuildSound(builder[b])' /\ OwnerSound(builder[b])'
      BY <3>1 DEF BuildSound, OwnerSound, Hashed, Audited, Checked
    <3>3. builder' \in [Builders -> Entry] /\ \A c \in Builders \ {b} : builder'[c] = builder[c]
      <4>1. builder' = [builder EXCEPT ![b] = Resting] /\ Resting \in Entry
        BY <1>11, <2>2 DEF Fault
      <4> HIDE DEF Resting
      <4> QED BY <1>1, <4>1
    <3>4. builder'[b].owns => r.owns /\ builder'[b].seen = r.seen
      BY <1>1, <3>1
    <3>5. torn \subseteq torn' /\ torn' \subseteq Snapshots /\ (r.owns => r.seen \in torn')
      BY <1>1, <3>1
    <3> QED BY <1>1, <1>11, <2>1, <3>2, <3>3, <3>4, <3>5, OneBuildMoves DEF Fault
  <2>3. CASE r.at \notin {"abort", "remove", "record"}
    <3>1. builder'[b] = [r EXCEPT !.at = "abort"] /\ UNCHANGED torn
      BY <1>1, <1>11, <2>3 DEF Fault
    <3>2. BuildSound(builder[b])' /\ OwnerSound(builder[b])'
      BY <1>1, <1>11, <2>3, <3>1 DEF Fault, BuildSound, OwnerSound, Hashed, Audited, Checked
    <3>3. builder' \in [Builders -> Entry] /\ \A c \in Builders \ {b} : builder'[c] = builder[c]
      <4>1. Go(b, "abort")
        BY <1>1, <1>11, <2>3 DEF Fault
      <4> QED BY <1>1, <4>1, OnlyThePlaceMoves
    <3>4. builder'[b].owns => r.owns /\ builder'[b].seen = r.seen
      BY <1>1, <3>1
    <3>5. torn' \subseteq Snapshots /\ (r.owns => builder'[b].owns)
      BY <1>1, <3>1
    <3> QED BY <1>1, <1>11, <2>1, <3>1, <3>2, <3>3, <3>4, <3>5, OneBuildMoves DEF Fault
  <2> QED BY <2>2, <2>3
<1>12. CASE Die(b)
  <2>1. deaths' \in 0..MaxDeaths
    BY <1>1, <1>12, BuildAssumption DEF Die
  <2>2. builder'[b] = Resting /\ torn' = (IF r.owns THEN torn \cup {r.seen} ELSE torn)
    BY <1>1, <1>12 DEF Die
  <2>3. BuildSound(builder[b])' /\ OwnerSound(builder[b])'
    BY <2>2 DEF BuildSound, OwnerSound, Hashed, Audited, Checked
  <2> QED BY <1>1, <1>12, <2>1, <2>2, <2>3, OneBuildMoves DEF Die
<1> QED BY <1>2, <1>3, <1>4, <1>5, <1>6, <1>7, <1>8, <1>9, <1>10, <1>11, <1>12

\* Only one build creates the directory of an attempt, and from then on owns it.
LEMMA PublishKeepsBuildIInv ==
  ASSUME BuildIInv, NEW b \in Builders, Publish(b)
  PROVE  BuildIInv'
<1> DEFINE r == builder[b]
<1>1. /\ BuildTypeOK /\ BuildSound(r) /\ OwnerSound(r)
      /\ r \in Entry /\ builder \in [Builders -> Entry]
  BY DEF BuildIInv, BuildTypeOK, Entry
<1>2. r.seen \in Snapshots /\ r.at = "publish" /\ ~r.owns
  BY <1>1 DEF Publish, BuildSound, OwnerSound, Hashed
<1>3. CASE generations[r.seen] # "absent"
  <2>1. Go(b, "abort") /\ UNCHANGED <<world, files, generations, pointer, lastAttempt, counters>>
    BY <1>3 DEF Publish, Fails
  <2>2. /\ builder' \in [Builders -> Entry]
        /\ \A c \in Builders \ {b} : builder'[c] = builder[c]
        /\ builder'[b] = [r EXCEPT !.at = "abort"]
    BY <1>1, <2>1, OnlyThePlaceMoves DEF Places
  <2>3. BuildSound(builder[b])' /\ OwnerSound(builder[b])'
    BY <1>1, <1>2, <2>2 DEF Entry, BuildSound, OwnerSound, Hashed, Audited, Checked
  <2> QED BY <1>1, <1>2, <2>1, <2>2, <2>3, OneBuildMoves DEF Entry, BuildTypeOK, counters
<1>4. CASE generations[r.seen] = "absent"
  <2>1. /\ builder' = [builder EXCEPT ![b].at = "announce", ![b].owns = TRUE]
        /\ generations' = [generations EXCEPT ![r.seen] = "whole"]
        /\ UNCHANGED <<world, files, pointer, lastAttempt, counters>>
    BY <1>4 DEF Publish
  <2>2. /\ builder' \in [Builders -> Entry]
        /\ \A c \in Builders \ {b} : builder'[c] = builder[c]
        /\ builder'[b] = [r EXCEPT !.at = "announce", !.owns = TRUE]
    BY <1>1, <2>1 DEF Entry, Places
  <2>3. /\ generations' \in [Snapshots -> {"absent", "whole", "part"}]
        /\ generations'[r.seen] = "whole"
        /\ \A s \in Snapshots \ {r.seen} : generations'[s] = generations[s]
    BY <1>1, <1>2, <2>1 DEF BuildTypeOK
  <2>4. r.seen \notin ever
    BY <1>4 DEF BuildIInv, EverSound
  <2>5. \A c \in Builders : builder[c].owns => builder[c].seen # r.seen
    BY <1>4 DEF BuildIInv, OwnerSound
  <2>6. BuildTypeOK'
    BY <1>1, <2>1, <2>2, <2>3 DEF BuildTypeOK, Entry, Snapshots, counters
  <2>7. ASSUME NEW c \in Builders PROVE BuildSound(builder[c])' /\ OwnerSound(builder[c])'
    <3>1. CASE c = b
      BY <1>1, <1>2, <2>1, <2>2, <2>3, <2>4, <3>1
         DEF Entry, BuildSound, OwnerSound, Hashed, Audited, Checked, Finding, Alike, Buildable,
             NotAfter, counters, Snapshots
    <3>2. CASE c # b
      <4>1. builder'[c] = builder[c] /\ BuildSound(builder[c]) /\ OwnerSound(builder[c])
        BY <2>2, <3>2 DEF BuildIInv
      <4>2. BuildSound(builder[c])'
        BY <2>1, <4>1 DEF BuildSound, NotAfter, Finding, Alike, Buildable
      <4>3. OwnerSound(builder[c])'
        BY <2>1, <2>3, <2>5, <4>1 DEF OwnerSound, counters, Snapshots
      <4> QED BY <4>2, <4>3
    <3> QED BY <3>1, <3>2
  <2>8. OwnersDiffer'
    <3>1. \A c \in Builders \ {b} : builder'[c].owns => builder'[c].seen # r.seen
      BY <2>2, <2>5
    <3>2. builder'[b].seen = r.seen
      BY <1>1, <2>2 DEF Entry
    <3> QED BY <2>2, <3>1, <3>2 DEF BuildIInv, OwnersDiffer
  <2>9. EverSound'
    BY <2>1, <2>3, <2>4 DEF BuildIInv, BuildTypeOK, EverSound, Finding, Alike, Buildable, counters
  <2>10. FailedBuildsLeaveNothing'
    <3> SUFFICES ASSUME NEW s \in Snapshots \ (ever \cup torn), generations'[s] # "absent"
                 PROVE  \E c \in Builders : builder'[c].owns /\ builder'[c].seen = s
      BY <2>1 DEF FailedBuildsLeaveNothing, Snapshots, counters
    <3>1. CASE s = r.seen
      BY <1>1, <2>2, <3>1 DEF Entry
    <3>2. CASE s # r.seen
      <4>1. PICK c \in Builders : builder[c].owns /\ builder[c].seen = s
        BY <2>3, <3>2 DEF BuildIInv, FailedBuildsLeaveNothing
      <4> QED BY <2>2, <3>2, <4>1
    <3> QED BY <3>1, <3>2
  <2> QED BY <2>6, <2>7, <2>8, <2>9, <2>10 DEF BuildIInv
<1> QED BY <1>3, <1>4

\* What becomes current was owned by the build that published it, and by no other.
LEMMA PointKeepsBuildIInv ==
  ASSUME BuildIInv, NEW b \in Builders, Point(b)
  PROVE  BuildIInv'
<1> DEFINE r == builder[b]
<1>1. /\ BuildTypeOK /\ BuildSound(r) /\ OwnerSound(r)
      /\ r \in Entry /\ builder \in [Builders -> Entry]
  BY DEF BuildIInv, BuildTypeOK, Entry
<1>2. /\ r.at = "point" /\ r.owns /\ r.seen \in Snapshots \ ever
      /\ generations[r.seen] = "whole" /\ ~Finding(world, r.seen) /\ Buildable(world)
  BY <1>1 DEF Point, BuildSound, OwnerSound, Hashed, Checked
<1>3. /\ builder' = [builder EXCEPT ![b] = Resting]
      /\ pointer' = r.seen /\ ever' = ever \cup {r.seen}
      /\ UNCHANGED <<world, files, generations, lastAttempt, faults, deaths, torn>>
  BY DEF Point
<1>4. Resting \in Entry
  BY DEF Resting, Entry, Places
<1>5. /\ builder' \in [Builders -> Entry]
      /\ \A c \in Builders \ {b} : builder'[c] = builder[c]
      /\ builder'[b] = Resting
  BY <1>1, <1>3, <1>4
<1>6. \A c \in Builders \ {b} : builder[c].owns => builder[c].seen # r.seen
  BY <1>2 DEF BuildIInv, OwnersDiffer
<1>7. BuildTypeOK'
  BY <1>1, <1>2, <1>3, <1>5 DEF BuildTypeOK, Entry, Snapshots
<1>8. ASSUME NEW c \in Builders PROVE BuildSound(builder[c])' /\ OwnerSound(builder[c])'
  <2>1. CASE c = b
    BY <1>5, <2>1 DEF Resting, BuildSound, OwnerSound, Hashed, Audited, Checked
  <2>2. CASE c # b
    <3>1. builder'[c] = builder[c] /\ BuildSound(builder[c]) /\ OwnerSound(builder[c])
      BY <1>5, <2>2 DEF BuildIInv
    <3>2. BuildSound(builder[c])'
      BY <1>3, <3>1 DEF BuildSound, NotAfter, Finding, Alike, Buildable
    <3>3. OwnerSound(builder[c])'
      BY <1>3, <1>6, <2>2, <3>1 DEF OwnerSound, Snapshots
    <3> QED BY <3>2, <3>3
  <2> QED BY <2>1, <2>2
<1>9. OwnersDiffer'
  BY <1>5 DEF BuildIInv, OwnersDiffer, Resting
<1>10. EverSound'
  BY <1>2, <1>3 DEF BuildIInv, EverSound, Finding, Alike, Buildable
<1>11. FailedBuildsLeaveNothing'
  <2> SUFFICES ASSUME NEW s \in Snapshots \ (ever' \cup torn), generations[s] # "absent"
               PROVE  \E c \in Builders : builder'[c].owns /\ builder'[c].seen = s
    BY <1>3 DEF FailedBuildsLeaveNothing, Snapshots
  <2>1. PICK c \in Builders : builder[c].owns /\ builder[c].seen = s
    BY <1>3 DEF BuildIInv, FailedBuildsLeaveNothing
  <2> QED BY <1>3, <1>5, <2>1
<1> QED BY <1>7, <1>8, <1>9, <1>10, <1>11 DEF BuildIInv

\* What a failing build removes is its own.
LEMMA RemovalsKeepBuildIInv ==
  ASSUME BuildIInv, NEW b \in Builders, Abort(b) \/ RemoveDirectory(b)
  PROVE  BuildIInv'
<1> DEFINE r == builder[b]
<1>1. /\ BuildTypeOK /\ BuildSound(r) /\ OwnerSound(r)
      /\ r \in Entry /\ builder \in [Builders -> Entry]
  BY DEF BuildIInv, BuildTypeOK, Entry
<1>2. CASE Abort(b) /\ ~r.owns
  <2>1. Go(b, "record") /\ UNCHANGED <<world, files, generations, pointer, lastAttempt, counters>>
    BY <1>2 DEF Abort
  <2>2. /\ builder' \in [Builders -> Entry]
        /\ \A c \in Builders \ {b} : builder'[c] = builder[c]
        /\ builder'[b] = [r EXCEPT !.at = "record"]
    BY <1>1, <2>1, OnlyThePlaceMoves DEF Places
  <2>3. BuildSound(builder[b])' /\ OwnerSound(builder[b])'
    BY <1>1, <1>2, <2>2 DEF Entry, BuildSound, OwnerSound, Hashed, Audited, Checked
  <2> QED BY <1>1, <1>2, <2>1, <2>2, <2>3, OneBuildMoves DEF Entry, BuildTypeOK, counters
<1>3. CASE r.owns
  <2>1. r.seen \in Snapshots \ ever
    BY <1>1, <1>3 DEF OwnerSound
  <2>2. /\ builder' \in [Builders -> Entry]
        /\ \A c \in Builders \ {b} : builder'[c] = builder[c]
        /\ \/ builder'[b] = [r EXCEPT !.at = "remove"] /\ generations'[r.seen] = "part"
           \/ builder'[b] = [r EXCEPT !.at = "record", !.owns = FALSE]
              /\ generations'[r.seen] = "absent"
        /\ generations' \in [Snapshots -> {"absent", "whole", "part"}]
        /\ \A s \in Snapshots \ {r.seen} : generations'[s] = generations[s]
        /\ UNCHANGED <<world, files, pointer, lastAttempt, counters>>
    <3>1. CASE Abort(b)
      <4>1. /\ generations' = [generations EXCEPT ![r.seen] = "part"]
            /\ Go(b, "remove")
            /\ UNCHANGED <<world, files, pointer, lastAttempt, counters>>
        BY <1>3, <3>1 DEF Abort
      <4>2. /\ builder' \in [Builders -> Entry]
            /\ \A c \in Builders \ {b} : builder'[c] = builder[c]
            /\ builder'[b] = [r EXCEPT !.at = "remove"]
        BY <1>1, <4>1, OnlyThePlaceMoves DEF Places
      <4> QED BY <1>1, <2>1, <4>1, <4>2 DEF BuildTypeOK
    <3>2. CASE RemoveDirectory(b)
      <4>1. /\ generations' = [generations EXCEPT ![r.seen] = "absent"]
            /\ builder' = [builder EXCEPT ![b].at = "record", ![b].owns = FALSE]
            /\ UNCHANGED <<world, files, pointer, lastAttempt, counters>>
        BY <3>2 DEF RemoveDirectory
      <4>2. /\ builder' \in [Builders -> Entry]
            /\ \A c \in Builders \ {b} : builder'[c] = builder[c]
            /\ builder'[b] = [r EXCEPT !.at = "record", !.owns = FALSE]
        BY <1>1, <4>1 DEF Entry, Places
      <4> QED BY <1>1, <2>1, <4>1, <4>2 DEF BuildTypeOK
    <3> QED BY <3>1, <3>2
  <2>3. \A c \in Builders \ {b} : builder[c].owns => builder[c].seen # r.seen
    BY <1>3 DEF BuildIInv, OwnersDiffer
  <2>4. BuildTypeOK'
    BY <1>1, <2>2 DEF BuildTypeOK, Entry, Snapshots, counters
  <2>5. ASSUME NEW c \in Builders PROVE BuildSound(builder[c])' /\ OwnerSound(builder[c])'
    <3>1. CASE c = b
      <4>1. /\ builder'[b].seen = r.seen /\ r.seen \in Snapshots /\ r.seen \notin ever'
            /\ \/ /\ builder'[b].at = "remove" /\ builder'[b].owns
                  /\ generations'[r.seen] = "part"
               \/ builder'[b].at = "record" /\ ~builder'[b].owns
        <5>1. r.seen \in Snapshots /\ r.seen \notin ever'
          BY <2>1, <2>2 DEF counters
        <5>2. CASE builder'[b] = [r EXCEPT !.at = "remove"] /\ generations'[r.seen] = "part"
          BY <1>1, <1>3, <5>1, <5>2 DEF Entry
        <5>3. CASE builder'[b] = [r EXCEPT !.at = "record", !.owns = FALSE]
          BY <1>1, <5>1, <5>3 DEF Entry
        <5> QED BY <2>2, <5>2, <5>3
      <4>2. BuildSound(builder[b])'
        BY <4>1 DEF BuildSound, Hashed, Audited, Checked
      <4>3. OwnerSound(builder[b])'
        BY <4>1 DEF OwnerSound, Snapshots
      <4> QED BY <3>1, <4>2, <4>3
    <3>2. CASE c # b
      <4>1. builder'[c] = builder[c] /\ BuildSound(builder[c]) /\ OwnerSound(builder[c])
        BY <2>2, <3>2 DEF BuildIInv
      <4>2. BuildSound(builder[c])'
        BY <2>2, <4>1 DEF BuildSound, NotAfter, Finding, Alike, Buildable
      <4>3. OwnerSound(builder[c])'
        BY <2>2, <2>3, <3>2, <4>1 DEF OwnerSound, counters, Snapshots
      <4> QED BY <4>2, <4>3
    <3> QED BY <3>1, <3>2
  <2>6. OwnersDiffer'
    <3>1. builder'[b].seen = r.seen
      <4>1. \/ builder'[b] = [r EXCEPT !.at = "remove"]
            \/ builder'[b] = [r EXCEPT !.at = "record", !.owns = FALSE]
        BY <2>2
      <4> QED BY <1>1, <4>1 DEF Entry
    <3> QED BY <2>2, <2>3, <3>1 DEF BuildIInv, OwnersDiffer
  <2>7. EverSound'
    BY <1>1, <2>1, <2>2 DEF BuildIInv, BuildTypeOK, EverSound, Finding, Alike, Buildable, counters
  <2>8. FailedBuildsLeaveNothing'
    <3> SUFFICES ASSUME NEW s \in Snapshots \ (ever \cup torn), generations'[s] # "absent"
                 PROVE  \E c \in Builders : builder'[c].owns /\ builder'[c].seen = s
      BY <2>2 DEF FailedBuildsLeaveNothing, Snapshots, counters
    <3>1. CASE s = r.seen
      BY <1>1, <1>3, <2>2, <3>1 DEF Entry
    <3>2. CASE s # r.seen
      <4>1. PICK c \in Builders : builder[c].owns /\ builder[c].seen = s
        BY <2>2, <3>2 DEF BuildIInv, FailedBuildsLeaveNothing
      <4> QED BY <2>2, <3>2, <4>1
    <3> QED BY <3>1, <3>2
  <2> QED BY <2>4, <2>5, <2>6, <2>7, <2>8 DEF BuildIInv
<1>4. RemoveDirectory(b) => r.owns
  BY <1>1 DEF RemoveDirectory, OwnerSound
<1> QED BY <1>2, <1>3, <1>4

\* What a video file is replaced by is later than all that was hashed or audited.
LEMMA ReplaceKeepsBuildIInv ==
  ASSUME BuildIInv, NEW side \in {"train", "eval"}, Replace(side)
  PROVE  BuildIInv'
<1>1. BuildTypeOK /\ files \in Snapshots
  BY DEF BuildIInv, BuildTypeOK
<1>2. /\ files[side] < MaxChanges /\ files' = [files EXCEPT ![side] = @ + 1]
      /\ UNCHANGED <<world, builder, generations, pointer, lastAttempt, counters>>
  BY DEF Replace
<1>3. files' \in Snapshots /\ NotAfter(files, files')
  BY <1>1, <1>2, BuildAssumption DEF Snapshots, Versions, NotAfter
<1>4. \A f \in Snapshots : NotAfter(f, files) => NotAfter(f, files')
  BY <1>1, <1>3, VersionsAreOrdered
<1>5. BuildTypeOK'
  BY <1>1, <1>2, <1>3 DEF BuildTypeOK, Snapshots, counters
<1>6. ASSUME NEW b \in Builders PROVE BuildSound(builder[b])' /\ OwnerSound(builder[b])'
  <2>1. BuildSound(builder[b]) /\ OwnerSound(builder[b])
    BY DEF BuildIInv
  <2>2. BuildSound(builder[b])'
    <3> HIDE DEF NotAfter
    <3> QED BY <1>2, <1>4, <2>1 DEF BuildSound, Finding, Alike, Buildable, Snapshots
  <2>3. OwnerSound(builder[b])'
    BY <1>2, <2>1 DEF OwnerSound, counters, Snapshots
  <2> QED BY <2>2, <2>3
<1>7. OwnersDiffer' /\ EverSound' /\ FailedBuildsLeaveNothing'
  BY <1>2 DEF BuildIInv, OwnersDiffer, EverSound, FailedBuildsLeaveNothing, Finding, Alike,
              Buildable, counters, Snapshots
<1> QED BY <1>5, <1>6, <1>7 DEF BuildIInv

LEMMA NextBuildIInv == BuildIInv /\ [BuildNext]_buildVars => BuildIInv'
<1> SUFFICES ASSUME BuildIInv, [BuildNext]_buildVars PROVE BuildIInv'
  OBVIOUS
<1>1. ASSUME NEW b \in Builders, BuildStep(b) \/ Fault(b) \/ Die(b) PROVE BuildIInv'
  BY <1>1, QuietStepsKeepBuildIInv, PublishKeepsBuildIInv, PointKeepsBuildIInv,
     RemovalsKeepBuildIInv DEF BuildStep
<1>2. ASSUME NEW side \in {"train", "eval"}, Replace(side) PROVE BuildIInv'
  BY <1>2, ReplaceKeepsBuildIInv
<1>3. CASE UNCHANGED buildVars
  <2> USE <1>3 DEF buildVars
  <2>1. BuildTypeOK'
    BY DEF BuildIInv, BuildTypeOK, Snapshots
  <2>2. \A b \in Builders : BuildSound(builder[b])' /\ OwnerSound(builder[b])'
    BY DEF BuildIInv, BuildSound, OwnerSound, NotAfter, Finding, Alike, Buildable, Snapshots
  <2>3. OwnersDiffer' /\ EverSound' /\ FailedBuildsLeaveNothing'
    BY DEF BuildIInv, OwnersDiffer, EverSound, FailedBuildsLeaveNothing, Finding, Alike,
           Buildable, Snapshots
  <2> QED BY <2>1, <2>2, <2>3 DEF BuildIInv
<1> QED BY <1>1, <1>2, <1>3 DEF BuildNext

THEOREM BuildInvariance == BuildSpec => []BuildIInv
  BY InitBuildIInv, NextBuildIInv, PTL DEF BuildSpec

\* Whatever builds of one seed run beside each other, fail and die, and whenever the videos
\* are replaced: what current-generation.json names is a whole generation whose files were
\* audited as they were hashed, and no failure leaves a directory in the way.
THEOREM PublicationStaysSound == BuildSpec => []PublicationIsSound
<1>1. BuildIInv => PublicationIsSound
  BY DEF BuildIInv, PublicationIsSound, EverSound, CurrentIsAudited
<1> QED BY <1>1, BuildInvariance, PTL

\* What was once current is never taken away: a build removes only what it owns, and it
\* owns nothing that it, or another with the same attempt, has made current.
THEOREM CommittedGenerationsAreKept == BuildSpec => CommittedGenerationsStay
<1>1. ASSUME BuildIInv, BuildIInv', [BuildNext]_buildVars
      PROVE  [\A s \in ever : generations'[s] = generations[s]]_buildVars
  <2>1. ever \subseteq ever'
    BY <1>1 DEF BuildNext, BuildStep, Start, Validate, Snapshot, Audit, Begin, Write, Recheck,
                Publish, Announce, Point, Abort, RemoveDirectory, RecordFailure, Fault, Die,
                Replace, counters, buildVars
  <2>2. \A s \in ever : generations[s] = "whole" /\ generations'[s] = "whole"
    BY <1>1, <2>1 DEF BuildIInv, EverSound
  <2> QED BY <2>2
<1>2. BuildIInv /\ BuildIInv' /\ [BuildNext]_buildVars
        => [\A s \in ever : generations'[s] = generations[s]]_buildVars
  BY <1>1
<1> QED BY <1>2, BuildInvariance, PTL DEF BuildSpec, CommittedGenerationsStay
=============================================================================
