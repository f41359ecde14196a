-------------------------- MODULE EnvironmentProofs --------------------------
(***************************************************************************)
(* Theorems about the memory environment and about what is collected in    *)
(* it.                                                                     *)
(*                                                                         *)
(* An episode, for any number of events, any table of costs, any budget    *)
(* and any executor: its evidence is within what it paid for, and its      *)
(* steps replay.                                                           *)
(*                                                                         *)
(* The rounds of DAgger, for any questions, contexts, beams and depths:    *)
(* a label that was given is the label of the complete cache, a run        *)
(* accepts again every round that was written, no router does better than  *)
(* the oracle says is possible, the policies that cover the video have the *)
(* steps for it, and every error has a cause.                              *)
(***************************************************************************)
EXTENDS MemoryEnvironment, DeviationCollection, FiniteSetTheorems, WellFoundedInduction,
        TLAPS

-----------------------------------------------------------------------------
\* Finite sets and orders.

\* Any set of numbers has a least one.
LEMMA LeastOfNumbers ==
  ASSUME NEW S \in SUBSET Nat, S # {}
  PROVE  \E m \in S : \A n \in S : m <= n
<1>1. IsWellFoundedOn(OpToRel(<, Nat), Nat)
  BY NatLessThanWellFounded
<1>2. PICK m \in S : \A n \in S : ~(<<n, m>> \in OpToRel(<, Nat))
  BY <1>1, WFMin
<1>3. \A n \in S : ~(n < m)
  BY <1>2 DEF OpToRel
<1> QED BY <1>3

LEMMA ImagesAreFinite ==
  ASSUME NEW S, IsFiniteSet(S), NEW f, DOMAIN f = S
  PROVE  /\ IsFiniteSet({f[x] : x \in S})
         /\ (\A x, y \in S : f[x] = f[y] => x = y)
              => Cardinality({f[x] : x \in S}) = Cardinality(S)
<1> DEFINE T == {f[x] : x \in S}
           g == [x \in S |-> f[x]]
<1>1. g \in Surjection(S, T)
  BY DEF Surjection
<1>2. IsFiniteSet(T) /\ (Cardinality(T) = Cardinality(S) <=> g \in Injection(S, T))
  <2> HIDE DEF T, g
  <2> QED BY <1>1, FS_Surjection
<1>3. (\A x, y \in S : f[x] = f[y] => x = y) => g \in Injection(S, T)
  BY DEF Injection, IsInjective
<1> QED BY <1>2, <1>3

\* Of finitely many things in a strict order one is first: the one with the fewest before it.
LEMMA FiniteOrdersHaveAFirst ==
  ASSUME NEW S, IsFiniteSet(S), S # {}, NEW R,
         \A x, y \in S : x # y => <<x, y>> \in R \/ <<y, x>> \in R,
         \A x, y, z \in S : <<x, y>> \in R /\ <<y, z>> \in R => <<x, z>> \in R,
         \A x \in S : <<x, x>> \notin R
  PROVE  \E x \in S : \A y \in S \ {x} : <<x, y>> \in R
<1> DEFINE Ahead(x) == {y \in S : <<y, x>> \in R}
           C == {Cardinality(Ahead(x)) : x \in S}
<1>1. \A x \in S : IsFiniteSet(Ahead(x)) /\ Cardinality(Ahead(x)) \in Nat
  <2> SUFFICES ASSUME NEW x \in S
               PROVE  IsFiniteSet(Ahead(x)) /\ Cardinality(Ahead(x)) \in Nat
    OBVIOUS
  <2>1. Ahead(x) \in SUBSET S
    OBVIOUS
  <2> HIDE DEF Ahead
  <2> QED BY <2>1, FS_Subset, FS_CardinalityType
<1>2. C \in SUBSET Nat /\ C # {}
  <2> HIDE DEF Ahead
  <2> QED BY <1>1
<1>3. PICK m \in C : \A n \in C : m <= n
  <2> HIDE DEF C
  <2> QED BY <1>2, LeastOfNumbers
<1>4. PICK x \in S : m = Cardinality(Ahead(x))
  <2> HIDE DEF Ahead
  <2> QED OBVIOUS
<1>5. Ahead(x) = {}
  <2> SUFFICES ASSUME Ahead(x) # {} PROVE FALSE
    OBVIOUS
  <2>1. PICK y \in S : <<y, x>> \in R
    OBVIOUS
  <2>2. Ahead(y) \in SUBSET Ahead(x) /\ y \in Ahead(x) /\ y \notin Ahead(y)
    BY <2>1
  <2>3. Cardinality(Ahead(y)) \in C
    OBVIOUS
  <2> HIDE DEF Ahead, C
  <2>4. Cardinality(Ahead(y)) <= Cardinality(Ahead(x)) /\ Ahead(y) # Ahead(x)
    BY <1>1, <2>2, FS_Subset
  <2>5. Cardinality(Ahead(x)) # Cardinality(Ahead(y))
    BY <1>1, <2>2, FS_Subset
  <2>6. Cardinality(Ahead(x)) <= Cardinality(Ahead(y))
    BY <1>3, <1>4, <2>3
  <2> QED BY <1>1, <2>4, <2>5, <2>6
<1> QED BY <1>5

-----------------------------------------------------------------------------
\* The order of paths.

IsNode(n) == /\ n = [path |-> n.path, order |-> n.order, cost |-> n.cost, state |-> n.state]
             /\ n.path \in Seq(Actions) /\ n.cost \in Nat

\* The executor behind the cache is a function: a path leads to one node.
Determined(S) == \A m, n \in S : m.path = n.path => m = n

LEMMA RanksAreNumbers ==
  ASSUME NEW a \in Actions
  PROVE  /\ Rank(a) \in Nat
         /\ \A b \in Actions : Rank(a) = Rank(b) => a = b
<1>1. \A b \in Actions : \E i \in DOMAIN Signatures : Signatures[i] = b
  BY SearchAssumption DEF ToSet
<1>2. \A b \in Actions : Rank(b) \in DOMAIN Signatures /\ Signatures[Rank(b)] = b
  BY <1>1 DEF Rank
<1>3. DOMAIN Signatures \subseteq Nat
  BY SearchAssumption
<1> QED BY <1>2, <1>3

LEMMA SignaturesAreOrdered ==
  ASSUME NEW p \in Seq(Actions), NEW q \in Seq(Actions), NEW r \in Seq(Actions),
         Len(p) = Len(q), Len(q) = Len(r)
  PROVE  /\ ~SignatureBefore(p, p)
         /\ SignatureBefore(p, q) /\ SignatureBefore(q, r) => SignatureBefore(p, r)
         /\ p # q => SignatureBefore(p, q) \/ SignatureBefore(q, p)
<1> DEFINE L == Len(p)
<1>1. /\ L \in Nat /\ DOMAIN p = 1..L /\ DOMAIN q = 1..L /\ DOMAIN r = 1..L
      /\ \A i \in 1..L : p[i] \in Actions /\ q[i] \in Actions /\ r[i] \in Actions
  OBVIOUS
<1>2. \A i \in 1..L : Rank(p[i]) \in Nat /\ Rank(q[i]) \in Nat /\ Rank(r[i]) \in Nat
  BY <1>1, RanksAreNumbers
<1> HIDE DEF L
<1>3. ~SignatureBefore(p, p)
  BY <1>1, <1>2 DEF SignatureBefore
<1>4. ASSUME SignatureBefore(p, q), SignatureBefore(q, r) PROVE SignatureBefore(p, r)
  <2>1. PICK i \in 1..L : Rank(p[i]) < Rank(q[i]) /\ \A j \in 1..(i - 1) : p[j] = q[j]
    BY <1>1, <1>4 DEF SignatureBefore
  <2>2. PICK k \in 1..L : Rank(q[k]) < Rank(r[k]) /\ \A j \in 1..(k - 1) : q[j] = r[j]
    BY <1>1, <1>4 DEF SignatureBefore
  <2>3. CASE i < k
    <3>1. q[i] = r[i] /\ \A j \in 1..(i - 1) : p[j] = r[j]
      BY <1>1, <2>1, <2>2, <2>3
    <3> QED BY <1>1, <2>1, <3>1 DEF SignatureBefore
  <2>4. CASE k < i
    <3>1. p[k] = q[k] /\ \A j \in 1..(k - 1) : p[j] = r[j]
      BY <1>1, <2>1, <2>2, <2>4
    <3> QED BY <1>1, <2>2, <3>1 DEF SignatureBefore
  <2>5. CASE i = k
    <3>1. Rank(p[i]) < Rank(r[i]) /\ \A j \in 1..(i - 1) : p[j] = r[j]
      BY <1>1, <1>2, <2>1, <2>2, <2>5
    <3> QED BY <1>1, <3>1 DEF SignatureBefore
  <2> QED BY <1>1, <2>3, <2>4, <2>5
<1>5. ASSUME p # q PROVE SignatureBefore(p, q) \/ SignatureBefore(q, p)
  <2> DEFINE D == {i \in 1..L : p[i] # q[i]}
  <2>1. D \in SUBSET Nat /\ D # {}
    BY <1>1, <1>5
  <2>2. PICK i \in D : \A j \in D : i <= j
    <3> HIDE DEF D
    <3> QED BY <2>1, LeastOfNumbers
  <2>3. i \in 1..L /\ p[i] # q[i] /\ \A j \in 1..(i - 1) : p[j] = q[j]
    BY <1>1, <2>2
  <2>4. Rank(p[i]) # Rank(q[i])
    BY <1>1, <2>3, RanksAreNumbers
  <2>5. Rank(p[i]) < Rank(q[i]) \/ Rank(q[i]) < Rank(p[i])
    BY <1>2, <2>3, <2>4
  <2> QED BY <1>1, <2>3, <2>5 DEF SignatureBefore
<1> QED BY <1>3, <1>4, <1>5

LEMMA UtilitiesAreNumbers ==
  ASSUME NEW w, NEW n, IsNode(n), NEW preference \in Preferences
  PROVE  Utility(w, n, preference) \in Int
<1>1. Score(w, n.state) \in Int /\ n.cost \in Int /\ preference \in Int /\ Normalizer \in Int
  BY SearchAssumption DEF Score, TopScore, IsNode, Preferences
<1>2. 10 * Normalizer * Score(w, n.state) \in Int /\ 2 * preference * n.cost \in Int
  BY <1>1
<1> QED BY <1>2 DEF Utility, UtilityOf

LEMMA BeforeIsAnOrder ==
  ASSUME NEW w, NEW preference \in Preferences, NEW l, NEW m, NEW n,
         IsNode(l), IsNode(m), IsNode(n)
  PROVE  /\ ~Before(w, preference, n, n)
         /\ Before(w, preference, l, m) /\ Before(w, preference, m, n)
              => Before(w, preference, l, n)
         /\ m.path # n.path => Before(w, preference, m, n) \/ Before(w, preference, n, m)
<1>1. /\ Utility(w, l, preference) \in Int /\ Utility(w, m, preference) \in Int
      /\ Utility(w, n, preference) \in Int
  BY UtilitiesAreNumbers
<1>2. /\ l.cost \in Nat /\ m.cost \in Nat /\ n.cost \in Nat
      /\ l.path \in Seq(Actions) /\ m.path \in Seq(Actions) /\ n.path \in Seq(Actions)
      /\ Len(l.path) \in Nat /\ Len(m.path) \in Nat /\ Len(n.path) \in Nat
  BY DEF IsNode
<1>3. /\ ~SignatureBefore(n.path, n.path)
      /\ m.path # n.path /\ Len(m.path) = Len(n.path) =>
           SignatureBefore(m.path, n.path) \/ SignatureBefore(n.path, m.path)
      /\ Len(l.path) = Len(m.path) /\ Len(m.path) = Len(n.path) =>
           (SignatureBefore(l.path, m.path) /\ SignatureBefore(m.path, n.path)
              => SignatureBefore(l.path, n.path))
  BY <1>2, SignaturesAreOrdered
<1>4. ~Before(w, preference, n, n)
  BY <1>1, <1>2, <1>3 DEF Before, Lighter, Shorter
<1>5. Before(w, preference, l, m) /\ Before(w, preference, m, n) => Before(w, preference, l, n)
  BY <1>1, <1>2, <1>3 DEF Before, Lighter, Shorter
<1>6. m.path # n.path => Before(w, preference, m, n) \/ Before(w, preference, n, m)
  BY <1>1, <1>2, <1>3 DEF Before, Lighter, Shorter
<1> QED BY <1>4, <1>5, <1>6

\* Of the paths that a search completes, one is first.
LEMMA OneIsFirst ==
  ASSUME NEW w, NEW preference \in Preferences, NEW S, IsFiniteSet(S), S # {},
         \A n \in S : IsNode(n), Determined(S)
  PROVE  /\ First(w, preference, S) \in S
         /\ \A m \in S \ {First(w, preference, S)} : Before(w, preference, First(w, preference, S), m)
<1> DEFINE R == {x \in S \X S : Before(w, preference, x[1], x[2])}
<1>1. \A x, y \in S : <<x, y>> \in R <=> Before(w, preference, x, y)
  OBVIOUS
<1>2. /\ \A x, y \in S : x # y => <<x, y>> \in R \/ <<y, x>> \in R
      /\ \A x, y, z \in S : <<x, y>> \in R /\ <<y, z>> \in R => <<x, z>> \in R
      /\ \A x \in S : <<x, x>> \notin R
  <2> HIDE DEF R
  <2> QED BY <1>1, BeforeIsAnOrder DEF Determined
<1>3. \E x \in S : \A y \in S \ {x} : <<x, y>> \in R
  <2> HIDE DEF R
  <2> QED BY <1>2, FiniteOrdersHaveAFirst
<1>4. \E x \in S : \A y \in S \ {x} : Before(w, preference, x, y)
  BY <1>1, <1>3
<1> QED BY <1>4 DEF First

-----------------------------------------------------------------------------
\* The search.

LEMMA CostsAreNumbers ==
  ASSUME NEW a, NEW o
  PROVE  Charge(a, o) \in Nat
  BY EnvAssumption DEF Charge, CostFields

LEMMA FinitelyManyActions == IsFiniteSet(Actions)
<1> DEFINE P == Kinds \X Events
           f == [x \in P |-> Action(x[1], x[2])]
           A == {Action(k, e) : k \in Kinds, e \in Events}
<1>1. IsFiniteSet(Kinds)
  <2>1. Kinds = (({} \cup {"residual"}) \cup {"context"}) \cup {"low"} \cup {"high"}
    BY DEF Kinds, Visual
  <2> QED BY <2>1, FS_EmptySet, FS_AddElement
<1>2. IsFiniteSet(P)
  <2>1. IsFiniteSet(Events)
    BY EnvAssumption, FS_Interval, 1 \in Int, N \in Int DEF Events
  <2> QED BY <1>1, <2>1, FS_Product
<1>3. IsFiniteSet({f[x] : x \in P})
  <2>1. DOMAIN f = P
    OBVIOUS
  <2> HIDE DEF f, P
  <2> QED BY <1>2, <2>1, ImagesAreFinite
<1>4. A = {f[x] : x \in P}
  <2>1. ASSUME NEW k \in Kinds, NEW e \in Events PROVE Action(k, e) \in {f[x] : x \in P}
    <3>1. <<k, e>> \in P /\ f[<<k, e>>] = Action(k, e)
      OBVIOUS
    <3> HIDE DEF f, P
    <3> QED BY <3>1
  <2>2. ASSUME NEW x \in P PROVE f[x] \in A
    OBVIOUS
  <2> HIDE DEF f, P
  <2> QED BY <2>1, <2>2
<1>5. Actions = (A \cup {Search}) \cup {Stop}
  BY DEF Actions
<1> HIDE DEF f, P, A
<1> QED BY <1>3, <1>4, <1>5, FS_AddElement

LEMMA OfferedActions ==
  ASSUME NEW s
  PROVE  ValidActions(s) \subseteq Actions /\ (~Terminal(s) => Stop \in ValidActions(s))
  BY DEF ValidActions, Actions

\* A path that goes on.
LEMMA Keys ==
  ASSUME NEW n, IsNode(n), NEW a \in Actions
  PROVE  /\ Key(n, a) \in Seq(Actions) /\ Len(n.path) \in Nat /\ Len(Key(n, a)) = Len(n.path) + 1
         /\ Key(n, a)[Len(n.path) + 1] = a
         /\ \A i \in 1..Len(n.path) : Key(n, a)[i] = n.path[i]
  BY DEF Key, IsNode

LEMMA ExtendedNodes ==
  ASSUME NEW w, NEW n, IsNode(n), NEW a \in Actions
  PROVE  IsNode(Extend(w, n, a)) /\ Extend(w, n, a).path = Key(n, a)
<1> DEFINE c == Charge(a, Observation(w, n.state, a))
<1>1. c \in Nat
  BY CostsAreNumbers
<1> HIDE DEF c
<1>2. PICK x, y : Extend(w, n, a) = [n EXCEPT !.path = Key(n, a), !.cost = n.cost + c,
                                              !.state = x, !.order = y]
  BY DEF Extend, Observed, Child, Key, c
<1>3. Key(n, a) \in Seq(Actions)
  BY Keys
<1>4. n.cost + c \in Nat
  BY <1>1 DEF IsNode
<1>5. Extend(w, n, a) = [path |-> Key(n, a), order |-> y, cost |-> n.cost + c, state |-> x]
  BY <1>2 DEF IsNode
<1> QED BY <1>3, <1>4, <1>5 DEF IsNode

\* Two paths that go on in the same way were the same.
LEMMA KeysDiffer ==
  ASSUME NEW m, NEW n, IsNode(m), IsNode(n), NEW a \in Actions, NEW b \in Actions,
         Key(m, a) = Key(n, b)
  PROVE  m.path = n.path /\ a = b
<1>1. Len(m.path) = Len(n.path) /\ Len(m.path) \in Nat
  <2>1. Len(Key(m, a)) = Len(m.path) + 1 /\ Len(Key(n, b)) = Len(n.path) + 1
    BY Keys
  <2>2. Len(m.path) \in Nat /\ Len(n.path) \in Nat
    BY Keys
  <2> QED BY <2>1, <2>2
<1>2. a = b
  <2>1. Key(m, a)[Len(m.path) + 1] = a /\ Key(n, b)[Len(n.path) + 1] = b
    BY Keys
  <2> QED BY <1>1, <2>1
<1>3. \A i \in 1..Len(m.path) : m.path[i] = n.path[i]
  <2>1. \A i \in 1..Len(m.path) : Key(m, a)[i] = m.path[i]
    BY Keys
  <2>2. \A i \in 1..Len(n.path) : Key(n, b)[i] = n.path[i]
    BY Keys
  <2> QED BY <1>1, <2>1, <2>2
<1>4. /\ m.path = [i \in 1..Len(m.path) |-> m.path[i]]
      /\ n.path = [i \in 1..Len(n.path) |-> n.path[i]]
  BY DEF IsNode
<1> QED BY <1>1, <1>2, <1>3, <1>4

Start(n) == [frontier |-> {StartAt(n)}, completed |-> {}, pending |-> {}]

SearchLevels(w, known, n, preference, beam, depth, level) ==
    level = [d \in 0..depth |-> IF d = 0 THEN Start(n)
                                ELSE Deepen(w, known, preference, beam, level[d - 1])]

LEMMA SearchesHaveLevels ==
  ASSUME NEW w, NEW known, NEW n, NEW preference, NEW beam, NEW depth \in Nat
  PROVE  \E level : /\ SearchLevels(w, known, n, preference, beam, depth, level)
                    /\ SearchFrom(w, known, n, preference, beam, depth) = level[depth]
<1> DEFINE P(k, f) == SearchLevels(w, known, n, preference, beam, k, f)
           Bad == {k \in Nat : ~\E f : P(k, f)}
<1>1. ASSUME Bad # {} PROVE FALSE
  <2>1. PICK k \in Bad : \A j \in Bad : k <= j
    <3>1. Bad \in SUBSET Nat
      OBVIOUS
    <3> HIDE DEF Bad
    <3> QED BY <1>1, <3>1, LeastOfNumbers
  <2>2. k # 0
    <3> DEFINE f == [d \in 0..0 |-> Start(n)]
    <3>1. P(0, f)
      BY DEF SearchLevels
    <3> HIDE DEF f, P
    <3> QED BY <3>1
  <2>3. k \in Nat /\ k - 1 \in Nat /\ k - 1 \notin Bad
    BY <2>1, <2>2
  <2>4. PICK f : P(k - 1, f)
    BY <2>3
  <2> DEFINE g == [d \in 0..k |-> IF d = 0 THEN Start(n)
                                  ELSE Deepen(w, known, preference, beam, f[d - 1])]
  <2>5. \A d \in 0..(k - 1) : g[d] = f[d]
    BY <2>3, <2>4 DEF SearchLevels
  <2>6. \A d \in 1..k : g[d] = Deepen(w, known, preference, beam, g[d - 1])
    <3> SUFFICES ASSUME NEW d \in 1..k
                 PROVE  g[d] = Deepen(w, known, preference, beam, g[d - 1])
      OBVIOUS
    <3>1. d \in 0..k /\ d # 0 /\ d - 1 \in 0..(k - 1)
      BY <2>3
    <3>2. g[d] = Deepen(w, known, preference, beam, f[d - 1])
      BY <3>1
    <3>3. g[d - 1] = f[d - 1]
      BY <2>5, <3>1
    <3> QED BY <3>2, <3>3
  <2>7. P(k, g)
    <3>1. g[0] = Start(n)
      BY <2>3
    <3>2. g = [d \in 0..k |-> g[d]]
      OBVIOUS
    <3> HIDE DEF g
    <3>3. \A d \in 0..k : g[d] = IF d = 0 THEN Start(n)
                               ELSE Deepen(w, known, preference, beam, g[d - 1])
      BY <2>3, <2>6, <3>1
    <3> QED BY <3>2, <3>3 DEF SearchLevels
  <2> HIDE DEF P, g
  <2> QED BY <2>1, <2>7
<1>2. \E f : P(depth, f)
  BY <1>1
<1> DEFINE level == CHOOSE f : P(depth, f)
<1>3. P(depth, level)
  <2> HIDE DEF P
  <2> QED BY <1>2
<1>4. SearchFrom(w, known, n, preference, beam, depth) = level[depth]
  BY DEF SearchFrom, SearchLevels, Start
<1> QED BY <1>3, <1>4

\* The first move of a path beyond a node.
Move(n, m) == m.path[Len(n.path) + 1]

\* The paths of one depth of a search from a node: they have that length, they begin with a
\* legal action, and no two of them are the same.
PathsSound(n, d, S) ==
    /\ IsFiniteSet(S) /\ Determined(S)
    /\ \A m \in S : /\ IsNode(m) /\ Len(m.path) = Len(n.path) + d
                    /\ IF d = 0 THEN m = StartAt(n) ELSE Move(n, m) \in ValidActions(n.state)

CompletedSound(n, d, S) ==
    /\ IsFiniteSet(S) /\ Determined(S)
    /\ \A m \in S : /\ IsNode(m) /\ Len(m.path) <= Len(n.path) + d
                    /\ Move(n, m) \in ValidActions(n.state)

Moves(F) == UNION {{<<n, a>> : a \in ValidActions(n.state)} : n \in F}

Children(w, X) == {Extend(w, x[1], x[2]) : x \in X}

LEMMA StartingNodes ==
  ASSUME NEW n, IsNode(n)
  PROVE  IsNode(StartAt(n)) /\ StartAt(n).path = n.path /\ StartAt(n).state = n.state
  BY DEF IsNode, StartAt

LEMMA SetsOfChildren ==
  ASSUME NEW w, NEW n, IsNode(n), NEW d \in Nat, NEW F, PathsSound(n, d, F)
  PROVE  /\ \A x \in Moves(F) : /\ x[1] \in F /\ IsNode(x[1]) /\ x[2] \in Actions
                                /\ x[2] \in ValidActions(x[1].state)
         /\ PathsSound(n, d + 1, Children(w, Moves(F)))
<1> DEFINE M == Moves(F)
           e == [x \in M |-> Extend(w, x[1], x[2])]
<1>1. ASSUME NEW x \in M
      PROVE  /\ x[1] \in F /\ IsNode(x[1]) /\ x[2] \in Actions /\ x[2] \in ValidActions(x[1].state)
             /\ x = <<x[1], x[2]>>
  <2>1. PICK m \in F : x \in {<<m, a>> : a \in ValidActions(m.state)}
    BY DEF Moves
  <2>2. PICK a \in ValidActions(m.state) : x = <<m, a>>
    BY <2>1
  <2> QED BY <2>2, OfferedActions DEF PathsSound
<1>0. \A x \in M : e[x] = Extend(w, x[1], x[2])
  OBVIOUS
<1>2. IsFiniteSet(M)
  <2>1. M \in SUBSET (F \X Actions)
    <3> SUFFICES ASSUME NEW x \in M PROVE x \in F \X Actions
      OBVIOUS
    <3> QED BY <1>1
  <2> HIDE DEF M
  <2> QED BY <2>1, FinitelyManyActions, FS_Product, FS_Subset DEF PathsSound
<1>3. Children(w, M) = {e[x] : x \in M}
  BY DEF Children
<1>4. IsFiniteSet(Children(w, M))
  <2>1. DOMAIN e = M
    OBVIOUS
  <2> HIDE DEF M, e
  <2> QED BY <1>2, <1>3, <2>1, ImagesAreFinite
<1>5. Determined(Children(w, M))
  <2> SUFFICES ASSUME NEW x \in M, NEW y \in M, e[x].path = e[y].path PROVE e[x] = e[y]
    BY <1>3 DEF Determined
  <2>1. e[x].path = Key(x[1], x[2]) /\ e[y].path = Key(y[1], y[2])
    <3>1. e[x] = Extend(w, x[1], x[2]) /\ e[y] = Extend(w, y[1], y[2])
      BY <1>0
    <3>2. IsNode(x[1]) /\ x[2] \in Actions /\ IsNode(y[1]) /\ y[2] \in Actions
      BY <1>1
    <3> HIDE DEF M, e
    <3> QED BY <3>1, <3>2, ExtendedNodes
  <2>2. x[1].path = y[1].path /\ x[2] = y[2]
    BY <1>1, <2>1, KeysDiffer
  <2>3. x[1] = y[1]
    BY <1>1, <2>2 DEF PathsSound, Determined
  <2> QED BY <2>2, <2>3
<1>6. ASSUME NEW x \in M
      PROVE  /\ IsNode(e[x]) /\ Len(e[x].path) = Len(n.path) + (d + 1)
             /\ Move(n, e[x]) \in ValidActions(n.state)
  <2>1. /\ IsNode(e[x]) /\ e[x].path = Key(x[1], x[2])
        /\ Len(e[x].path) = Len(x[1].path) + 1
        /\ e[x].path[Len(x[1].path) + 1] = x[2]
        /\ \A i \in 1..Len(x[1].path) : e[x].path[i] = x[1].path[i]
    <3>1. e[x] = Extend(w, x[1], x[2])
      BY <1>0
    <3>2. IsNode(x[1]) /\ x[2] \in Actions
      BY <1>1
    <3> HIDE DEF M, e
    <3>3. IsNode(e[x]) /\ e[x].path = Key(x[1], x[2])
      BY <3>1, <3>2, ExtendedNodes
    <3>4. /\ Len(Key(x[1], x[2])) = Len(x[1].path) + 1
          /\ Key(x[1], x[2])[Len(x[1].path) + 1] = x[2]
      BY <3>2, Keys
    <3>5. \A i \in 1..Len(x[1].path) : Key(x[1], x[2])[i] = x[1].path[i]
      BY <3>2, Keys
    <3> QED BY <3>3, <3>4, <3>5
  <2>2. Len(x[1].path) = Len(n.path) + d /\ Len(n.path) \in Nat
    <3>1. x[1] \in F
      BY <1>1
    <3> HIDE DEF M, e
    <3> QED BY <3>1 DEF PathsSound, IsNode
  <2>3. Move(n, e[x]) \in ValidActions(n.state)
    <3>1. CASE d = 0
      <4>1. x[1].path = n.path /\ x[1].state = n.state
        BY <1>1, <3>1, StartingNodes DEF PathsSound
      <4> QED BY <1>1, <2>1, <4>1 DEF Move
    <3>2. CASE d # 0
      <4>1. Len(n.path) + 1 \in 1..Len(x[1].path)
        BY <2>2, <3>2
      <4>2. Move(n, x[1]) \in ValidActions(n.state)
        BY <1>1, <3>2 DEF PathsSound
      <4> QED BY <2>1, <4>1, <4>2 DEF Move
    <3> QED BY <3>1, <3>2
  <2>4. Len(e[x].path) = Len(n.path) + (d + 1)
    <3>1. \A i, j, k \in Nat : i = j + 1 /\ j = k + d => i = k + (d + 1)
      OBVIOUS
    <3>2. Len(x[1].path) \in Nat /\ Len(e[x].path) \in Nat
      BY <2>1, <2>2
    <3> HIDE DEF M, e
    <3> QED BY <2>1, <2>2, <3>1, <3>2
  <2> QED BY <2>1, <2>3, <2>4
<1>7. PathsSound(n, d + 1, Children(w, M))
  <2>1. d + 1 # 0
    OBVIOUS
  <2> HIDE DEF M
  <2> QED BY <1>3, <1>4, <1>5, <1>6, <2>1 DEF PathsSound
<1> QED BY <1>1, <1>7

LEMMA DeepeningIsSound ==
  ASSUME NEW w, NEW known, NEW preference, NEW beam, NEW n, IsNode(n), NEW d \in Nat, NEW r,
         PathsSound(n, d, r.frontier), CompletedSound(n, d, r.completed)
  PROVE  LET s == Deepen(w, known, preference, beam, r)
         IN /\ PathsSound(n, d + 1, s.frontier) /\ CompletedSound(n, d + 1, s.completed)
            /\ r.completed \subseteq s.completed
            /\ \A m \in r.frontier : ~Terminal(m.state) => s.completed # {}
<1> DEFINE s == Deepen(w, known, preference, beam, r)
           M == Moves(r.frontier)
           C == Children(w, M)
<1>1. PathsSound(n, d + 1, C) /\ \A x \in M : x[1] \in r.frontier
  BY SetsOfChildren
<1>2. \A S : Widest(w, preference, beam, S) \subseteq S
  BY DEF Widest
<1>3. s.frontier \subseteq C
  <2>1. PICK K : K \subseteq M /\ s.frontier = Widest(w, preference, beam, Children(w, K))
    BY DEF Deepen, Moves, Children
  <2>2. Children(w, K) \subseteq Children(w, M)
    BY <2>1 DEF Children
  <2> QED BY <1>2, <2>1, <2>2
<1>4. s.completed = r.completed \cup {Extend(w, x[1], Stop) : x \in {y \in M : y[2] = Stop}}
  BY DEF Deepen, Moves
<1>5. {Extend(w, x[1], Stop) : x \in {y \in M : y[2] = Stop}} \subseteq C
  BY DEF Children
<1>6. PathsSound(n, d + 1, s.frontier)
  <2> HIDE DEF s, C
  <2>1. IsFiniteSet(s.frontier)
    BY <1>1, <1>3, FS_Subset DEF PathsSound
  <2> QED BY <1>1, <1>3, <2>1 DEF PathsSound, Determined
<1>7. CompletedSound(n, d + 1, s.completed)
  <2> DEFINE E == {Extend(w, x[1], Stop) : x \in {y \in M : y[2] = Stop}}
  <2>1. E \subseteq C /\ s.completed = r.completed \cup E
    BY <1>4, <1>5
  <2> HIDE DEF s, C, E
  <2>2. IsFiniteSet(s.completed)
    BY <1>1, <2>1, FS_Subset, FS_Union DEF PathsSound, CompletedSound
  <2>3. /\ \A m \in E : /\ IsNode(m) /\ Len(m.path) = Len(n.path) + (d + 1)
                        /\ Move(n, m) \in ValidActions(n.state)
        /\ \A m \in r.completed : /\ IsNode(m) /\ Len(m.path) <= Len(n.path) + d
                                  /\ Move(n, m) \in ValidActions(n.state)
    BY <1>1, <2>1 DEF PathsSound, CompletedSound
  <2>4. Len(n.path) \in Nat /\ \A m \in s.completed : Len(m.path) \in Nat
    BY <2>1, <2>3 DEF IsNode
  <2>5. \A m \in E, k \in r.completed : m.path # k.path
    <3> SUFFICES ASSUME NEW m \in E, NEW k \in r.completed PROVE Len(m.path) # Len(k.path)
      OBVIOUS
    <3>1. Len(m.path) = Len(n.path) + (d + 1) /\ Len(k.path) <= Len(n.path) + d
      BY <2>3
    <3>2. Len(n.path) \in Nat /\ Len(k.path) \in Nat
      BY <2>1, <2>4
    <3>3. \A a, b, c \in Nat : a = c + (d + 1) /\ b <= c + d => a # b
      OBVIOUS
    <3>4. Len(n.path) \in Nat
      BY <2>4
    <3> QED BY <3>1, <3>2, <3>3, <3>4
  <2>6. Determined(E)
    BY <1>1, <2>1 DEF PathsSound, Determined
  <2>7. Determined(s.completed)
    BY <2>1, <2>5, <2>6 DEF CompletedSound, Determined
  <2>8. \A m \in s.completed : Len(m.path) <= Len(n.path) + (d + 1)
    <3> SUFFICES ASSUME NEW m \in s.completed PROVE Len(m.path) <= Len(n.path) + (d + 1)
      OBVIOUS
    <3>1. Len(m.path) = Len(n.path) + (d + 1) \/ Len(m.path) <= Len(n.path) + d
      BY <2>1, <2>3
    <3>2. Len(n.path) \in Nat /\ Len(m.path) \in Nat
      BY <2>4
    <3>3. \A a, b \in Nat : a = b + (d + 1) \/ a <= b + d => a <= b + (d + 1)
      OBVIOUS
    <3> QED BY <3>1, <3>2, <3>3
  <2> QED BY <2>1, <2>2, <2>3, <2>7, <2>8 DEF CompletedSound
<1>8. ASSUME NEW m \in r.frontier, ~Terminal(m.state) PROVE s.completed # {}
  <2>1. <<m, Stop>> \in M
    BY <1>8, OfferedActions DEF Moves
  <2>2. <<m, Stop>> \in {y \in M : y[2] = Stop}
    BY <2>1
  <2> HIDE DEF M, s
  <2> QED BY <1>4, <2>2
<1> QED BY <1>4, <1>6, <1>7, <1>8

LEMMA SearchIsSound ==
  ASSUME NEW w, NEW known, NEW n, IsNode(n), NEW preference, NEW beam, NEW depth \in Nat,
         NEW level, SearchLevels(w, known, n, preference, beam, depth, level)
  PROVE  \A d \in 0..depth :
           /\ PathsSound(n, d, level[d].frontier) /\ CompletedSound(n, d, level[d].completed)
           /\ d > 0 /\ ~Terminal(n.state) => level[d].completed # {}
<1> DEFINE P(d) == /\ PathsSound(n, d, level[d].frontier) /\ CompletedSound(n, d, level[d].completed)
                   /\ d = 0 => level[0].frontier = {StartAt(n)}
                   /\ d > 0 /\ ~Terminal(n.state) => level[d].completed # {}
           Bad == {d \in 0..depth : ~P(d)}
<1>1. /\ level[0] = Start(n)
      /\ \A d \in 1..depth : level[d] = Deepen(w, known, preference, beam, level[d - 1])
  BY DEF SearchLevels
<1>2. ASSUME Bad # {} PROVE FALSE
  <2>1. PICK d \in Bad : \A k \in Bad : d <= k
    <3>1. Bad \in SUBSET Nat
      OBVIOUS
    <3> HIDE DEF Bad
    <3> QED BY <1>2, <3>1, LeastOfNumbers
  <2>2. P(0)
    <3>1. level[0].frontier = {StartAt(n)} /\ level[0].completed = {}
      BY <1>1 DEF Start
    <3>2. IsFiniteSet({}) /\ IsFiniteSet({StartAt(n)})
      BY FS_EmptySet, FS_Singleton
    <3>3. Len(n.path) \in Nat
      BY DEF IsNode
    <3> QED BY <3>1, <3>2, <3>3, StartingNodes DEF PathsSound, CompletedSound, Determined
  <2>3. d # 0 /\ d \in 1..depth /\ d - 1 \in 0..depth /\ d - 1 \in Nat /\ (d - 1) + 1 = d
    BY <2>1, <2>2
  <2>4. P(d - 1)
    BY <2>1, <2>3
  <2> DEFINE r == level[d - 1]
             s == Deepen(w, known, preference, beam, r)
  <2>5. level[d] = s
    BY <1>1, <2>3
  <2>6. /\ PathsSound(n, d, s.frontier) /\ CompletedSound(n, d, s.completed)
        /\ r.completed \subseteq s.completed
        /\ \A m \in r.frontier : ~Terminal(m.state) => s.completed # {}
    <3> HIDE DEF r
    <3>1. PathsSound(n, d - 1, r.frontier) /\ CompletedSound(n, d - 1, r.completed)
      BY <2>4 DEF r
    <3> DEFINE c == d - 1
    <3>2. c \in Nat /\ c + 1 = d /\ PathsSound(n, c, r.frontier) /\ CompletedSound(n, c, r.completed)
      BY <2>3, <3>1
    <3> HIDE DEF c
    <3>3. /\ PathsSound(n, c + 1, s.frontier) /\ CompletedSound(n, c + 1, s.completed)
          /\ r.completed \subseteq s.completed
          /\ \A m \in r.frontier : ~Terminal(m.state) => s.completed # {}
      BY <3>2, DeepeningIsSound
    <3> QED BY <3>2, <3>3
  <2>7. ASSUME ~Terminal(n.state) PROVE s.completed # {}
    <3>1. CASE d - 1 = 0
      <4>1. r.frontier = {StartAt(n)}
        BY <2>4, <3>1
      <4> HIDE DEF r, s
      <4> QED BY <2>6, <2>7, <4>1, StartingNodes
    <3>2. CASE d - 1 > 0
      <4>1. r.completed # {}
        BY <2>4, <2>7, <3>2
      <4> HIDE DEF r, s
      <4> QED BY <2>6, <4>1
    <3> QED BY <2>3, <3>1, <3>2
  <2>8. P(d)
    <3> HIDE DEF r, s
    <3> QED BY <2>3, <2>5, <2>6, <2>7
  <2> HIDE DEF P
  <2> QED BY <2>1, <2>8
<1>3. \A d \in 0..depth : P(d)
  <2> HIDE DEF P
  <2> QED BY <1>2
<1> QED BY <1>3

-----------------------------------------------------------------------------
\* Labels.

LEMMA DeepeningIsFinal ==
  ASSUME NEW w, NEW known, NEW preference, NEW beam, NEW n, IsNode(n), NEW d \in Nat, NEW r,
         PathsSound(n, d, r.frontier), Deepen(w, known, preference, beam, r).pending = {}
  PROVE  Deepen(w, Everything, preference, beam, r) = Deepen(w, known, preference, beam, r)
<1> DEFINE M == Moves(r.frontier)
           stops == {x \in M : x[2] = Stop}
           Of(K) == {x \in M \ stops : IsCached(K, x[1], x[2])}
<1>1. Of(Everything) = M \ stops
  <2> SUFFICES ASSUME NEW x \in M PROVE IsCached(Everything, x[1], x[2])
    OBVIOUS
  <2>1. IsNode(x[1]) /\ x[2] \in Actions
    BY SetsOfChildren
  <2> QED BY <2>1, Keys DEF IsCached, Everything
<1>2. Of(known) = M \ stops
  <2>1. {Key(x[1], x[2]) : x \in M \ (stops \cup Of(known))} = {}
    BY DEF Deepen, Moves
  <2> HIDE DEF M, Of, stops
  <2>2. M \ (stops \cup Of(known)) = {}
    BY <2>1
  <2>3. Of(known) \subseteq M \ stops
    BY DEF Of
  <2> QED BY <2>2, <2>3
<1>3. \A K : Deepen(w, K, preference, beam, r) =
        [frontier  |-> Widest(w, preference, beam, Children(w, Of(K))),
         completed |-> r.completed \cup {Extend(w, x[1], Stop) : x \in stops},
         pending   |-> r.pending \cup {Key(x[1], x[2]) : x \in M \ (stops \cup Of(K))}]
  BY DEF Deepen, Moves, Children
<1> HIDE DEF Of, M, stops
<1> QED BY <1>1, <1>2, <1>3

\* A search that misses nothing is the search of the complete cache.
LEMMA CompleteSearchesAreFinal ==
  ASSUME NEW w, NEW known, NEW n, IsNode(n), NEW preference, NEW beam, NEW depth \in Nat,
         SearchFrom(w, known, n, preference, beam, depth).pending = {}
  PROVE  SearchFrom(w, Everything, n, preference, beam, depth)
           = SearchFrom(w, known, n, preference, beam, depth)
<1>1. PICK level : /\ SearchLevels(w, known, n, preference, beam, depth, level)
                   /\ SearchFrom(w, known, n, preference, beam, depth) = level[depth]
  BY SearchesHaveLevels
<1>2. PICK full : /\ SearchLevels(w, Everything, n, preference, beam, depth, full)
                  /\ SearchFrom(w, Everything, n, preference, beam, depth) = full[depth]
  BY SearchesHaveLevels
<1>3. /\ level[0] = Start(n) /\ full[0] = Start(n)
      /\ \A d \in 1..depth : /\ level[d] = Deepen(w, known, preference, beam, level[d - 1])
                             /\ full[d] = Deepen(w, Everything, preference, beam, full[d - 1])
  BY <1>1, <1>2 DEF SearchLevels
<1>4. \A d \in 0..depth : PathsSound(n, d, level[d].frontier)
  BY <1>1, SearchIsSound
<1>5. \A d \in 1..depth : level[d - 1].pending \subseteq level[d].pending
  <2>1. \A r : r.pending \subseteq Deepen(w, known, preference, beam, r).pending
    BY DEF Deepen
  <2> QED BY <1>3, <2>1
<1>6. \A d \in 0..depth : level[d].pending = {}
  <2> DEFINE Bad == {k \in 0..depth : level[depth - k].pending # {}}
  <2>1. ASSUME Bad # {} PROVE FALSE
    <3>1. PICK k \in Bad : \A j \in Bad : k <= j
      <4>1. Bad \in SUBSET Nat
        OBVIOUS
      <4> HIDE DEF Bad
      <4> QED BY <2>1, <4>1, LeastOfNumbers
    <3>2. k # 0
      BY <1>1, <3>1
    <3>3. k \in 0..depth /\ k - 1 \in 0..depth /\ k - 1 \notin Bad
      BY <3>1, <3>2
    <3>4. depth - (k - 1) \in 1..depth /\ depth - (k - 1) - 1 = depth - k
      BY <3>2, <3>3
    <3>5. level[depth - k].pending \subseteq level[depth - (k - 1)].pending
      BY <1>5, <3>4
    <3> QED BY <3>1, <3>3, <3>5
  <2>2. \A d \in 0..depth : depth - d \in 0..depth /\ depth - (depth - d) = d
    OBVIOUS
  <2> QED BY <2>1, <2>2
<1>7. \A d \in 0..depth : full[d] = level[d]
  <2> DEFINE Bad == {d \in 0..depth : full[d] # level[d]}
  <2>1. ASSUME Bad # {} PROVE FALSE
    <3>1. PICK d \in Bad : \A j \in Bad : d <= j
      <4>1. Bad \in SUBSET Nat
        OBVIOUS
      <4> HIDE DEF Bad
      <4> QED BY <2>1, <4>1, LeastOfNumbers
    <3>2. d # 0
      BY <1>3, <3>1
    <3>3. d \in 1..depth /\ d - 1 \in 0..depth /\ d - 1 \notin Bad
      BY <3>1, <3>2
    <3>4. full[d - 1] = level[d - 1]
      BY <3>3
    <3>5. Deepen(w, known, preference, beam, level[d - 1]).pending = {}
      BY <1>3, <1>6, <3>3
    <3>6. PathsSound(n, d - 1, level[d - 1].frontier) /\ d - 1 \in Nat
      BY <1>4, <3>3
    <3>7. Deepen(w, Everything, preference, beam, level[d - 1])
            = Deepen(w, known, preference, beam, level[d - 1])
      BY <3>5, <3>6, DeepeningIsFinal
    <3> QED BY <1>3, <3>1, <3>3, <3>4, <3>7
  <2> QED BY <2>1
<1> QED BY <1>1, <1>2, <1>7

\* A label that was given is the label of the complete cache, and legal.
LEMMA GivenLabels ==
  ASSUME NEW w, NEW known, NEW n, IsNode(n), ~Terminal(n.state),
         NEW preference \in Preferences, NEW beam, NEW depth \in Nat \ {0},
         Label(w, known, n, preference, beam, depth).pending = {}
  PROVE  /\ Label(w, Everything, n, preference, beam, depth)
              = Label(w, known, n, preference, beam, depth)
         /\ Label(w, known, n, preference, beam, depth).action \in ValidActions(n.state)
<1> DEFINE r == SearchFrom(w, known, n, preference, beam, depth)
<1>1. r.pending = {}
  BY DEF Label, LabelOf
<1>2. Label(w, Everything, n, preference, beam, depth)
        = Label(w, known, n, preference, beam, depth)
  BY <1>1, CompleteSearchesAreFinal DEF Label
<1>3. CompletedSound(n, depth, r.completed) /\ r.completed # {}
  <2>1. PICK level : /\ SearchLevels(w, known, n, preference, beam, depth, level)
                     /\ r = level[depth]
    BY SearchesHaveLevels
  <2>2. depth \in 0..depth /\ depth > 0 /\ depth \in Nat
    OBVIOUS
  <2> HIDE DEF r
  <2>3. \A d \in 0..depth :
           /\ CompletedSound(n, d, level[d].completed)
           /\ d > 0 /\ ~Terminal(n.state) => level[d].completed # {}
    BY <2>1, <2>2, SearchIsSound
  <2> QED BY <2>1, <2>2, <2>3
<1>4. First(w, preference, r.completed) \in r.completed
  <2> HIDE DEF r
  <2> QED BY <1>3, OneIsFirst DEF CompletedSound
<1>5. Label(w, known, n, preference, beam, depth).action = Move(n, First(w, preference, r.completed))
  BY <1>1 DEF Label, LabelOf, Move
<1> HIDE DEF r
<1> QED BY <1>2, <1>3, <1>4, <1>5 DEF CompletedSound

-----------------------------------------------------------------------------
\* Rollouts.

LEMMA ForemostIsOneOfThem ==
  ASSUME NEW order, NEW S, S # {}
  PROVE  Foremost(order, S) \in S
<1> DEFINE ahead == {a \in S : \E i \in DOMAIN order :
                       order[i] = a.event /\ \A b \in S, j \in 1..(i - 1) : order[j] # b.event}
           T == IF ahead = {} THEN S ELSE ahead
<1>1. T # {} /\ T \subseteq S
  OBVIOUS
<1>2. Foremost(order, S) = CHOOSE a \in T : TRUE
  BY DEF Foremost
<1> HIDE DEF ahead, T
<1> QED BY <1>1, <1>2

LEMMA EarliestIsLegal ==
  ASSUME NEW n, ~Terminal(n.state), NEW K, NEW kinds \in Seq(K)
  PROVE  Earliest(n, kinds) \in ValidActions(n.state)
<1> DEFINE offered == {i \in DOMAIN kinds : Legal(n, kinds[i]) # {}}
<1>1. CASE offered = {}
  BY <1>1, OfferedActions DEF Earliest
<1>2. CASE offered # {}
  <2>1. offered \in SUBSET Nat
    OBVIOUS
  <2>2. PICK m \in offered : \A k \in offered : m <= k
    <3> HIDE DEF offered
    <3> QED BY <1>2, <2>1, LeastOfNumbers
  <2>3. Min(offered) \in offered
    <3> HIDE DEF offered
    <3> QED BY <2>2 DEF Min
  <2>4. Legal(n, kinds[Min(offered)]) # {}
    BY <2>3
  <2>5. Earliest(n, kinds) = Foremost(n.order, Legal(n, kinds[Min(offered)]))
    BY <1>2 DEF Earliest
  <2> HIDE DEF offered
  <2>6. Foremost(n.order, Legal(n, kinds[Min(offered)])) \in Legal(n, kinds[Min(offered)])
    BY <2>4, ForemostIsOneOfThem
  <2> QED BY <2>5, <2>6 DEF Legal
<1> QED BY <1>1, <1>2

\* Every policy selects what the mask allows.
LEMMA SelectIsLegal ==
  ASSUME NEW w, NEW n, ~Terminal(n.state), NEW K, NEW policy \in Seq(K)
  PROVE  Select(w, policy, n) \in ValidActions(n.state)
<1> DEFINE V == ValidActions(n.state)
<1>1. Stop \in V
  BY OfferedActions
<1>2. \A kind : Legal(n, kind) \subseteq V
  BY DEF Legal
<1>3. Discover(n) \in V
  <2> DEFINE rings  == Legal(n, "context")
             anchor == {a \in rings : n.order # <<>> /\ a.event = n.order[1]}
  <2>1. CASE rings = {}
    BY <1>1, <2>1 DEF Discover
  <2>2. CASE rings # {} /\ anchor # {}
    <3>1. Discover(n) = Foremost(n.order, anchor) /\ anchor \subseteq V
      BY <1>2, <2>2 DEF Discover
    <3> HIDE DEF anchor
    <3> QED BY <2>2, <3>1, ForemostIsOneOfThem
  <2>3. CASE rings # {} /\ anchor = {}
    <3>1. Discover(n) = Foremost(InTime, rings) /\ rings \subseteq V
      BY <1>2, <2>3 DEF Discover
    <3> HIDE DEF rings
    <3> QED BY <2>3, <3>1, ForemostIsOneOfThem
  <2> QED BY <2>1, <2>2, <2>3
<1>4. \A kind : CoversAll(n, kind) \in V
  <2> SUFFICES ASSUME NEW kind PROVE CoversAll(n, kind) \in V
    OBVIOUS
  <2>1. Legal(n, kind) # {} => Foremost(InTime, Legal(n, kind)) \in V
    BY <1>2, ForemostIsOneOfThem
  <2> QED BY <1>1, <1>3, <2>1 DEF CoversAll
<1>5. Earliest(n, <<"residual", "low", "context">>) \in V
  <2>1. <<"residual", "low", "context">> \in Seq(Kinds)
    BY DEF Kinds, Visual
  <2> QED BY <2>1, EarliestIsLegal
<1>6. Earliest(n, policy) \in V
  BY EarliestIsLegal
<1> DEFINE rule == IF Search \in V THEN Search
                   ELSE IF n.state.evidence \cap w.confident # {} THEN Stop
                   ELSE Earliest(n, <<"residual", "low", "context">>)
<1>7. rule \in V
  BY <1>1, <1>5
<1>8. Select(w, policy, n) \in {CoversAll(n, "low"), CoversAll(n, "residual"), rule, Earliest(n, policy)}
  <2>1. Select(w, policy, n) =
          CASE policy = <<"uniform">> -> CoversAll(n, "low")
            [] policy = <<"full">>    -> CoversAll(n, "residual")
            [] policy = <<"rule">>    -> rule
            [] OTHER -> Earliest(n, policy)
    BY DEF Select
  <2> HIDE DEF rule
  <2> QED BY <2>1
<1> HIDE DEF V, rule
<1>9. Select(w, policy, n) \in V
  BY <1>4, <1>6, <1>7, <1>8
<1> QED BY <1>9 DEF V

RolloutStart(budget) == [nodes |-> <<Root(budget)>>, missing |-> {}]

RolloutMove(w, known, policy, r) ==
    LET n == r.nodes[Len(r.nodes)]
        a == Select(w, policy, n)
    IN IF Terminal(n.state) \/ r.missing # {} THEN r
       ELSE IF a # Stop /\ Key(n, a) \notin known
       THEN [r EXCEPT !.missing = {Key(n, a)}]
       ELSE [r EXCEPT !.nodes = Append(@, Extend(w, n, a))]

RolloutSteps(w, known, policy, budget, k, f) ==
    f = [i \in 0..k |-> IF i = 0 THEN RolloutStart(budget)
                        ELSE RolloutMove(w, known, policy, f[i - 1])]

LEMMA RolloutsHaveSteps ==
  ASSUME NEW w, NEW known, NEW policy, NEW budget
  PROVE  \E f : /\ RolloutSteps(w, known, policy, budget, MaxDepth, f)
                /\ Rollout(w, known, policy, budget) = f[MaxDepth]
<1> DEFINE P(k, f) == RolloutSteps(w, known, policy, budget, k, f)
           Bad == {k \in Nat : ~\E f : P(k, f)}
<1>1. ASSUME Bad # {} PROVE FALSE
  <2>1. PICK k \in Bad : \A j \in Bad : k <= j
    <3>1. Bad \in SUBSET Nat
      OBVIOUS
    <3> HIDE DEF Bad
    <3> QED BY <1>1, <3>1, LeastOfNumbers
  <2>2. k # 0
    <3> DEFINE f == [i \in 0..0 |-> RolloutStart(budget)]
    <3>1. P(0, f)
      BY DEF RolloutSteps
    <3> HIDE DEF f, P
    <3> QED BY <3>1
  <2>3. k \in Nat /\ k - 1 \in Nat /\ k - 1 \notin Bad
    BY <2>1, <2>2
  <2>4. PICK f : P(k - 1, f)
    BY <2>3
  <2> DEFINE g == [i \in 0..k |-> IF i = 0 THEN RolloutStart(budget)
                                  ELSE RolloutMove(w, known, policy, f[i - 1])]
  <2>5. \A i \in 0..(k - 1) : g[i] = f[i]
    BY <2>3, <2>4 DEF RolloutSteps
  <2>6. \A i \in 1..k : g[i] = RolloutMove(w, known, policy, g[i - 1])
    <3> SUFFICES ASSUME NEW i \in 1..k
                 PROVE  g[i] = RolloutMove(w, known, policy, g[i - 1])
      OBVIOUS
    <3>1. i \in 0..k /\ i # 0 /\ i - 1 \in 0..(k - 1)
      BY <2>3
    <3>2. g[i] = RolloutMove(w, known, policy, f[i - 1])
      BY <3>1
    <3>3. g[i - 1] = f[i - 1]
      BY <2>5, <3>1
    <3> QED BY <3>2, <3>3
  <2>7. P(k, g)
    <3>1. g[0] = RolloutStart(budget)
      BY <2>3
    <3>2. g = [i \in 0..k |-> g[i]]
      OBVIOUS
    <3> HIDE DEF g
    <3>3. \A i \in 0..k : g[i] = IF i = 0 THEN RolloutStart(budget)
                                 ELSE RolloutMove(w, known, policy, g[i - 1])
      BY <2>3, <2>6, <3>1
    <3> QED BY <3>2, <3>3 DEF RolloutSteps
  <2> HIDE DEF P, g
  <2> QED BY <2>1, <2>7
<1>2. \E f : P(MaxDepth, f)
  <2>1. MaxDepth \in Nat
    BY CollectionAssumption
  <2> QED BY <1>1, <2>1
<1> DEFINE f == CHOOSE g : P(MaxDepth, g)
<1>3. P(MaxDepth, f)
  <2> HIDE DEF P
  <2> QED BY <1>2
<1>4. Rollout(w, known, policy, budget) = f[MaxDepth]
  BY DEF Rollout, RolloutSteps, RolloutStart, RolloutMove
<1> QED BY <1>3, <1>4

\* The nodes of a rollout: each step went on from where the one before it ended, by a legal
\* action.
Trail(nodes) ==
    /\ \E S : nodes \in Seq(S)
    /\ Len(nodes) > 0
    /\ \A i \in 1..Len(nodes) : IsNode(nodes[i]) /\ Len(nodes[i].path) = i - 1
    /\ \A i \in 1..(Len(nodes) - 1) : /\ ~Terminal(nodes[i].state)
                                      /\ nodes[i + 1].path[i] \in ValidActions(nodes[i].state)

RolloutSound(r) == r = [nodes |-> r.nodes, missing |-> r.missing] /\ Trail(r.nodes)

LEMMA MovesKeepTrails ==
  ASSUME NEW w, NEW known, NEW K, NEW policy \in Seq(K), NEW r, RolloutSound(r)
  PROVE  RolloutSound(RolloutMove(w, known, policy, r))
<1> DEFINE nodes == r.nodes
           L == Len(nodes)
           n == nodes[L]
           a == Select(w, policy, n)
           m == Extend(w, n, a)
<1>1. PICK S : nodes \in Seq(S)
  BY DEF RolloutSound, Trail
<1>2. L \in Nat /\ L > 0 /\ IsNode(n) /\ Len(n.path) = L - 1
  BY <1>1 DEF RolloutSound, Trail
<1>3. CASE Terminal(n.state) \/ r.missing # {}
  BY <1>3 DEF RolloutMove
<1>4. CASE ~Terminal(n.state) /\ r.missing = {} /\ a # Stop /\ Key(n, a) \notin known
  <2>1. RolloutMove(w, known, policy, r) = [r EXCEPT !.missing = {Key(n, a)}]
    BY <1>4 DEF RolloutMove
  <2> QED BY <2>1 DEF RolloutSound
<1>5. CASE ~Terminal(n.state) /\ r.missing = {} /\ ~(a # Stop /\ Key(n, a) \notin known)
  <2>1. RolloutMove(w, known, policy, r) = [r EXCEPT !.nodes = Append(r.nodes, m)]
    BY <1>5 DEF RolloutMove
  <2>2. a \in ValidActions(n.state) /\ a \in Actions
    BY <1>5, SelectIsLegal, OfferedActions
  <2> HIDE DEF a
  <2>3. IsNode(m) /\ Len(m.path) = L /\ m.path[L] = a
    <3>1. IsNode(m) /\ m.path = Key(n, a)
      BY <1>2, <2>2, ExtendedNodes
    <3>2. Len(Key(n, a)) = Len(n.path) + 1 /\ Key(n, a)[Len(n.path) + 1] = a
      BY <1>2, <2>2, Keys
    <3> HIDE DEF n, m
    <3>3. Len(n.path) + 1 = L
      BY <1>2
    <3> QED BY <3>1, <3>2, <3>3
  <2> DEFINE next == Append(nodes, m)
  <2>4. /\ next \in Seq(S \cup {m}) /\ Len(next) = L + 1 /\ next[L + 1] = m
        /\ \A i \in 1..L : next[i] = nodes[i]
    <3> HIDE DEF m
    <3> QED BY <1>1
  <2>5. /\ \A i \in 1..L : IsNode(nodes[i]) /\ Len(nodes[i].path) = i - 1
        /\ \A i \in 1..(L - 1) : /\ ~Terminal(nodes[i].state)
                                 /\ nodes[i + 1].path[i] \in ValidActions(nodes[i].state)
    BY DEF RolloutSound, Trail
  <2>6. Trail(next)
    <3> HIDE DEF next, m
    <3>1. \A i \in 1..(L + 1) : IsNode(next[i]) /\ Len(next[i].path) = i - 1
      <4> SUFFICES ASSUME NEW i \in 1..(L + 1)
                   PROVE  IsNode(next[i]) /\ Len(next[i].path) = i - 1
        OBVIOUS
      <4>1. CASE i = L + 1
        BY <1>2, <2>3, <2>4, <4>1
      <4>2. CASE i # L + 1
        <5>1. i \in 1..L
          BY <1>2, <4>2
        <5> QED BY <2>4, <2>5, <5>1
      <4> QED BY <4>1, <4>2
    <3>2. \A i \in 1..L : /\ ~Terminal(next[i].state)
                          /\ next[i + 1].path[i] \in ValidActions(next[i].state)
      <4> SUFFICES ASSUME NEW i \in 1..L
                   PROVE  /\ ~Terminal(next[i].state)
                          /\ next[i + 1].path[i] \in ValidActions(next[i].state)
        OBVIOUS
      <4>1. CASE i = L
        <5>1. next[i] = n /\ next[i + 1] = m
          BY <1>2, <2>4, <4>1
        <5> HIDE DEF n, nodes, L
        <5> QED BY <1>5, <2>2, <2>3, <4>1, <5>1
      <4>2. CASE i # L
        <5>1. i \in 1..(L - 1) /\ i + 1 \in 1..L
          BY <1>2, <4>2
        <5> QED BY <2>4, <2>5, <5>1
      <4> QED BY <4>1, <4>2
    <3>3. Len(next) > 0 /\ Len(next) - 1 = L
      BY <1>2, <2>4
    <3> QED BY <2>4, <3>1, <3>2, <3>3 DEF Trail
  <2> HIDE DEF next, m
  <2>7. RolloutMove(w, known, policy, r) = [nodes |-> next, missing |-> r.missing]
    BY <2>1 DEF RolloutSound, next, m
  <2> QED BY <2>6, <2>7 DEF RolloutSound
<1> QED BY <1>3, <1>4, <1>5

LEMMA RolloutsAreTrails ==
  ASSUME NEW w, NEW known, NEW K, NEW policy \in Seq(K), NEW budget
  PROVE  Trail(Rollout(w, known, policy, budget).nodes)
<1>1. PICK f : /\ RolloutSteps(w, known, policy, budget, MaxDepth, f)
               /\ Rollout(w, known, policy, budget) = f[MaxDepth]
  BY RolloutsHaveSteps
<1>2. /\ MaxDepth \in Nat /\ f[0] = RolloutStart(budget)
      /\ \A i \in 1..MaxDepth : f[i] = RolloutMove(w, known, policy, f[i - 1])
  BY <1>1, CollectionAssumption DEF RolloutSteps
<1> DEFINE Bad == {i \in 0..MaxDepth : ~RolloutSound(f[i])}
<1>3. ASSUME Bad # {} PROVE FALSE
  <2>1. PICK i \in Bad : \A j \in Bad : i <= j
    <3>1. Bad \in SUBSET Nat
      OBVIOUS
    <3> HIDE DEF Bad
    <3> QED BY <1>3, <3>1, LeastOfNumbers
  <2>2. RolloutSound(RolloutStart(budget))
    <3>1. /\ Root(budget).path = <<>> /\ IsNode(Root(budget))
      BY DEF Root, IsNode
    <3> DEFINE n == Root(budget)
    <3> HIDE DEF n
    <3>2. Trail(<<n>>)
      <4>1. IsNode(n) /\ Len(n.path) = 0
        BY <3>1 DEF n
      <4>2. \E S : <<n>> \in Seq(S)
        <5>1. <<n>> \in Seq({n})
          OBVIOUS
        <5> QED BY <5>1
      <4>3. Len(<<n>>) = 1 /\ <<n>>[1] = n
        OBVIOUS
      <4> DEFINE T == <<n>>
      <4>4. (\E S : T \in Seq(S)) /\ Len(T) = 1 /\ T[1] = n
        BY <4>2, <4>3
      <4> HIDE DEF T
      <4>5. Trail(T)
        BY <4>1, <4>4 DEF Trail
      <4> QED BY <4>5 DEF T
    <3> QED BY <3>2 DEF RolloutSound, RolloutStart, n
  <2>3. i # 0 /\ i \in 1..MaxDepth /\ i - 1 \in 0..MaxDepth
    BY <1>2, <2>1, <2>2
  <2>4. RolloutSound(f[i - 1])
    BY <2>1, <2>3
  <2> QED BY <1>2, <2>1, <2>3, <2>4, MovesKeepTrails
<1> QED BY <1>1, <1>2, <1>3 DEF RolloutSound

-----------------------------------------------------------------------------
\* What a round collects.

\* The body of LabelsAreFinal, of a world and one deviation.
FinalLabel(w, d) ==
    /\ d.oracle = Label(w, Everything, d.at, d.context.preference, BeamSize, MaxDepth).action
    /\ d.policy # d.oracle /\ {d.policy, d.oracle} \subseteq ValidActions(d.at.state)

\* A state is kept under one key.
KeptOnce(D) == \A d, e \in D : d.key = e.key => d = e

\* What was collected after the keys in base had been seen.
CollectionSound(w, base, c) ==
    /\ base \subseteq c.seen
    /\ IsFiniteSet(c.new) /\ KeptOnce(c.new)
    /\ \A d \in c.new : d.key \in c.seen /\ d.key \notin base
    /\ c.missing = {} => \A d \in c.new : FinalLabel(w, d)

LEMMA CollectingIsSound ==
  ASSUME NEW w, NEW known, NEW context \in Contexts, NEW K, NEW policy \in Seq(K), NEW base,
         NEW c, c.missing = {}, CollectionSound(w, base, c)
  PROVE  LET r == Rollout(w, known, policy, context.budget)
         IN CollectionSound(w, base,
              [Collect(w, known, context, c.seen, r) EXCEPT !.new = @ \cup c.new])
<1> DEFINE r == Rollout(w, known, policy, context.budget)
           nodes == r.nodes
           at == {i \in 1..(Len(nodes) - 1) : StateKey(context, nodes[i]) \notin c.seen}
           label(i) == Label(w, known, nodes[i], context.preference, BeamSize, MaxDepth)
           taken(i) == nodes[i + 1].path[i]
           wrong == {j \in at : label(j).action # taken(j)}
           made == [i \in wrong |-> Deviation(context, nodes[i], taken(i), label(i).action)]
           new == {made[i] : i \in wrong}
           missing == IF r.missing # {} THEN r.missing ELSE UNION {label(i).pending : i \in at}
           got == [missing |-> missing,
                   seen |-> c.seen \cup {StateKey(context, nodes[i]) : i \in at},
                   new |-> new \cup c.new]
<1>1. Trail(nodes)
  BY RolloutsAreTrails
<1>2. [Collect(w, known, context, c.seen, r) EXCEPT !.new = @ \cup c.new] = got
  <2>1. Collect(w, known, context, c.seen, r)
          = [missing |-> missing, seen |-> got.seen, new |-> new]
    <3> DEFINE f == [i \in at |-> label(i)]
    <3>1. Collect(w, known, context, c.seen, r)
            = [missing |-> IF r.missing # {} THEN r.missing ELSE UNION {f[i].pending : i \in at},
               seen    |-> c.seen \cup {StateKey(context, nodes[i]) : i \in at},
               new     |-> {Deviation(context, nodes[i], taken(i), f[i].action) :
                              i \in {j \in at : f[j].action # taken(j)}}]
      BY DEF Collect, CollectAt
    <3>2. \A i \in at : f[i] = label(i)
      OBVIOUS
    <3> HIDE DEF at, label, f, r
    <3>3. {j \in at : f[j].action # taken(j)} = wrong
      BY <3>2
    <3>4. {Deviation(context, nodes[i], taken(i), f[i].action) : i \in wrong} = new
      <4>1. \A i \in wrong : made[i] = Deviation(context, nodes[i], taken(i), f[i].action)
        BY <3>2
      <4> HIDE DEF made, wrong
      <4> QED BY <4>1
    <3>5. UNION {f[i].pending : i \in at} = UNION {label(i).pending : i \in at}
      BY <3>2
    <3> HIDE DEF new, wrong
    <3> QED BY <3>1, <3>3, <3>4, <3>5
  <2>2. ASSUME NEW t, NEW a, NEW b, NEW x, NEW y, t = [missing |-> a, seen |-> b, new |-> x]
        PROVE  [t EXCEPT !.new = @ \cup y] = [missing |-> a, seen |-> b, new |-> x \cup y]
    <3> DEFINE z == x \cup y
    <3>1. t.new \cup y = z
      BY <2>2
    <3> HIDE DEF z
    <3>2. [t EXCEPT !.new = z] = [missing |-> a, seen |-> b, new |-> z]
      BY <2>2
    <3> QED BY <3>1, <3>2 DEF z
  <2>3. got = [missing |-> missing, seen |-> got.seen, new |-> new \cup c.new]
    OBVIOUS
  <2> HIDE DEF missing, new, got
  <2> QED BY <2>1, <2>2, <2>3
<1>3. /\ got.missing = missing /\ got.new = new \cup c.new
      /\ got.seen = c.seen \cup {StateKey(context, nodes[i]) : i \in at}
  OBVIOUS
<1>4. \A i \in wrong : /\ made[i].key = StateKey(context, nodes[i]) /\ made[i].at = nodes[i]
                       /\ made[i].context = context /\ made[i].policy = taken(i)
                       /\ made[i].oracle = label(i).action
  BY DEF Deviation
<1>5. /\ Len(nodes) \in Nat /\ at \subseteq 1..(Len(nodes) - 1) /\ wrong \subseteq at
      /\ \A i \in at : /\ StateKey(context, nodes[i]) \notin c.seen
                       /\ IsNode(nodes[i]) /\ Len(nodes[i].path) = i - 1
                       /\ ~Terminal(nodes[i].state)
                       /\ taken(i) \in ValidActions(nodes[i].state)
  <2> HIDE DEF r
  <2>1. Len(nodes) \in Nat
    BY <1>1 DEF Trail
  <2>2. at \subseteq 1..(Len(nodes) - 1) /\ wrong \subseteq at
    OBVIOUS
  <2>3. \A i \in at : StateKey(context, nodes[i]) \notin c.seen
    OBVIOUS
  <2> HIDE DEF at, wrong, label
  <2>4. ASSUME NEW i \in at
        PROVE  /\ IsNode(nodes[i]) /\ Len(nodes[i].path) = i - 1
               /\ ~Terminal(nodes[i].state)
               /\ taken(i) \in ValidActions(nodes[i].state)
    <3>1. i \in 1..(Len(nodes) - 1) /\ i \in 1..Len(nodes)
      BY <2>1, <2>2
    <3> HIDE DEF nodes
    <3> QED BY <1>1, <3>1 DEF Trail
  <2> QED BY <2>1, <2>2, <2>3, <2>4
<1>6. \A i, j \in at : StateKey(context, nodes[i]) = StateKey(context, nodes[j]) => i = j
  <2> SUFFICES ASSUME NEW i \in at, NEW j \in at,
                      StateKey(context, nodes[i]) = StateKey(context, nodes[j])
               PROVE  i = j
    OBVIOUS
  <2>1. nodes[i].path = nodes[j].path
    BY DEF StateKey
  <2>2. i \in Int /\ j \in Int /\ i - 1 = j - 1
    BY <1>5, <2>1
  <2> QED BY <2>2
<1>7. IsFiniteSet(new)
  <2>1. IsFiniteSet(wrong)
    <3> HIDE DEF wrong, at, r
    <3>1. IsFiniteSet(1..(Len(nodes) - 1))
      BY <1>5, FS_Interval, 1 \in Int, Len(nodes) - 1 \in Int
    <3> QED BY <1>5, <3>1, FS_Subset
  <2>2. DOMAIN made = wrong
    OBVIOUS
  <2> HIDE DEF made, wrong
  <2> QED BY <2>1, <2>2, ImagesAreFinite
<1>8. missing = {} => \A i \in wrong : FinalLabel(w, made[i])
  <2> SUFFICES ASSUME missing = {}, NEW i \in wrong PROVE FinalLabel(w, made[i])
    OBVIOUS
  <2>1. label(i).pending = {} /\ i \in at
    <3>1. i \in at
      OBVIOUS
    <3> HIDE DEF label, at, r, wrong
    <3>2. UNION {label(j).pending : j \in at} = {}
      OBVIOUS
    <3> QED BY <3>1, <3>2
  <2>2. context.preference \in Preferences /\ MaxDepth \in Nat \ {0}
    BY CollectionAssumption
  <2>3. /\ Label(w, Everything, nodes[i], context.preference, BeamSize, MaxDepth) = label(i)
        /\ label(i).action \in ValidActions(nodes[i].state)
    <3>1. IsNode(nodes[i]) /\ ~Terminal(nodes[i].state)
      BY <1>5, <2>1
    <3> DEFINE n == nodes[i]
    <3>2. IsNode(n) /\ ~Terminal(n.state)
      BY <3>1
    <3>3. Label(w, known, n, context.preference, BeamSize, MaxDepth).pending = {}
      BY <2>1
    <3> HIDE DEF n
    <3>4. /\ Label(w, Everything, n, context.preference, BeamSize, MaxDepth)
               = Label(w, known, n, context.preference, BeamSize, MaxDepth)
          /\ Label(w, known, n, context.preference, BeamSize, MaxDepth).action
               \in ValidActions(n.state)
      BY <2>2, <3>2, <3>3, GivenLabels
    <3> QED BY <3>4 DEF n
  <2>4. label(i).action # taken(i)
    OBVIOUS
  <2> HIDE DEF label, taken, made, at, wrong, r
  <2>5. taken(i) \in ValidActions(nodes[i].state)
    BY <1>5, <2>1
  <2> QED BY <1>4, <2>3, <2>4, <2>5 DEF FinalLabel
<1>10. \A d \in new : \E i \in wrong : d = made[i]
  OBVIOUS
<1> HIDE DEF missing, made, new, label, taken, at, wrong, got, r
<1>11. CollectionSound(w, base, got)
  <2>1. base \subseteq got.seen
    BY <1>3 DEF CollectionSound
  <2>2. IsFiniteSet(got.new)
    <3>1. IsFiniteSet(c.new)
      BY DEF CollectionSound
    <3>2. IsFiniteSet(new \cup c.new)
      BY <1>7, <3>1, FS_Union
    <3> QED BY <1>3, <3>2
  <2>3. \A i \in wrong : made[i].key \in got.seen /\ made[i].key \notin c.seen
    BY <1>3, <1>4, <1>5
  <2>4. KeptOnce(got.new)
    <3>1. \A i, j \in wrong : made[i].key = made[j].key => made[i] = made[j]
      BY <1>4, <1>5, <1>6
    <3> QED BY <1>3, <1>10, <2>3, <3>1 DEF CollectionSound, KeptOnce
  <2>5. \A d \in got.new : d.key \in got.seen /\ d.key \notin base
    BY <1>3, <1>10, <2>3 DEF CollectionSound
  <2>6. got.missing = {} => \A d \in got.new : FinalLabel(w, d)
    BY <1>3, <1>8, <1>10 DEF CollectionSound
  <2> QED BY <2>1, <2>2, <2>4, <2>5, <2>6 DEF CollectionSound
<1> QED BY <1>2, <1>11 DEF r

Nothing == [missing |-> {}, seen |-> SeenBefore, new |-> {}]

CollectSteps(known, k, f) ==
    f = [i \in 0..k |-> IF i = 0 THEN Nothing ELSE CollectNext(known, Train[i], f[i - 1])]

LEMMA CollectionsHaveSteps ==
  ASSUME NEW known
  PROVE  \E f : CollectSteps(known, Len(Train), f) /\ CollectAll(known) = f[Len(Train)]
<1> DEFINE P(k, f) == CollectSteps(known, k, f)
           Bad == {k \in Nat : ~\E f : P(k, f)}
<1>1. ASSUME Bad # {} PROVE FALSE
  <2>1. PICK k \in Bad : \A j \in Bad : k <= j
    <3>1. Bad \in SUBSET Nat
      OBVIOUS
    <3> HIDE DEF Bad
    <3> QED BY <1>1, <3>1, LeastOfNumbers
  <2>2. k # 0
    <3> DEFINE f == [i \in 0..0 |-> Nothing]
    <3>1. P(0, f)
      BY DEF CollectSteps
    <3> HIDE DEF f, P
    <3> QED BY <3>1
  <2>3. k \in Nat /\ k - 1 \in Nat /\ k - 1 \notin Bad
    BY <2>1, <2>2
  <2>4. PICK f : P(k - 1, f)
    BY <2>3
  <2> DEFINE g == [i \in 0..k |-> IF i = 0 THEN Nothing ELSE CollectNext(known, Train[i], f[i - 1])]
  <2>5. \A i \in 0..(k - 1) : g[i] = f[i]
    BY <2>3, <2>4 DEF CollectSteps
  <2>6. \A i \in 1..k : g[i] = CollectNext(known, Train[i], g[i - 1])
    <3> SUFFICES ASSUME NEW i \in 1..k
                 PROVE  g[i] = CollectNext(known, Train[i], g[i - 1])
      OBVIOUS
    <3>1. i \in 0..k /\ i # 0 /\ i - 1 \in 0..(k - 1)
      BY <2>3
    <3>2. g[i] = CollectNext(known, Train[i], f[i - 1])
      BY <3>1
    <3>3. g[i - 1] = f[i - 1]
      BY <2>5, <3>1
    <3> QED BY <3>2, <3>3
  <2>7. P(k, g)
    <3>1. g[0] = Nothing
      BY <2>3
    <3>2. g = [i \in 0..k |-> g[i]]
      OBVIOUS
    <3> HIDE DEF g
    <3>3. \A i \in 0..k : g[i] = IF i = 0 THEN Nothing ELSE CollectNext(known, Train[i], g[i - 1])
      BY <2>3, <2>6, <3>1
    <3> QED BY <3>2, <3>3 DEF CollectSteps
  <2> HIDE DEF P, g
  <2> QED BY <2>1, <2>7
<1>2. \E f : P(Len(Train), f)
  <2>1. Len(Train) \in Nat
    BY CollectionAssumption
  <2> QED BY <1>1, <2>1
<1> DEFINE f == CHOOSE g : P(Len(Train), g)
<1>3. P(Len(Train), f)
  <2> HIDE DEF P
  <2> QED BY <1>2
<1>4. CollectAll(known) = f[Len(Train)]
  BY DEF CollectAll, CollectSteps, Nothing
<1> QED BY <1>3, <1>4

LEMMA RoundsCollectSoundly ==
  ASSUME NEW known, world \in Worlds, Len(chain) \in Nat, Len(chain) < MaxRounds
  PROVE  CollectionSound(world, SeenBefore, CollectAll(known))
<1> DEFINE base == SeenBefore
           w == world
           policy == PolicyOf(Len(chain) + 1)
           Sound(c) == CollectionSound(w, base, c)
<1>1. PICK f : CollectSteps(known, Len(Train), f) /\ CollectAll(known) = f[Len(Train)]
  BY CollectionsHaveSteps
<1>2. /\ Len(Train) \in Nat /\ f[0] = Nothing
      /\ \A i \in 1..Len(Train) : /\ f[i] = CollectNext(known, Train[i], f[i - 1])
                                  /\ Train[i] \in Contexts
  <2>1. Len(Train) \in Nat /\ \A i \in 1..Len(Train) : Train[i] \in Contexts
    BY CollectionAssumption
  <2>2. /\ f[0] = Nothing
        /\ \A i \in 1..Len(Train) : f[i] = CollectNext(known, Train[i], f[i - 1])
    BY <1>1, <2>1 DEF CollectSteps
  <2> QED BY <2>1, <2>2
<1>3. policy \in Seq(Kinds \cup {"search", "stop"})
  <2> DEFINE Orders == Seq(Kinds \cup {"search", "stop"})
             learned == world.learned
  <2>1. MaxRounds \in Nat /\ learned \in Seq(Orders) /\ Len(learned) > MaxRounds
    BY CollectionAssumption
  <2>2. policy = learned[Len(chain) + 1]
    BY DEF PolicyOf
  <2> HIDE DEF Orders, learned, policy
  <2>3. Len(chain) + 1 \in 1..Len(learned)
    BY <2>1
  <2>4. policy \in Orders
    BY <2>1, <2>2, <2>3
  <2> QED BY <2>4 DEF Orders
<1>4. Sound(Nothing)
  BY FS_EmptySet DEF CollectionSound, Nothing, KeptOnce
<1>5. ASSUME NEW c, Sound(c), NEW context \in Contexts PROVE Sound(CollectNext(known, context, c))
  <2>1. CASE c.missing # {}
    BY <1>5, <2>1 DEF CollectNext
  <2>2. CASE c.missing = {}
    <3> DEFINE r == Rollout(w, known, policy, context.budget)
               got == [Collect(w, known, context, c.seen, r) EXCEPT !.new = @ \cup c.new]
    <3>1. CollectNext(known, context, c) = got
      BY <2>2 DEF CollectNext
    <3> HIDE DEF policy
    <3>2. Sound(got)
      BY <1>3, <1>5, <2>2, CollectingIsSound
    <3> HIDE DEF got, Sound
    <3> QED BY <3>1, <3>2
  <2> QED BY <2>1, <2>2
<1> DEFINE Bad == {i \in 0..Len(Train) : ~Sound(f[i])}
<1>6. ASSUME Bad # {} PROVE FALSE
  <2>1. PICK i \in Bad : \A j \in Bad : i <= j
    <3>1. Bad \in SUBSET Nat
      OBVIOUS
    <3> HIDE DEF Bad
    <3> QED BY <1>6, <3>1, LeastOfNumbers
  <2> HIDE DEF Sound
  <2>2. i # 0 /\ i \in 1..Len(Train) /\ i - 1 \in 0..Len(Train)
    BY <1>2, <1>4, <2>1
  <2>3. Sound(f[i - 1])
    BY <2>1, <2>2
  <2> QED BY <1>2, <1>5, <2>1, <2>2, <2>3
<1>7. Sound(f[Len(Train)])
  <2> HIDE DEF Sound
  <2> QED BY <1>2, <1>6
<1> QED BY <1>1, <1>7

\* The keys of the deviations that a committed round holds.
KeysOf(c, i) == IF i = 0 THEN {} ELSE {d.key : d \in c[i].deviations}

\* The inductive invariant: a round holds every deviation so far, finitely many and each
\* under its own key, all of them seen, and what the two properties say.
CommittedRound(round) ==
    /\ IsFiniteSet(round.deviations) /\ KeptOnce(round.deviations)
    /\ \A d \in round.deviations : d.key \in round.seen

DeviationIInv ==
    /\ world \in Worlds
    /\ chain \in Seq(ToSet(chain)) /\ Len(chain) <= MaxRounds
    /\ \A i \in DOMAIN chain : CommittedRound(chain[i])
    /\ LabelsAreFinal
    /\ RoundsAreAcceptedAgain

LEMMA DeviationInitial == DeviationInit => DeviationIInv
<1> SUFFICES ASSUME DeviationInit PROVE DeviationIInv
  OBVIOUS
<1>1. chain = <<>> /\ world \in Worlds
  BY DEF DeviationInit
<1>2. chain \in Seq(ToSet(chain)) /\ Len(chain) = 0 /\ DOMAIN chain = {}
  BY <1>1
<1>3. DeviationsBefore = {}
  BY <1>1 DEF DeviationsBefore
<1>4. MaxRounds \in Nat
  BY CollectionAssumption
<1> QED BY <1>1, <1>2, <1>3, <1>4 DEF DeviationIInv, LabelsAreFinal, RoundsAreAcceptedAgain

LEMMA AcceptedAgain ==
  RoundsAreAcceptedAgain <=>
    \A i \in DOMAIN chain : /\ KeysOf(chain, i - 1) \subseteq KeysOf(chain, i)
                            /\ chain[i].new = KeysOf(chain, i) \ KeysOf(chain, i - 1)
                            /\ KeysOf(chain, i) \subseteq chain[i].seen
                            /\ Cardinality(KeysOf(chain, i)) = Cardinality(chain[i].deviations)
  BY DEF RoundsAreAcceptedAgain, KeysOf

\* The first round has nothing before it.
LEMMA WhatIsBefore ==
  ASSUME DeviationIInv
  PROVE  /\ IsFiniteSet(DeviationsBefore) /\ KeptOnce(DeviationsBefore)
         /\ \A d \in DeviationsBefore : d.key \in SeenBefore /\ FinalLabel(world, d)
         /\ KeysOf(chain, Len(chain)) = {d.key : d \in DeviationsBefore}
<1>1. LabelsAreFinal
  BY DEF DeviationIInv
<1>2. \A d \in DeviationsBefore : FinalLabel(world, d)
  BY <1>1 DEF LabelsAreFinal, FinalLabel
<1>3. CASE chain = <<>>
  <2>1. DeviationsBefore = {} /\ Len(chain) = 0
    BY <1>3 DEF DeviationsBefore
  <2> QED BY <2>1, FS_EmptySet DEF KeysOf, KeptOnce
<1>4. CASE chain # <<>>
  <2>1. Len(chain) \in DOMAIN chain /\ Len(chain) # 0
    BY <1>4 DEF DeviationIInv
  <2>2. CommittedRound(chain[Len(chain)])
    BY <2>1 DEF DeviationIInv
  <2>3. DeviationsBefore = chain[Len(chain)].deviations /\ SeenBefore = chain[Len(chain)].seen
    BY <1>4 DEF DeviationsBefore, SeenBefore
  <2> QED BY <1>2, <2>1, <2>2, <2>3 DEF CommittedRound, KeysOf
<1> QED BY <1>3, <1>4

LEMMA DeviationKept == DeviationIInv /\ [DeviationNext]_vars => DeviationIInv'
<1> SUFFICES ASSUME DeviationIInv, [DeviationNext]_vars PROVE DeviationIInv'
  OBVIOUS
<1>1. ASSUME UNCHANGED <<world, chain>> PROVE DeviationIInv'
  BY <1>1 DEF DeviationIInv, LabelsAreFinal, RoundsAreAcceptedAgain, DeviationsBefore
<1>2. CASE UNCHANGED vars
  BY <1>1, <1>2 DEF vars
<1>3. ASSUME NEW missing, Generate(missing) PROVE DeviationIInv'
  BY <1>1, <1>3 DEF Generate
<1>4. ASSUME NEW all, all = CollectAll(cached), Len(chain) < MaxRounds, Round(all, Missing(all))
      PROVE  DeviationIInv'
  <2> DEFINE D == DeviationsBefore
             L == Len(chain)
             old == {d.key : d \in D}
             keys == {d.key : d \in all.new}
             last == [seen |-> all.seen, new |-> keys,
                      deviations |-> D \cup {d \in all.new : d.key \notin old}]
  <2>1. L \in Nat /\ world \in Worlds /\ chain \in Seq(ToSet(chain))
    BY DEF DeviationIInv
  <2>2. Missing(all) = {} /\ chain' = Append(chain, last) /\ world' = world
    BY <1>4 DEF Round
  <2>3. all.missing = {}
    BY <2>2 DEF Missing
  <2>4. CollectionSound(world, SeenBefore, all)
    BY <1>4, <2>1, RoundsCollectSoundly
  <2>5. /\ SeenBefore \subseteq all.seen /\ IsFiniteSet(all.new) /\ KeptOnce(all.new)
        /\ \A d \in all.new : /\ d.key \in all.seen /\ d.key \notin SeenBefore
                              /\ FinalLabel(world, d)
    BY <2>3, <2>4 DEF CollectionSound
  <2>6. /\ IsFiniteSet(D) /\ KeptOnce(D) /\ KeysOf(chain, L) = old
        /\ \A d \in D : d.key \in SeenBefore /\ FinalLabel(world, d)
    BY WhatIsBefore
  <2> HIDE DEF D
  <2>7. last.deviations = D \cup all.new /\ last.seen = all.seen /\ last.new = keys
    BY <2>5, <2>6
  <2>8. CommittedRound(last)
    <3> HIDE DEF last
    <3>1. IsFiniteSet(D \cup all.new)
      BY <2>5, <2>6, FS_Union
    <3>2. KeptOnce(D \cup all.new)
      BY <2>5, <2>6 DEF KeptOnce
    <3> QED BY <2>5, <2>6, <2>7, <3>1, <3>2 DEF CommittedRound
  <2> HIDE DEF last, old, keys
  <2>9. /\ chain' \in Seq(ToSet(chain) \cup {last}) /\ Len(chain') = L + 1
        /\ chain'[L + 1] = last /\ \A i \in 1..L : chain'[i] = chain[i]
    BY <2>1, <2>2
  <2>10. DeviationsBefore' = D \cup all.new
    <3>1. chain' # <<>>
      BY <2>1, <2>9
    <3>2. DeviationsBefore' = chain'[Len(chain')].deviations
      BY <3>1 DEF DeviationsBefore
    <3> QED BY <2>7, <2>9, <3>2
  <2>11. LabelsAreFinal'
    <3>1. \A d \in D \cup all.new : FinalLabel(world, d)
      BY <2>5, <2>6
    <3>2. \A d \in DeviationsBefore' : FinalLabel(world', d)
      BY <2>2, <2>10, <3>1
    <3> QED BY <3>2 DEF LabelsAreFinal, FinalLabel
  <2>12. \A i \in 1..(L + 1) : CommittedRound(chain'[i])
    <3>1. \A i \in 1..L : CommittedRound(chain[i])
      BY <2>1 DEF DeviationIInv
    <3> QED BY <2>1, <2>8, <2>9, <3>1
  <2>13. DOMAIN chain' = 1..(L + 1) /\ DOMAIN chain = 1..L
    BY <2>1, <2>9
  <2>14. RoundsAreAcceptedAgain'
    <3> DEFINE Good(c, i) ==
                 /\ KeysOf(c, i - 1) \subseteq KeysOf(c, i)
                 /\ c[i].new = KeysOf(c, i) \ KeysOf(c, i - 1)
                 /\ KeysOf(c, i) \subseteq c[i].seen
                 /\ Cardinality(KeysOf(c, i)) = Cardinality(c[i].deviations)
    <3>1. \A i \in 0..L : KeysOf(chain', i) = KeysOf(chain, i)
      <4> SUFFICES ASSUME NEW i \in 0..L PROVE KeysOf(chain', i) = KeysOf(chain, i)
        OBVIOUS
      <4>1. i = 0 \/ i \in 1..L
        BY <2>1
      <4>2. i \in 1..L => chain'[i] = chain[i]
        BY <2>9
      <4> QED BY <4>1, <4>2 DEF KeysOf
    <3>2. ASSUME NEW i \in 1..L PROVE Good(chain', i)
      <4>1. RoundsAreAcceptedAgain
        BY DEF DeviationIInv
      <4>2. Good(chain, i)
        BY <2>13, <4>1, AcceptedAgain
      <4>3. i \in 0..L /\ i - 1 \in 0..L
        BY <2>1
      <4>4. KeysOf(chain', i) = KeysOf(chain, i) /\ KeysOf(chain', i - 1) = KeysOf(chain, i - 1)
        BY <3>1, <4>3
      <4> QED BY <2>9, <4>2, <4>4
    <3>3. Good(chain', L + 1)
      <4>1. KeysOf(chain', L + 1) = {d.key : d \in D \cup all.new}
        BY <2>1, <2>7, <2>9 DEF KeysOf
      <4>2. KeysOf(chain', L) = old
        BY <2>1, <2>6, <3>1
      <4>3. {d.key : d \in D \cup all.new} = old \cup keys
        BY DEF old, keys
      <4>4. /\ \A k \in old : k \in SeenBefore
            /\ \A k \in keys : k \in all.seen /\ k \notin SeenBefore
        BY <2>5, <2>6 DEF old, keys
      <4>5. Cardinality({d.key : d \in D \cup all.new}) = Cardinality(D \cup all.new)
        <5> DEFINE T == D \cup all.new
                   f == [d \in T |-> d.key]
        <5>1. IsFiniteSet(T) /\ KeptOnce(T)
          BY <2>7, <2>8 DEF CommittedRound
        <5>2. DOMAIN f = T /\ {f[d] : d \in T} = {d.key : d \in T}
          OBVIOUS
        <5>3. \A x, y \in T : f[x] = f[y] => x = y
          BY <5>1 DEF KeptOnce
        <5> HIDE DEF T, f
        <5>4. Cardinality({f[d] : d \in T}) = Cardinality(T)
          BY <5>1, <5>2, <5>3, ImagesAreFinite
        <5>5. Cardinality({d.key : d \in T}) = Cardinality(T)
          BY <5>2, <5>4
        <5> QED BY <5>5 DEF T
      <4>6. (L + 1) - 1 = L
        BY <2>1
      <4>7. old \subseteq all.seen /\ keys \subseteq all.seen /\ old \cap keys = {}
        BY <2>5, <4>4
      <4> QED BY <2>7, <2>9, <4>1, <4>2, <4>3, <4>5, <4>6, <4>7
    <3> HIDE DEF Good
    <3>4. \A i \in 1..(L + 1) : Good(chain', i)
      BY <2>1, <3>2, <3>3
    <3>5. \A i \in DOMAIN chain' : Good(chain', i)
      BY <2>13, <3>4
    <3> QED BY <3>5 DEF RoundsAreAcceptedAgain, KeysOf, Good
  <2>15. chain' \in Seq(ToSet(chain')) /\ Len(chain') <= MaxRounds
    <3>1. MaxRounds \in Nat
      BY CollectionAssumption
    <3>2. \A i \in 1..(L + 1) : chain'[i] \in ToSet(chain')
      BY <2>13 DEF ToSet
    <3>3. chain' \in Seq(ToSet(chain'))
      BY <2>1, <2>9, <3>2
    <3> QED BY <1>4, <2>1, <2>9, <3>1, <3>3
  <2> QED BY <2>1, <2>2, <2>11, <2>12, <2>13, <2>14, <2>15 DEF DeviationIInv
<1>5. ASSUME DeviationNext PROVE DeviationIInv'
  <2>1. PICK missing, all : /\ all = CollectAll(cached) /\ missing = Missing(all)
                            /\ Len(chain) < MaxRounds
                            /\ Round(all, missing) \/ Generate(missing)
    BY <1>5 DEF DeviationNext
  <2> QED BY <1>3, <1>4, <2>1
<1> QED BY <1>2, <1>5

LEMMA DeviationInvariance == DeviationSpec => []DeviationIInv
  BY DeviationInitial, DeviationKept, PTL DEF DeviationSpec

\* No observation that is cached later makes a label wrong that was given, and every
\* deviation is a departure from one legal action by another.
THEOREM LabelsStayFinal == DeviationSpec => []LabelsAreFinal
<1>1. DeviationIInv => LabelsAreFinal
  BY DEF DeviationIInv
<1> QED BY <1>1, DeviationInvariance, PTL

\* Every chain of rounds is one that _load_generation accepts again.
THEOREM RoundsStayAcceptable == DeviationSpec => []RoundsAreAcceptedAgain
<1>1. DeviationIInv => RoundsAreAcceptedAgain
  BY DEF DeviationIInv
<1> QED BY <1>1, DeviationInvariance, PTL

-----------------------------------------------------------------------------
\* The oracle's authority.

LEMMA RootsAreNodes ==
  ASSUME NEW budget
  PROVE  /\ IsNode(Root(budget)) /\ ~Terminal(Root(budget).state)
         /\ StartAt(Root(budget)) = Root(budget)
<1>1. IsNode(Root(budget)) /\ Root(budget).cost = 0 /\ Root(budget).state.taken = {}
  BY DEF Root, IsNode
<1> DEFINE n == Root(budget)
<1>2. IsNode(n) /\ n.cost = 0 /\ n.state.taken = {}
  BY <1>1
<1> HIDE DEF n
<1>3. ~Terminal(n.state)
  BY <1>2 DEF Terminal
<1>4. [n EXCEPT !.cost = 0] = n
  BY <1>2 DEF IsNode
<1> QED BY <1>2, <1>3, <1>4 DEF n, StartAt

\* What a search of the complete cache completes, with or without a beam.
Searched(w, c, beam) ==
    SearchFrom(w, Everything, Root(c.budget), c.preference, beam, MaxDepth).completed

PathsOfASearch(S) == IsFiniteSet(S) /\ S # {} /\ Determined(S) /\ \A n \in S : IsNode(n)

LEMMA SearchedPaths ==
  ASSUME NEW w, NEW c, NEW beam \in Nat
  PROVE  PathsOfASearch(Searched(w, c, beam))
<1> DEFINE n == Root(c.budget)
           S == SearchFrom(w, Everything, n, c.preference, beam, MaxDepth).completed
<1>1. MaxDepth \in Nat /\ MaxDepth > 0 /\ MaxDepth \in 0..MaxDepth
  BY CollectionAssumption
<1>2. IsNode(n) /\ ~Terminal(n.state)
  BY RootsAreNodes
<1> HIDE DEF n
<1>3. PICK level : /\ SearchLevels(w, Everything, n, c.preference, beam, MaxDepth, level)
                   /\ SearchFrom(w, Everything, n, c.preference, beam, MaxDepth) = level[MaxDepth]
  BY <1>1, SearchesHaveLevels
<1>4. S = level[MaxDepth].completed
  BY <1>3
<1>5. \A d \in 0..MaxDepth : /\ CompletedSound(n, d, level[d].completed)
                             /\ d > 0 /\ ~Terminal(n.state) => level[d].completed # {}
  BY <1>1, <1>2, <1>3, SearchIsSound
<1>6. CompletedSound(n, MaxDepth, S) /\ S # {}
  BY <1>1, <1>2, <1>4, <1>5
<1> HIDE DEF S
<1>7. IsFiniteSet(S) /\ S # {} /\ Determined(S) /\ \A m \in S : IsNode(m)
  BY <1>6 DEF CompletedSound
<1> QED BY <1>7 DEF S, n, Searched, PathsOfASearch

LEMMA ScoresAreNumbers ==
  ASSUME NEW w, NEW s
  PROVE  Score(w, s) \in {0, 1, 2} /\ Right(w, s) \in BOOLEAN
  BY DEF Score, TopScore, Right

LEMMA DearerBuysLess ==
  ASSUME NEW w, NEW S, \A n \in S : IsNode(n), NEW p \in Preferences, NEW q \in Preferences, p < q,
         NEW n \in Optimal(w, p, S), NEW m \in Optimal(w, q, S)
  PROVE  m.cost <= n.cost
<1> DEFINE a == 10 * Normalizer * Score(w, n.state)
           b == 10 * Normalizer * Score(w, m.state)
<1>1. n \in S /\ m \in S /\ n.cost \in Nat /\ m.cost \in Nat
  BY DEF Optimal, IsNode
<1>2. a \in Int /\ b \in Int
  <2>1. Normalizer \in Int /\ Score(w, n.state) \in Int /\ Score(w, m.state) \in Int
    BY ScoresAreNumbers, SearchAssumption
  <2> QED BY <2>1
<1>3. Utility(w, n, p) >= Utility(w, m, p) /\ Utility(w, m, q) >= Utility(w, n, q)
  BY <1>1 DEF Optimal
<1>4. /\ a - 2 * p * n.cost >= b - 2 * p * m.cost
      /\ b - 2 * q * m.cost >= a - 2 * q * n.cost
  BY <1>3 DEF Utility, UtilityOf
<1> HIDE DEF a, b
<1>5. \A x, y \in Nat, i, j \in Int : \A k, l \in {0, 1, 3, 10} :
        k < l /\ i - 2 * k * x >= j - 2 * k * y /\ j - 2 * l * y >= i - 2 * l * x => y <= x
  OBVIOUS
<1> QED BY <1>1, <1>2, <1>4, <1>5 DEF Preferences

LEMMA FirstIsBest ==
  ASSUME NEW w, NEW preference \in Preferences, NEW S, IsFiniteSet(S), S # {},
         \A n \in S : IsNode(n), Determined(S)
  PROVE  \A n \in S : Utility(w, First(w, preference, S), preference) >= Utility(w, n, preference)
<1> DEFINE f == First(w, preference, S)
<1>1. f \in S /\ \A m \in S \ {f} : Before(w, preference, f, m)
  BY OneIsFirst
<1> HIDE DEF f
<1>2. \A n \in S : Utility(w, n, preference) \in Int
  BY UtilitiesAreNumbers
<1>3. \A n \in S : Utility(w, f, preference) >= Utility(w, n, preference)
  BY <1>1, <1>2 DEF Before
<1> QED BY <1>3 DEF f

LEMMA BestUtility ==
  ASSUME NEW w, NEW preference \in Preferences, NEW S, IsFiniteSet(S), S # {},
         \A n \in S : IsNode(n), Determined(S)
  PROVE  LET best == Max({Utility(w, n, preference) : n \in S})
         IN best \in Int /\ \A n \in S : best >= Utility(w, n, preference)
<1> DEFINE U == {Utility(w, n, preference) : n \in S}
           f == First(w, preference, S)
<1>1. f \in S
  BY OneIsFirst
<1>2. \A u \in U : Utility(w, f, preference) >= u
  BY FirstIsBest
<1>3. Utility(w, f, preference) \in U
  BY <1>1
<1>4. U \subseteq Int
  BY UtilitiesAreNumbers
<1>5. Max(U) \in U /\ \A u \in U : Max(U) >= u
  <2> HIDE DEF U, f
  <2> QED BY <1>2, <1>3 DEF Max
<1>6. \A n \in S : Utility(w, n, preference) \in U
  OBVIOUS
<1>7. Max(U) \in Int /\ \A n \in S : Max(U) >= Utility(w, n, preference)
  <2> HIDE DEF U
  <2> QED BY <1>4, <1>5, <1>6
<1> QED BY <1>7

\* Where cost has no weight, the order of the labels is that of the canonical fallback.
LEMMA WithoutCost ==
  ASSUME NEW w, NEW n, NEW m, IsNode(n), IsNode(m)
  PROVE  Before(w, 0, n, m) <=> BetterScored(w, n, m)
<1>1. /\ Score(w, n.state) \in {0, 1, 2} /\ Score(w, m.state) \in {0, 1, 2}
      /\ Normalizer \in Nat \ {0} /\ n.cost \in Nat /\ m.cost \in Nat
  BY ScoresAreNumbers, SearchAssumption DEF IsNode
<1>2. /\ Utility(w, n, 0) = 10 * Normalizer * Score(w, n.state) - 2 * 0 * n.cost
      /\ Utility(w, m, 0) = 10 * Normalizer * Score(w, m.state) - 2 * 0 * m.cost
  BY DEF Utility, UtilityOf
<1>3. \A k \in Nat \ {0} : \A x, y \in {0, 1, 2} : \A c, d \in Nat :
        /\ 10 * k * x - 2 * 0 * c > 10 * k * y - 2 * 0 * d <=> x > y
        /\ 10 * k * x - 2 * 0 * c = 10 * k * y - 2 * 0 * d <=> x = y
  OBVIOUS
<1>4. /\ Utility(w, n, 0) > Utility(w, m, 0) <=> Score(w, n.state) > Score(w, m.state)
      /\ Utility(w, n, 0) = Utility(w, m, 0) <=> Score(w, n.state) = Score(w, m.state)
  BY <1>1, <1>2, <1>3
<1> QED BY <1>4 DEF Before, BetterScored

LEMMA CheaperRightIsAnOrder ==
  ASSUME NEW w, NEW l, NEW m, NEW n, IsNode(l), IsNode(m), IsNode(n)
  PROVE  /\ ~CheaperRight(w, n, n)
         /\ CheaperRight(w, l, m) /\ CheaperRight(w, m, n) => CheaperRight(w, l, n)
         /\ m.path # n.path => CheaperRight(w, m, n) \/ CheaperRight(w, n, m)
<1>1. /\ Score(w, l.state) \in Int /\ Score(w, m.state) \in Int /\ Score(w, n.state) \in Int
  BY ScoresAreNumbers
<1>2. /\ l.cost \in Nat /\ m.cost \in Nat /\ n.cost \in Nat
      /\ l.path \in Seq(Actions) /\ m.path \in Seq(Actions) /\ n.path \in Seq(Actions)
      /\ Len(l.path) \in Nat /\ Len(m.path) \in Nat /\ Len(n.path) \in Nat
  BY DEF IsNode
<1>3. /\ ~SignatureBefore(n.path, n.path)
      /\ m.path # n.path /\ Len(m.path) = Len(n.path) =>
           SignatureBefore(m.path, n.path) \/ SignatureBefore(n.path, m.path)
      /\ Len(l.path) = Len(m.path) /\ Len(m.path) = Len(n.path) =>
           (SignatureBefore(l.path, m.path) /\ SignatureBefore(m.path, n.path)
              => SignatureBefore(l.path, n.path))
  BY <1>2, SignaturesAreOrdered
<1>4. ~CheaperRight(w, n, n)
  BY <1>1, <1>2, <1>3 DEF CheaperRight, Shorter
<1>5. CheaperRight(w, l, m) /\ CheaperRight(w, m, n) => CheaperRight(w, l, n)
  BY <1>1, <1>2, <1>3 DEF CheaperRight, Shorter
<1>6. m.path # n.path => CheaperRight(w, m, n) \/ CheaperRight(w, n, m)
  BY <1>1, <1>2, <1>3 DEF CheaperRight, Shorter
<1> QED BY <1>4, <1>5, <1>6

RightOf(w, S) == {n \in S : Right(w, n.state)}

\* The canonical path is right, and the cheapest of the right ones, when there is one.
LEMMA CanonicalIsCheapest ==
  ASSUME NEW w, NEW S, PathsOfASearch(S), RightOf(w, S) # {}
  PROVE  /\ Canonical(w, S) \in RightOf(w, S)
         /\ \A m \in RightOf(w, S) : Canonical(w, S).cost <= m.cost
<1> DEFINE T == RightOf(w, S)
           R == {x \in T \X T : CheaperRight(w, x[1], x[2])}
           c == Canonical(w, S)
<1>1. /\ IsFiniteSet(T) /\ T # {} /\ T \subseteq S
      /\ \A n \in T : IsNode(n)
      /\ \A m, n \in T : m # n => m.path # n.path
  <2>1. T \subseteq S
    BY DEF RightOf
  <2> HIDE DEF T
  <2> QED BY <2>1, FS_Subset DEF PathsOfASearch, Determined, T
<1>2. c = CHOOSE n \in T : \A m \in T \ {n} : CheaperRight(w, n, m)
  BY DEF Canonical, RightOf
<1> HIDE DEF T, c
<1>3. \A x, y \in T : <<x, y>> \in R <=> CheaperRight(w, x, y)
  OBVIOUS
<1>4. /\ \A x, y \in T : x # y => <<x, y>> \in R \/ <<y, x>> \in R
      /\ \A x, y, z \in T : <<x, y>> \in R /\ <<y, z>> \in R => <<x, z>> \in R
      /\ \A x \in T : <<x, x>> \notin R
  <2> HIDE DEF R
  <2> QED BY <1>1, <1>3, CheaperRightIsAnOrder
<1>5. \E x \in T : \A y \in T \ {x} : <<x, y>> \in R
  <2> HIDE DEF R
  <2> QED BY <1>1, <1>4, FiniteOrdersHaveAFirst
<1>6. \E x \in T : \A y \in T \ {x} : CheaperRight(w, x, y)
  BY <1>3, <1>5
<1>7. c \in T /\ \A m \in T \ {c} : CheaperRight(w, c, m)
  BY <1>2, <1>6
<1>8. \A m \in T : m.cost \in Nat
  BY <1>1 DEF IsNode
<1>9. \A m \in T : c.cost <= m.cost
  BY <1>7, <1>8 DEF CheaperRight
<1> QED BY <1>7, <1>9 DEF c, T

\* When there is none, it is the label at preference 0.
LEMMA CanonicalIsFirst ==
  ASSUME NEW w, NEW S, PathsOfASearch(S), RightOf(w, S) = {}
  PROVE  /\ Canonical(w, S) = First(w, 0, S) /\ Canonical(w, S) \in S
         /\ \A m \in S : Score(w, m.state) <= Score(w, Canonical(w, S).state)
<1> DEFINE f == First(w, 0, S)
<1>1. f \in S /\ \A m \in S \ {f} : Before(w, 0, f, m)
  <2>1. 0 \in Preferences
    BY DEF Preferences
  <2> QED BY <2>1, OneIsFirst DEF PathsOfASearch
<1> HIDE DEF f
<1>2. \A m \in S : IsNode(m)
  BY DEF PathsOfASearch
<1>3. \A m \in S \ {f} : BetterScored(w, f, m) /\ ~BetterScored(w, m, f)
  <2> SUFFICES ASSUME NEW m \in S \ {f} PROVE BetterScored(w, f, m) /\ ~BetterScored(w, m, f)
    OBVIOUS
  <2>1. IsNode(m) /\ IsNode(f)
    BY <1>1, <1>2
  <2>2. BetterScored(w, f, m)
    BY <1>1, <2>1, WithoutCost
  <2>3. ASSUME BetterScored(w, m, f) PROVE FALSE
    <3>1. Before(w, 0, m, f) /\ Before(w, 0, f, m)
      BY <1>1, <2>1, <2>3, WithoutCost
    <3>2. 0 \in Preferences
      BY DEF Preferences
    <3> QED BY <2>1, <3>1, <3>2, BeforeIsAnOrder
  <2> QED BY <2>2, <2>3
<1>4. \A n \in S : (\A m \in S \ {n} : BetterScored(w, n, m)) <=> n = f
  BY <1>1, <1>3
<1>5. Canonical(w, S) = CHOOSE n \in S : \A m \in S \ {n} : BetterScored(w, n, m)
  BY DEF Canonical, RightOf
<1>6. Canonical(w, S) = f
  BY <1>1, <1>4, <1>5
<1>7. \A m \in S : Score(w, m.state) <= Score(w, f.state)
  <2>1. \A m \in S : Score(w, m.state) \in {0, 1, 2}
    BY ScoresAreNumbers
  <2> QED BY <1>1, <1>3, <2>1 DEF BetterScored
<1> QED BY <1>1, <1>6, <1>7 DEF f

LEMMA CanonicalIsAPath ==
  ASSUME NEW w, NEW S, PathsOfASearch(S)
  PROVE  Canonical(w, S) \in S
  BY CanonicalIsCheapest, CanonicalIsFirst DEF RightOf

\* The beam drops paths and invents none.
LEMMA BeamsDropPaths ==
  ASSUME NEW w, NEW c
  PROVE  Searched(w, c, BeamSize) \subseteq Searched(w, c, NoBeam)
<1> DEFINE n == Root(c.budget)
           p == c.preference
           Inside(x, y) == x.frontier \subseteq y.frontier /\ x.completed \subseteq y.completed
<1>1. MaxDepth \in Nat /\ MaxDepth \in 0..MaxDepth /\ 0 \in 0..MaxDepth
  BY CollectionAssumption
<1>2. PICK b : /\ SearchLevels(w, Everything, n, p, BeamSize, MaxDepth, b)
               /\ SearchFrom(w, Everything, n, p, BeamSize, MaxDepth) = b[MaxDepth]
  BY <1>1, SearchesHaveLevels
<1>3. PICK e : /\ SearchLevels(w, Everything, n, p, NoBeam, MaxDepth, e)
               /\ SearchFrom(w, Everything, n, p, NoBeam, MaxDepth) = e[MaxDepth]
  BY <1>1, SearchesHaveLevels
<1>4. /\ b[0] = Start(n) /\ e[0] = Start(n)
      /\ \A d \in 1..MaxDepth : /\ b[d] = Deepen(w, Everything, p, BeamSize, b[d - 1])
                                /\ e[d] = Deepen(w, Everything, p, NoBeam, e[d - 1])
  BY <1>1, <1>2, <1>3 DEF SearchLevels
<1>5. ASSUME NEW x, NEW y, Inside(x, y)
      PROVE  Inside(Deepen(w, Everything, p, BeamSize, x), Deepen(w, Everything, p, NoBeam, y))
  <2> DEFINE X == Moves(x.frontier)
             Y == Moves(y.frontier)
             stops(M) == {z \in M : z[2] = Stop}
             known(M) == {z \in M \ stops(M) : IsCached(Everything, z[1], z[2])}
             steps(M) == {Extend(w, z[1], z[2]) : z \in known(M)}
             ends(M) == {Extend(w, z[1], Stop) : z \in stops(M)}
  <2>1. X \subseteq Y
    BY <1>5 DEF Moves
  <2>2. /\ Deepen(w, Everything, p, BeamSize, x).frontier = Widest(w, p, BeamSize, steps(X))
        /\ Deepen(w, Everything, p, NoBeam, y).frontier = Widest(w, p, NoBeam, steps(Y))
        /\ Deepen(w, Everything, p, BeamSize, x).completed = x.completed \cup ends(X)
        /\ Deepen(w, Everything, p, NoBeam, y).completed = y.completed \cup ends(Y)
    BY DEF Deepen, Moves
  <2> HIDE DEF X, Y
  <2>3. steps(X) \subseteq steps(Y) /\ ends(X) \subseteq ends(Y)
    BY <2>1
  <2> HIDE DEF steps, ends
  <2>4. \A S : Widest(w, p, BeamSize, S) \subseteq S /\ Widest(w, p, NoBeam, S) = S
    BY DEF Widest
  <2> QED BY <1>5, <2>2, <2>3, <2>4
<1> DEFINE Out == {d \in 0..MaxDepth : ~Inside(b[d], e[d])}
<1>6. ASSUME Out # {} PROVE FALSE
  <2>1. PICK d \in Out : \A j \in Out : d <= j
    <3>1. Out \in SUBSET Nat
      OBVIOUS
    <3> HIDE DEF Out
    <3> QED BY <1>6, <3>1, LeastOfNumbers
  <2> HIDE DEF Inside
  <2>2. d # 0
    <3>1. Inside(b[0], e[0])
      BY <1>4 DEF Inside
    <3> QED BY <2>1, <3>1
  <2>3. d \in 1..MaxDepth /\ d - 1 \in 0..MaxDepth /\ d - 1 \notin Out
    BY <1>1, <2>1, <2>2
  <2>4. Inside(b[d - 1], e[d - 1])
    BY <2>3
  <2>5. Inside(b[d], e[d])
    BY <1>4, <1>5, <2>3, <2>4
  <2> QED BY <2>1, <2>5
<1>7. Inside(b[MaxDepth], e[MaxDepth])
  BY <1>1, <1>6
<1> QED BY <1>2, <1>3, <1>7 DEF Searched

\* A node of a trajectory is one of the search.
LEMMA StoppingIsTerminal ==
  ASSUME NEW w, NEW n, IsNode(n), NEW a
  PROVE  Terminal(Extend(w, n, a).state) <=> Terminal(n.state) \/ a = Stop
<1> DEFINE o == Observation(w, n.state, a)
           x == Reduce(n.state, a, o, Charge(a, o))
<1>1. x.taken = n.state.taken \cup {a}
  BY DEF Reduce
<1>2. Extend(w, n, a) = Child(n, a, o, x, w.found)
  BY DEF Extend, Observed
<1> HIDE DEF x, o
<1>3. PICK y, c : Child(n, a, o, x, w.found)
                    = [n EXCEPT !.path = Key(n, a), !.cost = c, !.state = x, !.order = y]
  BY DEF Child, Key
<1>4. Extend(w, n, a).state = x
  BY <1>2, <1>3 DEF IsNode
<1> QED BY <1>1, <1>4 DEF Terminal

LEMMA ExhaustiveKeepsAll ==
  ASSUME NEW w, NEW preference, NEW r, NEW m \in r.frontier, IsNode(m), NEW a \in ValidActions(m.state)
  PROVE  LET s == Deepen(w, Everything, preference, NoBeam, r)
         IN IF a = Stop THEN Extend(w, m, a) \in s.completed ELSE Extend(w, m, a) \in s.frontier
<1> DEFINE s == Deepen(w, Everything, preference, NoBeam, r)
           M == Moves(r.frontier)
           stops == {x \in M : x[2] = Stop}
           Known == {x \in M \ stops : IsCached(Everything, x[1], x[2])}
<1>1. <<m, a>> \in M
  BY DEF Moves
<1>2. /\ s.frontier = Widest(w, preference, NoBeam, {Extend(w, x[1], x[2]) : x \in Known})
      /\ s.completed = r.completed \cup {Extend(w, x[1], Stop) : x \in stops}
  BY DEF Deepen, Moves
<1>3. ASSUME a = Stop PROVE Extend(w, m, a) \in s.completed
  <2>1. <<m, a>> \in stops
    BY <1>1, <1>3
  <2> HIDE DEF stops, s
  <2> QED BY <1>2, <1>3, <2>1
<1>4. ASSUME a # Stop PROVE Extend(w, m, a) \in s.frontier
  <2>1. IsCached(Everything, m, a)
    <3>1. a \in Actions
      BY OfferedActions
    <3> QED BY <3>1, Keys DEF IsCached, Everything
  <2>2. <<m, a>> \in Known
    BY <1>1, <1>4, <2>1
  <2> HIDE DEF Known, s
  <2>3. s.frontier = {Extend(w, x[1], x[2]) : x \in Known}
    BY <1>2 DEF Widest
  <2> QED BY <2>2, <2>3
<1> QED BY <1>3, <1>4

TrajectoryNext(w, policy, horizon, nodes, step) ==
    IF Terminal(Last(nodes).state) THEN nodes
    ELSE Append(nodes, Extend(w, Last(nodes),
                              IF step = horizon THEN Stop ELSE Select(w, policy, Last(nodes))))

TrajectorySteps(w, policy, budget, horizon, k, f) ==
    f = [i \in 0..k |-> IF i = 0 THEN <<Root(budget)>>
                        ELSE TrajectoryNext(w, policy, horizon, f[i - 1], i)]

LEMMA TrajectoriesHaveSteps ==
  ASSUME NEW w, NEW policy, NEW budget, NEW horizon \in Nat
  PROVE  \E f : /\ TrajectorySteps(w, policy, budget, horizon, horizon, f)
                /\ Trajectory(w, policy, budget, horizon) = f[horizon]
<1> DEFINE P(k, f) == TrajectorySteps(w, policy, budget, horizon, k, f)
           Bad == {k \in Nat : ~\E f : P(k, f)}
<1>1. ASSUME Bad # {} PROVE FALSE
  <2>1. PICK k \in Bad : \A j \in Bad : k <= j
    <3>1. Bad \in SUBSET Nat
      OBVIOUS
    <3> HIDE DEF Bad
    <3> QED BY <1>1, <3>1, LeastOfNumbers
  <2>2. k # 0
    <3> DEFINE f == [i \in 0..0 |-> <<Root(budget)>>]
    <3>1. P(0, f)
      BY DEF TrajectorySteps
    <3> HIDE DEF f, P
    <3> QED BY <3>1
  <2>3. k \in Nat /\ k - 1 \in Nat /\ k - 1 \notin Bad
    BY <2>1, <2>2
  <2>4. PICK f : P(k - 1, f)
    BY <2>3
  <2> DEFINE g == [i \in 0..k |-> IF i = 0 THEN <<Root(budget)>>
                                  ELSE TrajectoryNext(w, policy, horizon, f[i - 1], i)]
  <2>5. \A i \in 0..(k - 1) : g[i] = f[i]
    BY <2>3, <2>4 DEF TrajectorySteps
  <2>6. \A i \in 1..k : g[i] = TrajectoryNext(w, policy, horizon, g[i - 1], i)
    <3> SUFFICES ASSUME NEW i \in 1..k
                 PROVE  g[i] = TrajectoryNext(w, policy, horizon, g[i - 1], i)
      OBVIOUS
    <3>1. i \in 0..k /\ i # 0 /\ i - 1 \in 0..(k - 1)
      BY <2>3
    <3>2. g[i] = TrajectoryNext(w, policy, horizon, f[i - 1], i)
      BY <3>1
    <3>3. g[i - 1] = f[i - 1]
      BY <2>5, <3>1
    <3> QED BY <3>2, <3>3
  <2>7. P(k, g)
    <3>1. g[0] = <<Root(budget)>>
      BY <2>3
    <3>2. g = [i \in 0..k |-> g[i]]
      OBVIOUS
    <3> HIDE DEF g
    <3>3. \A i \in 0..k : g[i] = IF i = 0 THEN <<Root(budget)>>
                                 ELSE TrajectoryNext(w, policy, horizon, g[i - 1], i)
      BY <2>3, <2>6, <3>1
    <3> QED BY <3>2, <3>3 DEF TrajectorySteps
  <2> HIDE DEF P, g
  <2> QED BY <2>1, <2>7
<1>2. \E f : P(horizon, f)
  BY <1>1
<1> DEFINE f == CHOOSE g : P(horizon, g)
<1>3. P(horizon, f)
  <2> HIDE DEF P
  <2> QED BY <1>2
<1>4. Trajectory(w, policy, budget, horizon) = f[horizon]
  BY DEF Trajectory, TrajectorySteps, TrajectoryNext
<1> QED BY <1>3, <1>4

\* Where a trajectory is after k steps: it has stopped, or the search goes on from there too.
Reached(level, horizon, k, nodes) ==
    /\ \E S : nodes \in Seq(S)
    /\ Len(nodes) > 0
    /\ IF Terminal(nodes[Len(nodes)].state) THEN nodes[Len(nodes)] \in level[k].completed
       ELSE k # horizon /\ nodes[Len(nodes)] \in level[k].frontier

LEMMA TrajectoriesAreSearched ==
  ASSUME NEW w, NEW preference, NEW budget, NEW K, NEW policy \in Seq(K),
         NEW horizon \in Nat \ {0}, MaxDepth >= horizon
  PROVE  LET nodes == Trajectory(w, policy, budget, horizon)
         IN nodes[Len(nodes)] \in Exhaustive(w, Everything, Root(budget), preference, MaxDepth).completed
<1> DEFINE n == Root(budget)
<1>1. MaxDepth \in Nat /\ horizon \in 0..MaxDepth /\ 0 \in 0..MaxDepth
  BY CollectionAssumption
<1>2. IsNode(n) /\ ~Terminal(n.state) /\ StartAt(n) = n
  BY RootsAreNodes
<1> HIDE DEF n
<1>3. PICK level : /\ SearchLevels(w, Everything, n, preference, NoBeam, MaxDepth, level)
                   /\ SearchFrom(w, Everything, n, preference, NoBeam, MaxDepth) = level[MaxDepth]
  BY <1>1, SearchesHaveLevels
<1>4. /\ level[0] = Start(n)
      /\ \A d \in 1..MaxDepth : level[d] = Deepen(w, Everything, preference, NoBeam, level[d - 1])
  BY <1>1, <1>3 DEF SearchLevels
<1>5. \A d \in 0..MaxDepth : \A m \in level[d].frontier : IsNode(m)
  <2>1. \A d \in 0..MaxDepth : PathsSound(n, d, level[d].frontier)
    BY <1>1, <1>2, <1>3, SearchIsSound
  <2> QED BY <2>1 DEF PathsSound
<1>6. \A d \in 1..MaxDepth : level[d - 1].completed \subseteq level[d].completed
  <2>1. \A r : r.completed \subseteq Deepen(w, Everything, preference, NoBeam, r).completed
    BY DEF Deepen
  <2> QED BY <1>4, <2>1
<1>7. PICK f : /\ TrajectorySteps(w, policy, budget, horizon, horizon, f)
               /\ Trajectory(w, policy, budget, horizon) = f[horizon]
  BY TrajectoriesHaveSteps
<1>8. /\ f[0] = <<n>>
      /\ \A k \in 1..horizon : f[k] = TrajectoryNext(w, policy, horizon, f[k - 1], k)
  BY <1>7 DEF TrajectorySteps, n
<1> DEFINE P(k) == Reached(level, horizon, k, f[k])
           Bad == {k \in 0..horizon : ~P(k)}
<1>9. P(0)
  <2>1. level[0].frontier = {n}
    BY <1>2, <1>4 DEF Start
  <2> DEFINE T == <<n>>
  <2>2. (\E S : T \in Seq(S)) /\ Len(T) = 1 /\ T[1] = n
    <3>1. T \in Seq({n})
      OBVIOUS
    <3> QED BY <3>1
  <2>3. f[0] = T
    BY <1>8
  <2> HIDE DEF T
  <2>4. T[Len(T)] = n
    BY <2>2
  <2>5. Reached(level, horizon, 0, T)
    BY <1>2, <2>1, <2>2, <2>4 DEF Reached
  <2> QED BY <2>3, <2>5
<1>10. ASSUME NEW k \in 1..horizon, P(k - 1) PROVE P(k)
  <2> DEFINE nodes == f[k - 1]
             m == nodes[Len(nodes)]
             a == IF k = horizon THEN Stop ELSE Select(w, policy, m)
             next == Extend(w, m, a)
             r == level[k - 1]
  <2>1. PICK S : nodes \in Seq(S)
    BY <1>10 DEF Reached
  <2>2. /\ Len(nodes) \in Nat /\ Len(nodes) > 0 /\ Last(nodes) = m
        /\ Terminal(m.state) => m \in r.completed
        /\ ~Terminal(m.state) => m \in r.frontier
    BY <1>10, <2>1 DEF Reached, Last
  <2>3. /\ k \in 1..MaxDepth /\ k - 1 \in 0..MaxDepth /\ k \in 0..MaxDepth
        /\ r.completed \subseteq level[k].completed
        /\ level[k] = Deepen(w, Everything, preference, NoBeam, r)
    <3>1. k \in 1..MaxDepth /\ k - 1 \in 0..MaxDepth /\ k \in 0..MaxDepth
      BY <1>1
    <3> QED BY <1>4, <1>6, <3>1
  <2>4. CASE Terminal(m.state)
    <3>1. f[k] = nodes
      BY <1>8, <2>2, <2>4 DEF TrajectoryNext
    <3>2. m \in level[k].completed
      BY <2>2, <2>3, <2>4
    <3> QED BY <2>1, <2>2, <2>4, <3>1, <3>2 DEF Reached
  <2>5. CASE ~Terminal(m.state)
    <3>1. f[k] = Append(nodes, next)
      <4>1. f[k] = TrajectoryNext(w, policy, horizon, nodes, k)
        BY <1>8
      <4> HIDE DEF m, nodes
      <4> QED BY <2>2, <2>5, <4>1 DEF TrajectoryNext
    <3>2. a \in ValidActions(m.state)
      BY <2>5, OfferedActions, SelectIsLegal
    <3>3. m \in r.frontier /\ IsNode(m)
      BY <1>5, <2>2, <2>3, <2>5
    <3>4. k = horizon => a = Stop
      OBVIOUS
    <3> HIDE DEF a, r, m
    <3>5. IF a = Stop THEN next \in level[k].completed ELSE next \in level[k].frontier
      BY <2>3, <3>2, <3>3, ExhaustiveKeepsAll
    <3>6. Terminal(next.state) <=> a = Stop
      BY <2>5, <3>3, StoppingIsTerminal
    <3> HIDE DEF next, nodes
    <3>7. /\ f[k] \in Seq(S \cup {next}) /\ Len(f[k]) = Len(nodes) + 1
          /\ f[k][Len(nodes) + 1] = next
      BY <2>1, <3>1
    <3>8. (\E U : f[k] \in Seq(U)) /\ Len(f[k]) > 0 /\ f[k][Len(f[k])] = next
      BY <2>2, <3>7
    <3> QED BY <3>4, <3>5, <3>6, <3>8 DEF Reached
  <2> QED BY <2>4, <2>5
<1>11. P(horizon)
  <2>1. ASSUME Bad # {} PROVE FALSE
    <3>1. PICK k \in Bad : \A j \in Bad : k <= j
      <4>1. Bad \in SUBSET Nat
        OBVIOUS
      <4> HIDE DEF Bad
      <4> QED BY <2>1, <4>1, LeastOfNumbers
    <3> HIDE DEF P
    <3>2. k # 0
      BY <1>9, <3>1
    <3>3. k \in 1..horizon /\ k - 1 \in 0..horizon /\ k - 1 \notin Bad
      BY <3>1, <3>2
    <3>4. P(k - 1)
      BY <3>3
    <3> QED BY <1>10, <3>1, <3>3, <3>4
  <2> HIDE DEF P
  <2> QED BY <2>1
<1> DEFINE last == f[horizon][Len(f[horizon])]
<1>12. last \in level[horizon].completed
  BY <1>11 DEF Reached
<1>13. level[horizon].completed \subseteq level[MaxDepth].completed
  <2> DEFINE Lost == {d \in horizon..MaxDepth : ~(level[horizon].completed \subseteq level[d].completed)}
  <2>1. ASSUME Lost # {} PROVE FALSE
    <3>1. PICK d \in Lost : \A j \in Lost : d <= j
      <4>1. Lost \in SUBSET Nat
        BY <1>1
      <4> HIDE DEF Lost
      <4> QED BY <2>1, <4>1, LeastOfNumbers
    <3>2. d # horizon
      BY <3>1
    <3>3. d \in 1..MaxDepth /\ d - 1 \in horizon..MaxDepth /\ d - 1 \notin Lost
      BY <1>1, <3>1, <3>2
    <3> QED BY <1>6, <3>1, <3>3
  <2>2. MaxDepth \in horizon..MaxDepth
    BY <1>1
  <2> QED BY <2>1, <2>2
<1>14. Exhaustive(w, Everything, n, preference, MaxDepth) = level[MaxDepth]
  BY <1>3 DEF Exhaustive
<1> HIDE DEF P, Bad
<1> QED BY <1>7, <1>12, <1>13, <1>14 DEF n

\* What evaluate_run gives a trajectory: a right answer is worth its whole, another nothing.
LEMMA RealizedIsBelow ==
  ASSUME NEW w, NEW preference \in Preferences, NEW nodes, IsNode(nodes[Len(nodes)])
  PROVE  LET final == nodes[Len(nodes)]
             r     == Realized(w, preference, nodes)
         IN /\ r \in Int
            /\ r <= Utility(w, final, preference) \/ Undervalued(w, final.state)
            /\ ~Right(w, final.state) => r <= 0
            /\ \A n : /\ IsNode(n) /\ Score(w, n.state) = TopScore /\ n.cost <= final.cost
                    => r <= Utility(w, n, preference)
<1> DEFINE final == nodes[Len(nodes)]
           s == IF Right(w, final.state) THEN 2 ELSE 0
           r == Realized(w, preference, nodes)
<1>1. /\ Normalizer \in Nat /\ final.cost \in Nat /\ preference \in {0, 1, 3, 10}
  BY SearchAssumption DEF IsNode, Preferences
<1>2. /\ r = 10 * Normalizer * s - 2 * preference * final.cost
      /\ \A n : Utility(w, n, preference)
                 = 10 * Normalizer * Score(w, n.state) - 2 * preference * n.cost
  BY DEF Realized, Utility, UtilityOf, TopScore
<1>3. s \in {0, 2} /\ Score(w, final.state) \in {0, 1, 2}
  BY ScoresAreNumbers
<1>4. /\ ~Right(w, final.state) => s = 0
      /\ s <= Score(w, final.state) \/ Undervalued(w, final.state)
  BY <1>3 DEF Undervalued, TopScore
<1> HIDE DEF s, final, r
<1>5. \A k, c, d \in Nat, i, j \in {0, 1, 2}, q \in {0, 1, 3, 10} :
        /\ 10 * k * i - 2 * q * c \in Int
        /\ 10 * k * 0 - 2 * q * c <= 0
        /\ i <= j /\ d <= c => 10 * k * i - 2 * q * c <= 10 * k * j - 2 * q * d
  OBVIOUS
<1>6. r \in Int /\ (~Right(w, final.state) => r <= 0)
  BY <1>1, <1>2, <1>3, <1>4, <1>5
<1>7. r <= Utility(w, final, preference) \/ Undervalued(w, final.state)
  <2>1. s <= Score(w, final.state) => r <= Utility(w, final, preference)
    <3>1. final.cost <= final.cost
      BY <1>1
    <3> QED BY <1>1, <1>2, <1>3, <1>5, <3>1
  <2> QED BY <1>4, <2>1
<1>8. ASSUME NEW n, IsNode(n), Score(w, n.state) = TopScore, n.cost <= final.cost
      PROVE  r <= Utility(w, n, preference)
  <2>1. n.cost \in Nat /\ Score(w, n.state) = 2 /\ s <= 2
    BY <1>3, <1>8 DEF IsNode, TopScore
  <2>2. 10 * Normalizer * s - 2 * preference * final.cost
          <= 10 * Normalizer * 2 - 2 * preference * n.cost
    BY <1>1, <1>3, <1>5, <1>8, <2>1
  <2> QED BY <1>2, <2>1, <2>2
<1> QED BY <1>6, <1>7, <1>8 DEF final, r

\* A router has five steps.
LEMMA RouterPolicies ==
  ASSUME NEW w \in Worlds, NEW p \in (Baselines \ FixedLong) \cup ToSet(w.learned)
  PROVE  Horizon(p) = 5 /\ \E K : p \in Seq(K)
<1> DEFINE K == Kinds \cup {"search", "stop", "rule"}
<1>1. p \in Seq(K) /\ p \notin FixedLong
  <2>1. CASE p \in Baselines \ FixedLong
    <3>1. p \in {GistOnly, GistResidual, GistVisual, <<"rule">>}
      BY <2>1 DEF Baselines
    <3>2. {"search", "residual", "high", "rule"} \subseteq K
      BY DEF Kinds, Visual
    <3> HIDE DEF K
    <3>3. \A a, b \in K : <<a>> \in Seq(K) /\ <<a, b>> \in Seq(K)
      OBVIOUS
    <3>4. p \in {<<"search">>, <<"search", "residual">>, <<"search", "high">>, <<"rule">>}
      BY <3>1 DEF GistOnly, GistResidual, GistVisual
    <3>5. \A q \in {<<"search">>, <<"search", "residual">>, <<"search", "high">>, <<"rule">>} :
            q \in Seq(K)
      BY <3>2, <3>3
    <3>6. p \in Seq(K)
      BY <3>4, <3>5
    <3> QED BY <2>1, <3>6
  <2>2. CASE p \in ToSet(w.learned)
    <3>1. w.learned \in Seq(Seq(Kinds \cup {"search", "stop"}))
      BY CollectionAssumption
    <3> DEFINE Names == Kinds \cup {"search", "stop"}
    <3>2. p \in Seq(Names)
      <4> HIDE DEF Names
      <4>1. w.learned \in Seq(Seq(Names))
        BY <3>1 DEF Names
      <4> QED BY <2>2, <4>1 DEF ToSet
    <3>3. "uniform" \notin Names /\ "full" \notin Names
      BY DEF Kinds, Visual
    <3>4. p # <<"uniform">> /\ p # <<"full">>
      <4>1. ASSUME NEW q, p = <<q>> PROVE q \in Names
        <5>1. p[1] = q /\ Len(p) = 1
          BY <4>1
        <5> HIDE DEF Names
        <5> QED BY <3>2, <5>1
      <4> HIDE DEF Names
      <4> QED BY <3>3, <4>1
    <3>5. p \in Seq(K)
      <4>1. Names \subseteq K
        OBVIOUS
      <4> HIDE DEF Names, K
      <4> QED BY <3>2, <4>1
    <3> QED BY <3>4, <3>5 DEF FixedLong
  <2> QED BY <2>1, <2>2
<1> HIDE DEF K
<1> QED BY <1>1 DEF Horizon

\* A router ends on one of the paths of the search.
LEMMA RoutersAreSearched ==
  ASSUME MaxDepth >= 5, NEW w \in Worlds, NEW c \in Contexts, NEW p \in Routers(w)
  PROVE  LET nodes == Trajectory(w, p, c.budget, Horizon(p))
         IN nodes[Len(nodes)] \in Searched(w, c, NoBeam) /\ Last(nodes) = nodes[Len(nodes)]
<1>1. PICK K : Horizon(p) = 5 /\ p \in Seq(K)
  BY RouterPolicies DEF Routers
<1>2. LET nodes == Trajectory(w, p, c.budget, 5)
      IN nodes[Len(nodes)] \in Searched(w, c, NoBeam)
  BY <1>1, TrajectoriesAreSearched DEF Exhaustive, Searched
<1> QED BY <1>1, <1>2 DEF Last

LEMMA OracleOfAWorld ==
  ASSUME MaxDepth >= 5, NEW w \in Worlds
  PROVE  RouterBound[w] /\ CanonicalBound[w] /\ Monotone[w] /\ BeamBound[w] /\ Fallback[w]
<1> DEFINE Paths(c) == Searched(w, c, NoBeam)
           Beam(c) == Searched(w, c, BeamSize)
<1>1. \A c \in Contexts : AllPaths[w][c] = Paths(c) /\ BeamPaths[w][c] = Beam(c)
  BY DEF AllPaths, BeamPaths, Searched, Exhaustive
<1>2. ASSUME NEW c \in Contexts PROVE PathsOfASearch(Paths(c)) /\ PathsOfASearch(Beam(c))
  BY SearchedPaths, CollectionAssumption DEF NoBeam
<1>3. \A c \in Contexts : c.preference \in Preferences
  BY CollectionAssumption
<1> HIDE DEF Paths, Beam
<1>4. RouterBound[w]
  <2>1. ASSUME NEW c \in Contexts, NEW p \in Routers(w)
        PROVE  \/ Realized(w, c.preference, Trajectory(w, p, c.budget, Horizon(p)))
                    <= Max({Utility(w, n, c.preference) : n \in Paths(c)})
               \/ Undervalued(w, Outcome(w, p, c))
    <3> DEFINE nodes == Trajectory(w, p, c.budget, Horizon(p))
               S == Paths(c)
               best == Max({Utility(w, n, c.preference) : n \in S})
               last == nodes[Len(nodes)]
    <3>1. last \in S /\ Last(nodes) = last
      BY RoutersAreSearched DEF Paths
    <3>2. /\ PathsOfASearch(S) /\ IsFiniteSet(S) /\ S # {} /\ Determined(S)
          /\ \A n \in S : IsNode(n)
      BY <1>2 DEF PathsOfASearch
    <3>3. c.preference \in Preferences
      BY <1>3
    <3> HIDE DEF S
    <3>4. best \in Int /\ best >= Utility(w, last, c.preference)
      BY <3>1, <3>2, <3>3, BestUtility
    <3> HIDE DEF best
    <3>5. Undervalued(w, last.state) <=> Undervalued(w, Outcome(w, p, c))
      BY <3>1 DEF Outcome
    <3>6. IsNode(last)
      BY <3>1, <3>2
    <3> HIDE DEF nodes
    <3>7. /\ Realized(w, c.preference, nodes) \in Int
          /\ \/ Realized(w, c.preference, nodes) <= Utility(w, last, c.preference)
             \/ Undervalued(w, last.state)
      BY <3>3, <3>6, RealizedIsBelow
    <3>8. Utility(w, last, c.preference) \in Int
      BY <3>3, <3>6, UtilitiesAreNumbers
    <3> HIDE DEF last
    <3>9. Realized(w, c.preference, nodes) <= best \/ Undervalued(w, Outcome(w, p, c))
      BY <3>4, <3>5, <3>7, <3>8
    <3> QED BY <3>9 DEF nodes, best, S
  <2> QED BY <1>1, <2>1 DEF RouterBound
<1>5. CanonicalBound[w]
  <2>1. ASSUME NEW c \in Contexts, NEW p \in Routers(w), NEW q \in Preferences
        PROVE  LET n == Canonical(w, Paths(c))
               IN \/ Realized(w, q, Trajectory(w, p, c.budget, Horizon(p))) <= Utility(w, n, q)
                  \/ Undervalued(w, n.state)
                  \/ Utility(w, n, q) < 0
    <3> DEFINE nodes == Trajectory(w, p, c.budget, Horizon(p))
               S == Paths(c)
               last == nodes[Len(nodes)]
               n == Canonical(w, S)
    <3>1. last \in S
      BY RoutersAreSearched DEF Paths
    <3>2. PathsOfASearch(S) /\ \A m \in S : IsNode(m)
      BY <1>2 DEF PathsOfASearch
    <3> HIDE DEF S
    <3>3. IsNode(last) /\ n \in S /\ IsNode(n)
      BY <3>1, <3>2, CanonicalIsAPath
    <3> HIDE DEF nodes
    <3>4. /\ Realized(w, q, nodes) \in Int
          /\ ~Right(w, last.state) => Realized(w, q, nodes) <= 0
          /\ \A m : /\ IsNode(m) /\ Score(w, m.state) = TopScore /\ m.cost <= last.cost
                  => Realized(w, q, nodes) <= Utility(w, m, q)
      BY <3>3, RealizedIsBelow
    <3>5. Utility(w, n, q) \in Int
      BY <3>3, UtilitiesAreNumbers
    <3>6. CASE ~Right(w, last.state)
      <4> HIDE DEF n, last
      <4>1. Realized(w, q, nodes) <= Utility(w, n, q) \/ Utility(w, n, q) < 0
        BY <3>4, <3>5, <3>6
      <4> QED BY <4>1 DEF nodes, n, S
    <3>7. CASE Right(w, last.state)
      <4>1. last \in RightOf(w, S)
        BY <3>1, <3>7 DEF RightOf
      <4> HIDE DEF last
      <4>2. n \in RightOf(w, S) /\ n.cost <= last.cost
        BY <3>2, <4>1, CanonicalIsCheapest
      <4>3. Right(w, n.state)
        BY <4>2 DEF RightOf
      <4> HIDE DEF n
      <4>4. Score(w, n.state) = TopScore \/ Undervalued(w, n.state)
        <5>1. Score(w, n.state) \in {0, 1, 2}
          BY ScoresAreNumbers
        <5> QED BY <4>3, <5>1 DEF Undervalued, TopScore
      <4>5. Realized(w, q, nodes) <= Utility(w, n, q) \/ Undervalued(w, n.state)
        BY <3>3, <3>4, <4>2, <4>4
      <4> QED BY <4>5 DEF nodes, n, S
    <3> QED BY <3>6, <3>7
  <2> QED BY <1>1, <2>1 DEF CanonicalBound
<1>6. Monotone[w]
  <2>1. ASSUME NEW c \in Contexts, NEW p \in Preferences, NEW q \in Preferences, p < q,
               NEW n \in Optimal(w, p, Paths(c)), NEW m \in Optimal(w, q, Paths(c))
        PROVE  m.cost <= n.cost
    <3> DEFINE S == Paths(c)
    <3>1. \A k \in S : IsNode(k)
      BY <1>2 DEF PathsOfASearch
    <3>2. n \in Optimal(w, p, S) /\ m \in Optimal(w, q, S)
      OBVIOUS
    <3> HIDE DEF S
    <3> QED BY <2>1, <3>1, <3>2, DearerBuysLess
  <2> QED BY <1>1, <2>1 DEF Monotone
<1>7. BeamBound[w]
  <2>1. ASSUME NEW c \in Contexts
        PROVE  LET b == Canonical(w, Beam(c))
                   e == Canonical(w, Paths(c))
               IN /\ Beam(c) \subseteq Paths(c)
                  /\ Right(w, b.state) => Right(w, e.state) /\ e.cost <= b.cost
                  /\ ~Right(w, e.state) => Score(w, b.state) <= Score(w, e.state)
    <3> DEFINE S == Paths(c)
               B == Beam(c)
               b == Canonical(w, B)
               e == Canonical(w, S)
    <3>1. PathsOfASearch(S) /\ PathsOfASearch(B)
      BY <1>2
    <3>2. B \subseteq S
      BY BeamsDropPaths DEF Paths, Beam
    <3> HIDE DEF S, B
    <3>3. b \in S
      BY <3>1, <3>2, CanonicalIsAPath
    <3> HIDE DEF b
    <3>4. RightOf(w, S) # {} => Right(w, e.state) /\ \A m \in RightOf(w, S) : e.cost <= m.cost
      BY <3>1, CanonicalIsCheapest DEF RightOf
    <3>5. RightOf(w, S) = {} => \A m \in S : Score(w, m.state) <= Score(w, e.state)
      BY <3>1, CanonicalIsFirst
    <3> HIDE DEF e
    <3>6. Right(w, b.state) => b \in RightOf(w, S)
      BY <3>3 DEF RightOf
    <3>7. Right(w, b.state) => Right(w, e.state) /\ e.cost <= b.cost
      BY <3>4, <3>6
    <3>8. ~Right(w, e.state) => Score(w, b.state) <= Score(w, e.state)
      BY <3>3, <3>4, <3>5
    <3> QED BY <3>2, <3>7, <3>8 DEF b, e, S, B
  <2> QED BY <1>1, <2>1 DEF BeamBound
<1>8. Fallback[w]
  <2>1. ASSUME NEW c \in Contexts, \A n \in Paths(c) : ~Right(w, n.state)
        PROVE  Canonical(w, Paths(c)) = First(w, 0, Paths(c))
    <3>1. PathsOfASearch(Paths(c)) /\ RightOf(w, Paths(c)) = {}
      BY <1>2, <2>1 DEF RightOf
    <3> QED BY <3>1, CanonicalIsFirst
  <2> QED BY <1>1, <2>1 DEF Fallback
<1> QED BY <1>4, <1>5, <1>6, <1>7, <1>8

\* The search of the complete cache to a depth of at least the five steps of a router, and the
\* canonical path of the beam and of the exhaustive search, bound what a router may do, with
\* the exceptions that the property names.
THEOREM OracleStaysAuthority ==
  ASSUME MaxDepth >= 5
  PROVE  DeviationSpec => []OracleIsAuthority
<1>1. DeviationIInv => OracleIsAuthority
  <2> SUFFICES ASSUME DeviationIInv PROVE OracleIsAuthority
    OBVIOUS
  <2>1. world \in Worlds
    BY DEF DeviationIInv
  <2>2. /\ RouterBound[world] /\ CanonicalBound[world] /\ Monotone[world]
        /\ BeamBound[world] /\ Fallback[world]
    BY <2>1, OracleOfAWorld
  <2> QED BY <2>2 DEF OracleIsAuthority, RouterNeverBeatsOracle, CanonicalPairBounds,
                      DearerPreferenceBuysLess, BeamFindsNoMore, CanonicalFallsBackToLabel
<1> QED BY <1>1, DeviationInvariance, PTL

-----------------------------------------------------------------------------
\* What an evaluation of the policies rests on.

\* The state after an action, and the order in which the events are known.
KnownAfter(w, s, a) == s.candidates \cup Found(s, a, Observation(w, s, a))

Follows(w, n, a, m) ==
    LET s == n.state
    IN /\ m.state.candidates = KnownAfter(w, s, a)
       /\ \A e \in m.state.candidates :
            /\ m.state.level[e] = IF e \notin s.candidates THEN GIST
                                  ELSE IF e = a.event THEN Raised(a, s.level[e])
                                  ELSE s.level[e]
            /\ m.state.frontier[e] = IF e \notin s.candidates THEN NoFrontier
                                     ELSE IF e = a.event /\ a.kind = "context"
                                            THEN Widened(e, s.frontier[e])
                                     ELSE s.frontier[e]
       /\ m.state.taken = s.taken \cup {a}
       /\ m.state.budget = s.budget - Upper(a)
       /\ m.order = n.order \o IF a = Search THEN w.found
                               ELSE InOrder(m.state.candidates \ s.candidates)

LEMMA ExtendedStates ==
  ASSUME NEW w, NEW n, IsNode(n), NEW a
  PROVE  Follows(w, n, a, Extend(w, n, a))
<1> DEFINE o == Observation(w, n.state, a)
           x == Reduce(n.state, a, o, Charge(a, o))
<1>1. ~o.hit
  BY DEF Observation, NoObservation
<1> HIDE DEF o
<1>2. Charge(a, o) = Upper(a)
  BY <1>1, Zenon DEF Charge, Upper
<1>3. Extend(w, n, a) = Child(n, a, o, x, w.found)
  BY DEF Extend, Observed, o
<1>4. /\ x.candidates = KnownAfter(w, n.state, a)
      /\ \A e \in x.candidates :
           /\ x.level[e] = IF e \notin n.state.candidates THEN GIST
                           ELSE IF e = a.event THEN Raised(a, n.state.level[e])
                           ELSE n.state.level[e]
           /\ x.frontier[e] = IF e \notin n.state.candidates THEN NoFrontier
                              ELSE IF e = a.event /\ a.kind = "context"
                                     THEN Widened(e, n.state.frontier[e])
                              ELSE n.state.frontier[e]
      /\ x.taken = n.state.taken \cup {a}
      /\ x.budget = n.state.budget - Upper(a)
  BY <1>2 DEF Reduce, KnownAfter, o
<1> HIDE DEF x
<1> DEFINE y == n.order \o IF a = Search THEN w.found ELSE InOrder(x.candidates \ n.state.candidates)
<1>5. Extend(w, n, a) = [n EXCEPT !.path = Append(n.path, a), !.cost = n.cost + Charge(a, o),
                                  !.state = x, !.order = y]
  BY <1>3 DEF Child
<1>6. n = [path |-> n.path, order |-> n.order, cost |-> n.cost, state |-> n.state]
  BY DEF IsNode
<1> HIDE DEF y
<1>7. Extend(w, n, a).state = x /\ Extend(w, n, a).order = y
  BY <1>5, <1>6
<1> QED BY <1>4, <1>7 DEF o, y, Follows

\* The levels of a state are levels.
Leveled(s) == \A e \in s.candidates : s.level[e] \in Levels

\* What is known stays known, and no level falls.
LEMMA LevelsNeverFall ==
  ASSUME NEW w, NEW n, IsNode(n), Leveled(n.state), NEW a
  PROVE  LET s == n.state
             t == Extend(w, n, a).state
         IN /\ Leveled(t)
            /\ \A e \in s.candidates : e \in t.candidates /\ t.level[e] >= s.level[e]
<1> DEFINE s == n.state
           m == Extend(w, n, a)
           t == m.state
<1>1. /\ s.candidates \subseteq t.candidates
      /\ \A e \in t.candidates :
           t.level[e] = IF e \notin s.candidates THEN GIST
                        ELSE IF e = a.event THEN Raised(a, s.level[e]) ELSE s.level[e]
  <2>1. Follows(w, n, a, m)
    BY ExtendedStates
  <2> HIDE DEF m
  <2> QED BY <2>1 DEF Follows, KnownAfter
<1>2. \A l \in Levels : Raised(a, l) \in Levels /\ Raised(a, l) >= l
  BY DEF Raised, Levels, GIST, RESIDUAL, VISUAL, Visual
<1>3. GIST \in Levels /\ \A l \in Levels : l >= l
  BY DEF Levels, GIST, RESIDUAL, VISUAL
<1>4. \A e \in s.candidates : s.level[e] \in Levels
  BY DEF Leveled
<1> HIDE DEF t, s
<1>5. ASSUME NEW e \in t.candidates
      PROVE  t.level[e] \in Levels /\ (e \in s.candidates => t.level[e] >= s.level[e])
  <2>1. t.level[e] = IF e \notin s.candidates THEN GIST
                     ELSE IF e = a.event THEN Raised(a, s.level[e]) ELSE s.level[e]
    BY <1>1
  <2>2. CASE e \notin s.candidates
    BY <1>3, <2>1, <2>2
  <2>3. CASE e \in s.candidates /\ e = a.event
    <3>1. t.level[e] = Raised(a, s.level[e]) /\ s.level[e] \in Levels
      BY <1>4, <2>1, <2>3
    <3> QED BY <1>2, <3>1
  <2>4. CASE e \in s.candidates /\ e # a.event
    BY <1>3, <1>4, <2>1, <2>4
  <2> QED BY <2>2, <2>3, <2>4
<1>6. Leveled(t)
  BY <1>5 DEF Leveled
<1>7. \A e \in s.candidates : e \in t.candidates /\ t.level[e] >= s.level[e]
  BY <1>1, <1>5
<1> QED BY <1>6, <1>7 DEF t, s, m

\* A trajectory: its nodes follow each other, and the path of one that stopped ends with
\* the stop.
Pathway(w, nodes) ==
    /\ \E S : nodes \in Seq(S)
    /\ Len(nodes) > 0
    /\ \A i \in 1..Len(nodes) : IsNode(nodes[i]) /\ Leveled(nodes[i].state)
    /\ \A i \in 2..Len(nodes) : \E a : nodes[i] = Extend(w, nodes[i - 1], a)
    /\ LET last == nodes[Len(nodes)]
       IN Terminal(last.state) => last.path[Len(last.path)] = Stop

LEMMA PathwaysGoOn ==
  ASSUME NEW w, NEW nodes, Pathway(w, nodes), NEW a \in Actions,
         ~Terminal(nodes[Len(nodes)].state)
  PROVE  LET next == Append(nodes, Extend(w, nodes[Len(nodes)], a))
         IN /\ Pathway(w, next) /\ Len(next) = Len(nodes) + 1
            /\ next[Len(next)] = Extend(w, nodes[Len(nodes)], a)
            /\ Terminal(next[Len(next)].state) <=> a = Stop
<1> DEFINE L == Len(nodes)
           n == nodes[L]
           m == Extend(w, n, a)
           next == Append(nodes, m)
<1>1. PICK S : nodes \in Seq(S)
  BY DEF Pathway
<1>2. L \in Nat /\ L > 0 /\ IsNode(n) /\ Leveled(n.state)
  BY <1>1 DEF Pathway
<1>3. IsNode(m) /\ m.path = Key(n, a)
  BY <1>2, ExtendedNodes
<1>4. Leveled(m.state)
  BY <1>2, LevelsNeverFall
<1>5. Terminal(m.state) <=> a = Stop
  BY <1>2, StoppingIsTerminal
<1>6. m.path[Len(m.path)] = a
  <2>1. /\ Key(n, a)[Len(n.path) + 1] = a /\ Len(Key(n, a)) = Len(n.path) + 1
    BY <1>2, Keys
  <2> HIDE DEF m
  <2> QED BY <1>3, <2>1
<1>7. m = Extend(w, n, a)
  OBVIOUS
<1> HIDE DEF m
<1>8. /\ next \in Seq(S \cup {m}) /\ Len(next) = L + 1 /\ next[L + 1] = m
      /\ \A i \in 1..L : next[i] = nodes[i]
  BY <1>1
<1> HIDE DEF next
<1>9. \A i \in 1..Len(next) : IsNode(next[i]) /\ Leveled(next[i].state)
  <2> SUFFICES ASSUME NEW i \in 1..Len(next) PROVE IsNode(next[i]) /\ Leveled(next[i].state)
    OBVIOUS
  <2>1. CASE i = L + 1
    BY <1>3, <1>4, <1>8, <2>1
  <2>2. CASE i \in 1..L
    BY <1>8, <2>2 DEF Pathway
  <2> QED BY <1>2, <1>8, <2>1, <2>2
<1>10. \A i \in 2..Len(next) : \E b : next[i] = Extend(w, next[i - 1], b)
  <2> SUFFICES ASSUME NEW i \in 2..Len(next) PROVE \E b : next[i] = Extend(w, next[i - 1], b)
    OBVIOUS
  <2>1. CASE i = L + 1
    <3>1. next[i] = m /\ i - 1 = L /\ L \in 1..L
      BY <1>2, <1>8, <2>1
    <3>2. next[i - 1] = n
      BY <1>8, <3>1
    <3> HIDE DEF n
    <3> QED BY <1>7, <3>1, <3>2
  <2>2. CASE i \in 2..L
    <3>1. i \in 1..L /\ i - 1 \in 1..L
      BY <1>2, <2>2
    <3>2. next[i] = nodes[i] /\ next[i - 1] = nodes[i - 1]
      BY <1>8, <3>1
    <3>3. \E b : nodes[i] = Extend(w, nodes[i - 1], b)
      BY <2>2 DEF Pathway
    <3> QED BY <3>2, <3>3
  <2> QED BY <1>2, <1>8, <2>1, <2>2
<1>11. next[Len(next)] = m
  BY <1>8
<1>12. Pathway(w, next)
  <2>1. Len(next) > 0 /\ \E U : next \in Seq(U)
    BY <1>2, <1>8
  <2>2. Terminal(m.state) => m.path[Len(m.path)] = Stop
    BY <1>5, <1>6
  <2> QED BY <1>9, <1>10, <1>11, <2>1, <2>2 DEF Pathway
<1> QED BY <1>5, <1>8, <1>11, <1>12 DEF m, next

\* Every trajectory stops, by itself or at the horizon.
LEMMA TrajectoriesStop ==
  ASSUME NEW w, NEW budget, NEW K, NEW policy \in Seq(K), NEW horizon \in Nat \ {0}
  PROVE  LET nodes == Trajectory(w, policy, budget, horizon)
         IN Pathway(w, nodes) /\ Terminal(nodes[Len(nodes)].state)
<1> DEFINE n == Root(budget)
<1>1. PICK f : /\ TrajectorySteps(w, policy, budget, horizon, horizon, f)
               /\ Trajectory(w, policy, budget, horizon) = f[horizon]
  BY TrajectoriesHaveSteps
<1>2. /\ f[0] = <<n>>
      /\ \A k \in 1..horizon : f[k] = TrajectoryNext(w, policy, horizon, f[k - 1], k)
  BY <1>1 DEF TrajectorySteps
<1>3. IsNode(n) /\ ~Terminal(n.state) /\ Leveled(n.state)
  <2>1. n.state.candidates = {}
    BY DEF Root
  <2>2. Leveled(n.state)
    BY <2>1 DEF Leveled
  <2> QED BY <2>2, RootsAreNodes
<1> HIDE DEF n
<1> DEFINE P(k) == /\ Pathway(w, f[k])
                   /\ Terminal(f[k][Len(f[k])].state) \/ k < horizon
           Bad == {k \in 0..horizon : ~P(k)}
<1>4. P(0)
  <2> DEFINE T == <<n>>
  <2>1. T \in Seq({n}) /\ Len(T) = 1 /\ T[1] = n
    OBVIOUS
  <2> HIDE DEF T
  <2>2. Pathway(w, T)
    BY <1>3, <2>1 DEF Pathway
  <2>3. f[0] = T
    BY <1>2 DEF T
  <2> QED BY <2>2, <2>3
<1>5. ASSUME NEW k \in 1..horizon, P(k - 1) PROVE P(k)
  <2> DEFINE nodes == f[k - 1]
             m == nodes[Len(nodes)]
             a == IF k = horizon THEN Stop ELSE Select(w, policy, m)
             next == Append(nodes, Extend(w, m, a))
  <2>1. f[k] = TrajectoryNext(w, policy, horizon, nodes, k)
    BY <1>2
  <2>2. Pathway(w, nodes)
    BY <1>5
  <2>3. Last(nodes) = m
    BY DEF Last
  <2>4. CASE Terminal(m.state)
    <3>1. f[k] = nodes
      <4> HIDE DEF m, nodes
      <4> QED BY <2>1, <2>3, <2>4 DEF TrajectoryNext
    <3> HIDE DEF nodes
    <3> QED BY <2>2, <2>4, <3>1
  <2>5. CASE ~Terminal(m.state)
    <3>1. f[k] = next
      <4> HIDE DEF m, nodes
      <4> QED BY <2>1, <2>3, <2>5 DEF TrajectoryNext
    <3>2. a \in ValidActions(m.state)
      BY <2>5, OfferedActions, SelectIsLegal
    <3>3. a \in Actions
      BY <3>2, OfferedActions
    <3>4. k = horizon => a = Stop
      OBVIOUS
    <3> HIDE DEF a, nodes
    <3>5. Pathway(w, next) /\ (Terminal(next[Len(next)].state) <=> a = Stop)
      BY <2>2, <2>5, <3>3, PathwaysGoOn
    <3> HIDE DEF next
    <3> QED BY <3>1, <3>4, <3>5
  <2> QED BY <2>4, <2>5
<1>6. P(horizon)
  <2>1. ASSUME Bad # {} PROVE FALSE
    <3>1. PICK k \in Bad : \A j \in Bad : k <= j
      <4>1. Bad \in SUBSET Nat
        OBVIOUS
      <4> HIDE DEF Bad
      <4> QED BY <2>1, <4>1, LeastOfNumbers
    <3> HIDE DEF P
    <3>2. k # 0
      BY <1>4, <3>1
    <3>3. k \in 1..horizon /\ k - 1 \in 0..horizon /\ k - 1 \notin Bad
      BY <3>1, <3>2
    <3>4. P(k - 1)
      BY <3>3
    <3> QED BY <1>5, <3>1, <3>3, <3>4
  <2> HIDE DEF P
  <2> QED BY <2>1
<1>7. Pathway(w, f[horizon]) /\ Terminal(f[horizon][Len(f[horizon])].state)
  BY <1>6
<1> QED BY <1>1, <1>7

LEMMA Policed ==
  ASSUME NEW w \in Worlds, NEW p \in Baselines \cup ToSet(w.learned)
  PROVE  Horizon(p) \in Nat \ {0} /\ \E K : p \in Seq(K)
<1>1. CASE p \in FixedLong
  <2>1. Horizon(p) = 2 * N + 2
    BY <1>1 DEF Horizon
  <2>2. <<"uniform">> \in Seq({"uniform", "full"}) /\ <<"full">> \in Seq({"uniform", "full"})
    OBVIOUS
  <2>3. p \in Seq({"uniform", "full"})
    BY <1>1, <2>2 DEF FixedLong
  <2> QED BY <2>1, <2>3, EnvAssumption
<1>2. CASE p \notin FixedLong
  BY <1>2, RouterPolicies
<1> QED BY <1>1, <1>2

-----------------------------------------------------------------------------
\* The causes of errors.

LEMMA RequiredIsANumber ==
  ASSUME NEW w, w.needed \subseteq Evidence, Support(w) # {}
  PROVE  Required(w) \in Nat
<1> DEFINE T == {i.level : i \in w.needed}
<1>1. T \subseteq {0, 1, 2}
  BY DEF Evidence, Levels, GIST, RESIDUAL, VISUAL
<1>2. T # {}
  BY DEF Support
<1> HIDE DEF T
<1>3. \E m \in T : \A k \in T : m >= k
  <2>1. \A k \in T : k = 0 \/ k = 1 \/ k = 2
    BY <1>1
  <2>2. CASE 2 \in T
    <3>1. \A k \in T : 2 >= k
      BY <2>1
    <3> QED BY <2>2, <3>1
  <2>3. CASE 2 \notin T /\ 1 \in T
    <3>1. \A k \in T : 1 >= k
      BY <2>1, <2>3
    <3> QED BY <2>3, <3>1
  <2>4. CASE 2 \notin T /\ 1 \notin T
    <3>1. 0 \in T /\ \A k \in T : 0 >= k
      BY <1>2, <2>1, <2>4
    <3> QED BY <3>1
  <2> QED BY <2>2, <2>3, <2>4
<1>4. Max(T) \in T
  BY <1>3 DEF Max
<1> QED BY <1>1, <1>4 DEF Required, T

\* Evidence once sufficient stays so.
LEMMA SufficientStaysSo ==
  ASSUME NEW w, w.needed \subseteq Evidence, NEW n, IsNode(n), Leveled(n.state), NEW a,
         Sufficient(w, n.state)
  PROVE  Sufficient(w, Extend(w, n, a).state)
<1> DEFINE t == Extend(w, n, a).state
<1>1. /\ Leveled(t)
      /\ \A e \in n.state.candidates : e \in t.candidates /\ t.level[e] >= n.state.level[e]
  BY LevelsNeverFall
<1> HIDE DEF t
<1>2. SUFFICES ASSUME NEW e \in Support(w)
               PROVE  e \in t.candidates /\ t.level[e] >= Required(w)
  BY DEF Sufficient, t
<1>3. e \in n.state.candidates /\ n.state.level[e] >= Required(w)
  BY DEF Sufficient
<1>4. Required(w) \in Nat
  BY RequiredIsANumber
<1>5. \A l \in Levels : l \in Nat
  BY DEF Levels, GIST, RESIDUAL, VISUAL
<1>6. e \in t.candidates /\ t.level[e] >= n.state.level[e]
  BY <1>1, <1>3
<1>7. t.level[e] \in Nat /\ n.state.level[e] \in Nat
  BY <1>1, <1>3, <1>5, <1>6 DEF Leveled
<1> QED BY <1>3, <1>4, <1>6, <1>7

\* The primary cause is the first of the active ones.
LEMMA FirstCause ==
  ASSUME NEW signals
  PROVE  LET cause == Primary(Causes(signals), FALSE)
         IN IF ~signals.recalled THEN cause = "recall"
            ELSE IF signals.sufficient /\ ~signals.answers THEN cause = "answerer"
            ELSE signals.stopped => cause = "premature"
<1> DEFINE C == Causes(signals)
           at == {i \in DOMAIN ErrorPriority : ErrorPriority[i] \in C}
<1>1. /\ DOMAIN ErrorPriority = 1..5
      /\ ErrorPriority[1] = "recall" /\ ErrorPriority[2] = "answerer"
      /\ ErrorPriority[3] = "premature" /\ ErrorPriority[4] = "fidelity"
      /\ ErrorPriority[5] = "over"
  BY DEF ErrorPriority
<1>2. ToSet(ErrorPriority) = {"recall", "answerer", "premature", "fidelity", "over"}
  BY <1>1 DEF ToSet
<1>3. /\ "recall" \in C <=> ~signals.recalled
      /\ "answerer" \in C <=> signals.sufficient /\ ~signals.answers
      /\ "premature" \in C <=> signals.stopped
  BY <1>2 DEF Causes
<1> HIDE DEF C
<1>4. /\ 1 \in at <=> "recall" \in C
      /\ 2 \in at <=> "answerer" \in C
      /\ 3 \in at <=> "premature" \in C
      /\ \A i \in at : i \in Nat /\ 1 <= i
  BY <1>1
<1>5. Primary(C, FALSE) = IF C = {} THEN "none" ELSE ErrorPriority[Min(at)]
  BY DEF Primary
<1> HIDE DEF at
<1>6. \A k \in at : (\A i \in at : k <= i) => Min(at) = k
  <2> SUFFICES ASSUME NEW k \in at, \A i \in at : k <= i PROVE Min(at) = k
    OBVIOUS
  <2>1. Min(at) \in at /\ \A i \in at : Min(at) <= i
    BY DEF Min
  <2>2. k \in Nat /\ Min(at) \in Nat
    BY <1>4, <2>1
  <2>3. k <= Min(at) /\ Min(at) <= k
    BY <2>1
  <2> QED BY <2>2, <2>3
<1>7. 1 \in at => Min(at) = 1
  BY <1>4, <1>6
<1>8. 1 \notin at /\ 2 \in at => Min(at) = 2
  BY <1>4, <1>6
<1>9. 1 \notin at /\ 2 \notin at /\ 3 \in at => Min(at) = 3
  BY <1>4, <1>6
<1> QED BY <1>1, <1>3, <1>4, <1>5, <1>7, <1>8, <1>9 DEF C

LEMMA PathwaysAreAttributed ==
  ASSUME NEW w, w.needed \subseteq Evidence, NEW nodes, Pathway(w, nodes),
         Terminal(nodes[Len(nodes)].state)
  PROVE  Attributed(w, nodes)
<1> DEFINE final == nodes[Len(nodes)]
<1>1. Len(nodes) \in Nat
  BY DEF Pathway
<1>2. ASSUME NEW i \in 2..Len(nodes), Sufficient(w, nodes[i - 1].state)
      PROVE  Sufficient(w, nodes[i].state)
  <2>1. i - 1 \in 1..Len(nodes)
    BY <1>1
  <2>2. PICK a : nodes[i] = Extend(w, nodes[i - 1], a)
    BY DEF Pathway
  <2>3. IsNode(nodes[i - 1]) /\ Leveled(nodes[i - 1].state)
    BY <2>1 DEF Pathway
  <2>4. Sufficient(w, Extend(w, nodes[i - 1], a).state)
    BY <1>2, <2>3, SufficientStaysSo
  <2> QED BY <2>2, <2>4
<1>3. ASSUME NEW answers \in BOOLEAN
      PROVE  ErrorHasACause(w, final.state, Signals(w, nodes, answers))
  <2> DEFINE signals == Signals(w, nodes, answers)
             cause == Primary(Causes(signals), FALSE)
  <2>1. final.path[Len(final.path)] = Stop
    BY DEF Pathway
  <2>2. /\ signals.sufficient <=> Sufficient(w, final.state)
        /\ signals.stopped <=> ~Sufficient(w, final.state)
        /\ signals.answers = answers
    BY <2>1 DEF Signals
  <2>3. signals.recalled \in BOOLEAN
    BY DEF Signals
  <2>4. HasACause(signals, cause)
    <3> HIDE DEF signals
    <3>1. IF ~signals.recalled THEN cause = "recall"
          ELSE IF signals.sufficient /\ ~signals.answers THEN cause = "answerer"
          ELSE signals.stopped => cause = "premature"
      BY FirstCause
    <3> HIDE DEF cause
    <3> QED BY <2>2, <3>1 DEF HasACause
  <2>5. ~Right(w, final.state) => Primary(Causes(signals), Right(w, final.state)) = cause
    BY DEF Primary
  <2> HIDE DEF signals, cause
  <2> QED BY <2>4, <2>5 DEF ErrorHasACause, signals
<1> QED BY <1>2, <1>3 DEF Attributed

LEMMA ErrorsOfAWorld ==
  ASSUME NEW w \in Worlds
  PROVE  Attribution[w]
<1>1. w.needed \subseteq Evidence
  BY CollectionAssumption
<1>2. ASSUME NEW c \in Contexts, NEW p \in Baselines \cup ToSet(w.learned)
      PROVE  Attributed(w, Trajectory(w, p, c.budget, Horizon(p)))
  <2>1. PICK K : Horizon(p) \in Nat \ {0} /\ p \in Seq(K)
    BY Policed
  <2> DEFINE nodes == Trajectory(w, p, c.budget, Horizon(p))
  <2>2. Pathway(w, nodes) /\ Terminal(nodes[Len(nodes)].state)
    BY <2>1, TrajectoriesStop
  <2> HIDE DEF nodes
  <2>3. Attributed(w, nodes)
    BY <1>1, <2>2, PathwaysAreAttributed
  <2> QED BY <2>3 DEF nodes
<1> QED BY <1>2 DEF Attribution

-----------------------------------------------------------------------------
\* The policies that take a fidelity of all events: first they find the events, from the
\* first one the search found, then they acquire them.

KindOf(p) == IF p = <<"full">> THEN "residual" ELSE "low"
LevelOf(p) == IF p = <<"full">> THEN RESIDUAL ELSE VISUAL

Price == Max({Upper(Action("low", 1)), Upper(Action("residual", 1))})

Acquired(s, kind) == {e \in Events : Action(kind, e) \in s.taken}

Ordered(n, f) == (\E S : n.order \in Seq(S)) /\ Len(n.order) > 0 /\ n.order[1] = f

\* After k steps that did not find all: the context of event f was asked for at all but the
\* first of them.
Discovers(s, f, k) ==
    /\ s.candidates \subseteq Events /\ s.candidates # Events /\ f \in s.candidates
    /\ s.frontier[f] = [left  |-> IF k <= f THEN k - 1 ELSE f - 1,
                        right |-> IF k <= N - f THEN k - 1 ELSE N - f]
    /\ \A e \in Events : f - k < e /\ e < f + k => e \in s.candidates
    /\ \A e \in s.candidates : s.level[e] = GIST
    /\ \A a \in s.taken : a = Search \/ a.kind = "context"
    /\ s.budget \in Int /\ s.budget >= (N - k) * Cost["context"] + N * Price

\* After k steps that found all events: the steps of finding were fewer than the events.
Acquires(s, p, k) ==
    LET A == Acquired(s, KindOf(p))
    IN /\ s.candidates = Events
       /\ Stop \notin s.taken
       /\ \A e \in Events : s.level[e] = IF e \in A THEN LevelOf(p) ELSE GIST
       /\ k <= N + Cardinality(A)
       /\ s.budget \in Int /\ s.budget >= (N - Cardinality(A)) * Price

LEMMA Prices ==
  /\ Price \in Nat /\ Cost["context"] \in Nat /\ Cost["search"] \in Nat
  /\ \A e : Upper(Action("low", e)) \in Nat /\ Upper(Action("low", e)) <= Price
  /\ \A e : Upper(Action("residual", e)) \in Nat /\ Upper(Action("residual", e)) <= Price
  /\ \A e : Upper(Action("context", e)) = Cost["context"]
  /\ Upper(Search) = Cost["search"]
<1> DEFINE x == Upper(Action("low", 1))
           y == Upper(Action("residual", 1))
<1>1. /\ \A e : Upper(Action("low", e)) = Cost["low"] + Cost["lowQuestion"]
      /\ \A e : Upper(Action("residual", e)) = Cost["residual"]
      /\ \A e : Upper(Action("context", e)) = Cost["context"]
      /\ Upper(Search) = Cost["search"]
  BY DEF Upper, Action, Search
<1>2. \A c \in {"search", "residual", "context", "low", "lowQuestion"} : Cost[c] \in Nat
  BY EnvAssumption DEF CostFields
<1>3. /\ \A e : Upper(Action("low", e)) = x /\ Upper(Action("residual", e)) = y
      /\ x \in Nat /\ y \in Nat
  BY <1>1, <1>2
<1> HIDE DEF x, y
<1>4. Max({x, y}) \in {x, y} /\ \A z \in {x, y} : Max({x, y}) >= z
  <2>1. \E m \in {x, y} : \A z \in {x, y} : m >= z
    BY <1>3
  <2> QED BY <2>1 DEF Max
<1>5. Price = Max({x, y})
  BY DEF Price, x, y
<1> QED BY <1>1, <1>2, <1>3, <1>4, <1>5

LEMMA FixedSelects ==
  ASSUME NEW w, NEW p \in FixedLong, NEW n
  PROVE  Select(w, p, n) = CoversAll(n, KindOf(p))
<1>1. <<"uniform">> # <<"full">>
  <2>1. <<"uniform">>[1] = "uniform" /\ <<"full">>[1] = "full"
    OBVIOUS
  <2> QED BY <2>1
<1>2. CASE p = <<"uniform">>
  <2>1. KindOf(p) = "low"
    BY <1>1, <1>2 DEF KindOf
  <2> QED BY <1>2, <2>1 DEF Select
<1>3. CASE p = <<"full">>
  <2>1. KindOf(p) = "residual"
    BY <1>3 DEF KindOf
  <2> QED BY <1>1, <1>3, <2>1 DEF Select
<1> QED BY <1>2, <1>3 DEF FixedLong

LEMMA OrdersBegin ==
  ASSUME NEW w, w.found \in Seq(Events), NEW n, IsNode(n), NEW a, NEW f,
         IF a = Search THEN n.order = <<>> /\ w.found # <<>> /\ f = w.found[1] ELSE Ordered(n, f)
  PROVE  Ordered(Extend(w, n, a), f)
<1> DEFINE m == Extend(w, n, a)
           T == m.state.candidates \ n.state.candidates
           more == IF a = Search THEN w.found ELSE InOrder(T)
<1>1. Follows(w, n, a, m)
  BY ExtendedStates
<1> HIDE DEF m
<1>2. m.order = n.order \o more
  BY <1>1 DEF Follows
<1>3. \E S : InOrder(T) \in Seq(S)
  <2> HIDE DEF T
  <2> DEFINE S == {Min(T), Max(T)}
  <2>1. <<>> \in Seq(S) /\ <<Min(T)>> \in Seq(S) /\ <<Min(T), Max(T)>> \in Seq(S)
    OBVIOUS
  <2>2. InOrder(T) \in Seq(S)
    <3> HIDE DEF S
    <3> QED BY <2>1 DEF InOrder
  <2> QED BY <2>2
<1>4. CASE a = Search
  <2> DEFINE q == w.found
  <2>1. m.order = <<>> \o q /\ q \in Seq(Events) /\ q # <<>> /\ f = q[1]
    BY <1>2, <1>4
  <2> HIDE DEF q
  <2>2. <<>> \o q \in Seq(Events) /\ Len(<<>> \o q) > 0 /\ (<<>> \o q)[1] = q[1]
    BY <2>1
  <2> QED BY <2>1, <2>2 DEF Ordered, m
<1>5. CASE a # Search
  <2>1. PICK S : InOrder(T) \in Seq(S)
    BY <1>3
  <2>2. PICK U : n.order \in Seq(U)
    BY <1>5 DEF Ordered
  <2>3. Len(n.order) > 0 /\ n.order[1] = f
    BY <1>5 DEF Ordered
  <2> DEFINE q == n.order
             r == InOrder(T)
  <2>4. q \in Seq(S \cup U) /\ r \in Seq(S \cup U) /\ Len(q) > 0 /\ q[1] = f
    BY <2>1, <2>2, <2>3
  <2>5. m.order = q \o r
    BY <1>2, <1>5
  <2> HIDE DEF q, r
  <2>6. q \o r \in Seq(S \cup U) /\ Len(q \o r) > 0 /\ (q \o r)[1] = f
    BY <2>4
  <2> QED BY <2>5, <2>6 DEF Ordered, m
<1> QED BY <1>4, <1>5

\* What is left of a budget after one more thing was paid.
LEMMA Rest ==
  ASSUME NEW c \in Nat, NEW i \in Int, i >= 1
  PROVE  i * c \in Int /\ (i - 1) * c \in Int /\ i * c - c = (i - 1) * c /\ i * c >= c
<1>1. i * c - c = (i - 1) * c
  OBVIOUS
<1>2. (i - 1) * c >= 0 /\ (i - 1) * c \in Int /\ i * c \in Int
  OBVIOUS
<1> QED BY <1>1, <1>2

\* The first step finds the event the others start from.
LEMMA FixedSearch ==
  ASSUME NEW w, w.found \in Seq(Events), w.found # <<>>, NEW p \in FixedLong
  PROVE  LET n == Root(Ample)
             m == Extend(w, n, Search)
         IN /\ w.found[1] \in Events
            /\ Select(w, p, n) = Search
            /\ IsNode(m) /\ Ordered(m, w.found[1])
            /\ Discovers(m.state, w.found[1], 1) \/ Acquires(m.state, p, 1)
<1> DEFINE n == Root(Ample)
           m == Extend(w, n, Search)
           f == w.found[1]
           F == ToSet(w.found)
           s == m.state
<1>1. f \in Events /\ f \in F /\ F \subseteq Events
  <2> DEFINE q == w.found
  <2>1. q \in Seq(Events) /\ q # <<>>
    OBVIOUS
  <2> HIDE DEF q
  <2>2. 1 \in DOMAIN q /\ \A i \in DOMAIN q : q[i] \in Events
    BY <2>1
  <2> QED BY <2>2 DEF ToSet, q
<1>2. N \in Nat /\ N >= 1
  BY <1>1, EnvAssumption DEF Events
<1>3. /\ n.state.candidates = {} /\ n.state.taken = {} /\ n.state.budget = Ample
      /\ n.order = <<>> /\ IsNode(n) /\ ~Terminal(n.state)
  BY RootsAreNodes DEF Root
<1>4. /\ Ample = Cost["search"] + (N - 1) * Cost["context"] + N * Price
      /\ Price \in Nat /\ Cost["context"] \in Nat /\ Cost["search"] \in Nat
      /\ Upper(Search) = Cost["search"]
  BY Prices DEF Ample, Price
<1> HIDE DEF n
<1>5. /\ (N - 1) * Cost["context"] \in Nat /\ N * Price \in Nat
  BY <1>2, <1>4
<1>6. Select(w, p, n) = Search
  <2>1. Search \in ValidActions(n.state)
    <3>1. n.state.budget >= Upper(Search)
      BY <1>3, <1>4, <1>5
    <3> QED BY <1>3, <3>1 DEF ValidActions, Seen, Affordable
  <2> QED BY <2>1, FixedSelects DEF CoversAll
<1>7. Search \in Actions /\ Search # Stop /\ Search.kind = "search" /\ Search.event = 0
  BY DEF Actions, Search, Stop, Action, NoEvent
<1>8. IsNode(m)
  BY <1>3, <1>7, ExtendedNodes
<1>9. Ordered(m, f)
  BY <1>3, OrdersBegin
<1>10. Follows(w, n, Search, m)
  BY <1>3, ExtendedStates
<1>11. KnownAfter(w, n.state, Search) = F
  <2>1. Observation(w, n.state, Search).candidates = F
    BY DEF Observation, NoObservation
  <2> QED BY <1>3, <1>7, <2>1 DEF KnownAfter, Found
<1> HIDE DEF m, f, F
<1>12. /\ s.candidates = F /\ s.taken = {Search}
       /\ \A e \in F : s.level[e] = GIST /\ s.frontier[e] = NoFrontier
       /\ s.budget = Ample - Upper(Search)
  BY <1>3, <1>10, <1>11 DEF Follows
<1>13. s.budget \in Int /\ s.budget = (N - 1) * Cost["context"] + N * Price
  BY <1>4, <1>5, <1>12
<1>14. CASE F # Events
  <2>1. s.frontier[f] = [left  |-> IF 1 <= f THEN 1 - 1 ELSE f - 1,
                         right |-> IF 1 <= N - f THEN 1 - 1 ELSE N - f]
    <3>1. 1 <= f /\ (1 <= N - f \/ N - f = 0)
      BY <1>1, <1>2 DEF Events
    <3> QED BY <1>1, <1>12, <3>1 DEF NoFrontier
  <2>2. \A e \in Events : f - 1 < e /\ e < f + 1 => e = f
    BY <1>1, <1>2 DEF Events
  <2> HIDE DEF s
  <2>3. Discovers(s, f, 1)
    BY <1>1, <1>12, <1>13, <1>14, <2>1, <2>2 DEF Discovers
  <2> QED BY <1>1, <1>6, <1>8, <1>9, <2>3 DEF m, f, n, s
<1>15. CASE F = Events
  <2>1. Acquired(s, KindOf(p)) = {}
    <3>1. \A e : Action(KindOf(p), e) # Search
      BY DEF Action, Search, KindOf
    <3> QED BY <1>12, <3>1 DEF Acquired
  <2>2. Cardinality({}) = 0
    BY FS_EmptySet
  <2>3. (N - 0) * Price = N * Price
    BY <1>2, <1>4
  <2>4. s.budget >= (N - 0) * Price
    BY <1>5, <1>13, <2>3
  <2> HIDE DEF s
  <2>5. Acquires(s, p, 1)
    <3>1. Stop \notin s.taken
      BY <1>7, <1>12
    <3>2. 1 <= N + 0
      BY <1>2
    <3> QED BY <1>12, <1>13, <1>15, <2>1, <2>2, <2>4, <3>1, <3>2 DEF Acquires
  <2> QED BY <1>1, <1>6, <1>8, <1>9, <2>5 DEF m, f, n, s
<1> QED BY <1>14, <1>15

\* Each further step finds the next ring around that event.
LEMMA FixedDiscovers ==
  ASSUME NEW w, NEW p \in FixedLong, NEW f \in Events, NEW k \in Nat \ {0},
         NEW n, IsNode(n), Ordered(n, f), Discovers(n.state, f, k)
  PROVE  /\ ~Terminal(n.state) /\ k < N
         /\ Select(w, p, n) = Action("context", f)
<1> DEFINE s == n.state
           a == Action("context", f)
<1>1. N \in Nat /\ f \in 1..N /\ f \in Nat
  BY EnvAssumption DEF Events
<1>2. PICK e \in Events : e \notin s.candidates
  BY DEF Discovers
<1>3. e \in Nat /\ 1 <= e /\ e <= N /\ (e <= f - k \/ e >= f + k)
  BY <1>1, <1>2 DEF Discovers, Events
<1>4. k < N /\ (k <= f - 1 \/ k <= N - f)
  BY <1>1, <1>3
<1>5. ~Terminal(s)
  BY DEF Terminal, Discovers, Stop, Search, Action
<1>6. Available(s, a)
  <2>1. Neighbors(f, s.frontier[f]) # {}
    <3>1. s.frontier[f].left < f - 1 \/ s.frontier[f].right < N - f
      BY <1>1, <1>4 DEF Discovers
    <3> QED BY <3>1 DEF Neighbors
  <2> QED BY <2>1 DEF Available, Action
<1>7. Affordable(s, a)
  <2> DEFINE C == Cost["context"]
  <2>1. C \in Nat /\ Price \in Nat /\ Upper(a) = C
    BY Prices
  <2> HIDE DEF C, a
  <2>2. (N - k) * C \in Int /\ (N - k) * C >= C
    BY <1>1, <1>4, <2>1, Rest
  <2>3. N * Price \in Nat
    BY <1>1, <2>1
  <2>4. s.budget \in Int /\ s.budget >= (N - k) * C + N * Price
    BY DEF Discovers, C
  <2> QED BY <2>1, <2>2, <2>3, <2>4 DEF Affordable
<1>8. a \in ValidActions(s)
  <2>1. a \in Actions \ {Search, Stop} /\ a.event = f /\ f \in s.candidates
    BY DEF Actions, Kinds, Action, Search, Stop, Discovers
  <2> HIDE DEF a
  <2> QED BY <1>5, <1>6, <1>7, <2>1 DEF ValidActions
<1>9. Search \notin ValidActions(s)
  <2>1. s.candidates # {} /\ Search # Stop
    BY DEF Discovers, Search, Stop, Action
  <2> QED BY <1>5, <2>1 DEF ValidActions
<1> DEFINE rings  == Legal(n, "context")
           anchor == {b \in rings : n.order # <<>> /\ b.event = n.order[1]}
<1>10. a \in anchor
  <2>1. n.order # <<>> /\ n.order[1] = f
    BY DEF Ordered
  <2> QED BY <1>8, <2>1 DEF Legal, Action
<1>11. anchor \subseteq {a}
  <2> SUFFICES ASSUME NEW b \in anchor PROVE b = a
    OBVIOUS
  <2>1. b \in ValidActions(s) /\ b.kind = "context" /\ b.event = f
    BY DEF Legal, Ordered
  <2>2. b \in Actions
    BY <2>1, OfferedActions
  <2> QED BY <2>1, <2>2 DEF Actions, Action, Search, Stop
<1>12. Discover(n) = a
  <2>1. rings # {} /\ anchor # {}
    BY <1>10
  <2>2. Discover(n) = Foremost(n.order, anchor)
    BY <2>1 DEF Discover
  <2> HIDE DEF anchor, rings
  <2>3. Foremost(n.order, anchor) \in anchor
    BY <2>1, ForemostIsOneOfThem
  <2> QED BY <1>11, <2>2, <2>3
<1>13. Select(w, p, n) = a
  <2>1. s.candidates # Events
    BY DEF Discovers
  <2> HIDE DEF a
  <2> QED BY <1>9, <1>12, <2>1, FixedSelects DEF CoversAll
<1> QED BY <1>4, <1>5, <1>13

LEMMA FixedFinds ==
  ASSUME NEW w, w.found \in Seq(Events), NEW p \in FixedLong, NEW f \in Events,
         NEW k \in Nat \ {0}, k < N,
         NEW n, IsNode(n), Ordered(n, f), Discovers(n.state, f, k)
  PROVE  LET m == Extend(w, n, Action("context", f))
         IN /\ IsNode(m) /\ Ordered(m, f)
            /\ Discovers(m.state, f, k + 1) \/ Acquires(m.state, p, k + 1)
<1> DEFINE s == n.state
           a == Action("context", f)
           m == Extend(w, n, a)
           t == m.state
           x == s.frontier[f]
           C == Cost["context"]
<1>1. N \in Nat /\ f \in 1..N /\ f \in Nat /\ k + 1 \in Nat
  BY EnvAssumption DEF Events
<1>2. a \in Actions /\ a # Search /\ a # Stop /\ a.kind = "context" /\ a.event = f
  BY DEF Actions, Kinds, Action, Search, Stop
<1>3. IsNode(m)
  BY <1>2, ExtendedNodes
<1>4. Ordered(m, f)
  BY <1>2, OrdersBegin
<1>5. Follows(w, n, a, m)
  BY ExtendedStates
<1>6. KnownAfter(w, s, a) = s.candidates \cup Neighbors(f, x)
  BY <1>2 DEF KnownAfter, Found
<1>7. Raised(a, GIST) = GIST
  BY <1>2 DEF Raised, Visual
<1>8. Upper(a) = C /\ C \in Nat /\ Price \in Nat
  BY Prices
<1>9. /\ s.candidates \subseteq Events /\ f \in s.candidates
      /\ x = [left  |-> IF k <= f THEN k - 1 ELSE f - 1,
              right |-> IF k <= N - f THEN k - 1 ELSE N - f]
      /\ \A e \in Events : f - k < e /\ e < f + k => e \in s.candidates
      /\ \A e \in s.candidates : s.level[e] = GIST
      /\ \A b \in s.taken : b = Search \/ b.kind = "context"
      /\ s.budget \in Int /\ s.budget >= (N - k) * C + N * Price
  BY DEF Discovers
<1> HIDE DEF m, a
<1>10. /\ t.candidates = s.candidates \cup Neighbors(f, x)
       /\ t.taken = s.taken \cup {a}
       /\ t.budget = s.budget - C
       /\ \A e \in t.candidates :
            t.level[e] = IF e \notin s.candidates THEN GIST
                         ELSE IF e = f THEN Raised(a, s.level[e]) ELSE s.level[e]
       /\ f \in t.candidates => t.frontier[f] = Widened(f, x)
  BY <1>2, <1>5, <1>6, <1>8, <1>9 DEF Follows
<1> HIDE DEF t, s, C
<1>11. t.candidates \subseteq Events /\ f \in t.candidates
  <2>1. Neighbors(f, x) \subseteq Events
    <3> HIDE DEF x
    <3>1. x.left \in Nat /\ x.right \in Nat
      BY <1>1, <1>9
    <3> QED BY <1>1, <3>1 DEF Neighbors, Events
  <2> QED BY <1>9, <1>10, <2>1
<1>12. \A e \in t.candidates : t.level[e] = GIST
  BY <1>7, <1>9, <1>10
<1>13. \A b \in t.taken : b = Search \/ b.kind = "context"
  BY <1>2, <1>9, <1>10
<1>14. t.budget \in Int /\ t.budget >= (N - (k + 1)) * C + N * Price
  <2>1. N - k \in Int /\ N - k >= 1 /\ (N - k) - 1 = N - (k + 1)
    BY <1>1
  <2>2. /\ (N - k) * C \in Int /\ (N - (k + 1)) * C \in Int
        /\ (N - k) * C - C = (N - (k + 1)) * C
    BY <1>8, <2>1, Rest
  <2>3. N * Price \in Int
    BY <1>1, <1>8
  <2> QED BY <1>8, <1>9, <1>10, <2>2, <2>3
<1> HIDE DEF x
<1>15. t.frontier[f] = [left  |-> IF k + 1 <= f THEN (k + 1) - 1 ELSE f - 1,
                        right |-> IF k + 1 <= N - f THEN (k + 1) - 1 ELSE N - f]
  <2>1. t.frontier[f] = Widened(f, x)
    BY <1>10, <1>11
  <2>2. Widened(f, x) = [left  |-> IF x.left < f - 1 THEN x.left + 1 ELSE x.left,
                         right |-> IF x.right < N - f THEN x.right + 1 ELSE x.right]
    BY DEF Widened
  <2>3. /\ (IF x.left < f - 1 THEN x.left + 1 ELSE x.left)
             = (IF k + 1 <= f THEN (k + 1) - 1 ELSE f - 1)
        /\ (IF x.right < N - f THEN x.right + 1 ELSE x.right)
             = (IF k + 1 <= N - f THEN (k + 1) - 1 ELSE N - f)
    BY <1>1, <1>9
  <2> QED BY <2>1, <2>2, <2>3
<1>16. \A e \in Events : f - (k + 1) < e /\ e < f + (k + 1) => e \in t.candidates
  <2> SUFFICES ASSUME NEW e \in Events, f - (k + 1) < e, e < f + (k + 1) PROVE e \in t.candidates
    OBVIOUS
  <2>1. e \in Nat /\ 1 <= e /\ e <= N
    BY <1>1 DEF Events
  <2>2. CASE f - k < e /\ e < f + k
    BY <1>9, <1>10, <2>2
  <2>3. CASE e = f - k
    <3>1. x.left = k - 1 /\ k - 1 < f - 1 /\ f - (k - 1) - 1 = e
      BY <1>1, <1>9, <2>1, <2>3
    <3>2. e \in Neighbors(f, x)
      BY <3>1 DEF Neighbors
    <3> QED BY <1>10, <3>2
  <2>4. CASE e = f + k
    <3>1. x.right = k - 1 /\ k - 1 < N - f /\ f + (k - 1) + 1 = e
      BY <1>1, <1>9, <2>1, <2>4
    <3>2. e \in Neighbors(f, x)
      BY <3>1 DEF Neighbors
    <3> QED BY <1>10, <3>2
  <2> QED BY <1>1, <2>1, <2>2, <2>3, <2>4
<1>17. CASE t.candidates # Events
  <2>1. Discovers(t, f, k + 1)
    BY <1>11, <1>12, <1>13, <1>14, <1>15, <1>16, <1>17 DEF Discovers, C
  <2> QED BY <1>3, <1>4, <2>1 DEF m, a, t
<1>18. CASE t.candidates = Events
  <2>1. Acquired(t, KindOf(p)) = {}
    <3>1. \A e : Action(KindOf(p), e) # Search /\ Action(KindOf(p), e).kind # "context"
      BY DEF Action, Search, KindOf
    <3> QED BY <1>13, <3>1 DEF Acquired
  <2>2. Cardinality({}) = 0
    BY FS_EmptySet
  <2>3. Stop \notin t.taken
    BY <1>13 DEF Stop, Search, Action
  <2>4. t.budget >= (N - 0) * Price
    <3>1. (N - (k + 1)) * C >= 0 /\ (N - (k + 1)) * C \in Int
      <4>1. N - (k + 1) \in Nat
        BY <1>1
      <4> QED BY <1>8, <4>1
    <3>2. (N - 0) * Price = N * Price /\ N * Price \in Int
      BY <1>1, <1>8
    <3> QED BY <1>14, <3>1, <3>2
  <2>5. k + 1 <= N + 0
    BY <1>1
  <2>6. Acquires(t, p, k + 1)
    BY <1>12, <1>14, <1>18, <2>1, <2>2, <2>3, <2>4, <2>5 DEF Acquires
  <2> QED BY <1>3, <1>4, <2>6 DEF m, a, t
<1> QED BY <1>17, <1>18

\* A set of events does not outgrow them.
LEMMA AcquiredEvents ==
  ASSUME NEW s, NEW kind
  PROVE  LET A == Acquired(s, kind)
         IN /\ IsFiniteSet(A) /\ Cardinality(A) \in Nat /\ Cardinality(A) <= N
            /\ A # Events => Cardinality(A) < N
<1> DEFINE A == Acquired(s, kind)
<1>1. IsFiniteSet(Events) /\ Cardinality(Events) = N
  BY EnvAssumption, FS_Interval, 1 \in Int, N \in Int DEF Events
<1>2. A \subseteq Events
  BY DEF Acquired
<1> HIDE DEF A
<1>3. IsFiniteSet(A) /\ Cardinality(A) <= Cardinality(Events)
      /\ (Cardinality(A) = Cardinality(Events) => A = Events)
  BY <1>1, <1>2, FS_Subset
<1>4. Cardinality(A) \in Nat
  BY <1>3, FS_CardinalityType
<1> QED BY <1>1, <1>3, <1>4, EnvAssumption DEF A

\* Once all events are known, the next one not acquired is acquired.
LEMMA FixedAcquires ==
  ASSUME NEW w, NEW p \in FixedLong, NEW k \in Nat, NEW n, IsNode(n), N >= 1,
         Acquires(n.state, p, k), Acquired(n.state, KindOf(p)) # Events
  PROVE  LET a == Select(w, p, n)
         IN /\ a \in Actions /\ a # Stop
            /\ IsNode(Extend(w, n, a)) /\ Acquires(Extend(w, n, a).state, p, k + 1)
<1> DEFINE s == n.state
           kind == KindOf(p)
           level == LevelOf(p)
           A == Acquired(s, kind)
           L == Legal(n, kind)
           a == Select(w, p, n)
           m == Extend(w, n, a)
           t == m.state
<1>1. N \in Nat /\ 1 \in Events
  BY EnvAssumption DEF Events
<1>2. kind \in {"residual", "low"} /\ kind \in Kinds /\ level \in {RESIDUAL, VISUAL}
  BY DEF KindOf, LevelOf, Kinds, Visual
<1>3. /\ s.candidates = Events /\ Stop \notin s.taken
      /\ \A e \in Events : s.level[e] = IF e \in A THEN level ELSE GIST
      /\ k <= N + Cardinality(A)
      /\ s.budget \in Int /\ s.budget >= (N - Cardinality(A)) * Price
  BY DEF Acquires
<1>4. Cardinality(A) \in Nat /\ Cardinality(A) < N /\ IsFiniteSet(A)
  BY AcquiredEvents
<1>5. /\ Price \in Nat
      /\ \A e : Upper(Action(kind, e)) \in Nat /\ Upper(Action(kind, e)) <= Price
  BY <1>2, Prices
<1>6. \A e : Raised(Action(kind, e), GIST) = level
  BY DEF Raised, Action, KindOf, LevelOf, Visual, GIST, RESIDUAL, VISUAL
<1>7. ~Terminal(s) /\ s.candidates # {}
  BY <1>1, <1>3 DEF Terminal
<1> HIDE DEF kind, level
<1> DEFINE i == N - Cardinality(A)
<1>8. i \in Int /\ i >= 1 /\ i - 1 = N - (Cardinality(A) + 1)
  BY <1>1, <1>4
<1>9. s.budget >= i * Price
  BY <1>3
<1> HIDE DEF i
<1>10. /\ i * Price \in Int /\ (i - 1) * Price \in Int
       /\ i * Price - Price = (i - 1) * Price /\ i * Price >= Price
  BY <1>5, <1>8, Rest
<1>11. L # {}
  <2>1. PICK e \in Events : e \notin A
    BY DEF Acquired, kind
  <2> DEFINE b == Action(kind, e)
  <2>2. /\ b \in Actions \ {Search, Stop} /\ b.event = e /\ b.kind = kind /\ kind # "context"
        /\ b \notin s.taken
    BY <1>2, <2>1 DEF Actions, Action, Search, Stop, Acquired
  <2>3. Upper(b) \in Nat /\ Upper(b) <= Price
    BY <1>5
  <2> HIDE DEF b, s
  <2>4. Affordable(s, b)
    BY <1>3, <1>5, <1>9, <1>10, <2>3 DEF Affordable
  <2>5. b \in ValidActions(s)
    BY <1>3, <1>7, <2>1, <2>2, <2>4 DEF ValidActions, Available, Seen
  <2> QED BY <2>2, <2>5 DEF Legal, s
<1>12. a \in L
  <2>1. Search \notin ValidActions(s)
    <3>1. Search # Stop
      BY DEF Search, Stop, Action
    <3> QED BY <1>7, <3>1 DEF ValidActions
  <2>2. a = Foremost(InTime, L)
    <3>1. a = CoversAll(n, kind)
      BY FixedSelects DEF kind
    <3> HIDE DEF a
    <3> QED BY <1>3, <1>11, <2>1, <3>1 DEF CoversAll
  <2> HIDE DEF a, L
  <2> QED BY <1>11, <2>2, ForemostIsOneOfThem
<1>13. PICK e \in Events : a = Action(kind, e) /\ e \notin A
  <2>1. a \in ValidActions(s) /\ a.kind = kind
    BY <1>12 DEF Legal
  <2> HIDE DEF a, s
  <2>2. a \in Actions
    BY <2>1, OfferedActions
  <2>3. PICK e \in Events : a = Action(kind, e)
    BY <1>2, <2>1, <2>2 DEF Actions, Action, Search, Stop
  <2>4. a # Stop /\ a.kind # "context"
    BY <1>2, <2>3 DEF Action, Stop
  <2>5. a \notin s.taken
    BY <1>7, <2>1, <2>4 DEF ValidActions, Available, Seen
  <2> QED BY <2>3, <2>5 DEF Acquired
<1>14. /\ a \in Actions /\ a # Stop /\ a # Search /\ a.event = e
       /\ a.kind # "search" /\ a.kind # "context"
  BY <1>2, <1>13 DEF Actions, Action, Stop, Search
<1> HIDE DEF a
<1>15. IsNode(m)
  BY <1>14, ExtendedNodes
<1>16. Follows(w, n, a, m)
  BY ExtendedStates
<1> HIDE DEF m
<1>17. KnownAfter(w, s, a) = s.candidates
  BY <1>14 DEF KnownAfter, Found
<1>18. /\ t.candidates = Events
       /\ t.taken = s.taken \cup {a}
       /\ t.budget = s.budget - Upper(a)
       /\ \A d \in Events : t.level[d] = IF d = e THEN Raised(a, s.level[d]) ELSE s.level[d]
  BY <1>3, <1>14, <1>16, <1>17 DEF Follows
<1> HIDE DEF t
<1>19. Acquired(t, kind) = A \cup {e}
  <2>1. \A d : Action(kind, d) = a <=> d = e
    BY <1>13 DEF Action
  <2> QED BY <1>13, <1>18, <2>1 DEF Acquired
<1>20. Cardinality(A \cup {e}) = Cardinality(A) + 1
  BY <1>4, <1>13, FS_AddElement
<1>21. t.budget \in Int /\ t.budget >= (N - (Cardinality(A) + 1)) * Price
  <2>1. Upper(a) \in Nat /\ Upper(a) <= Price
    BY <1>5, <1>13
  <2>2. t.budget \in Int /\ t.budget >= (i - 1) * Price
    BY <1>3, <1>5, <1>9, <1>10, <1>18, <2>1
  <2> QED BY <1>8, <2>2
<1>22. \A d \in Events : t.level[d] = IF d \in A \cup {e} THEN level ELSE GIST
  BY <1>3, <1>6, <1>13, <1>18
<1>23. k + 1 <= N + (Cardinality(A) + 1)
  BY <1>1, <1>3, <1>4
<1>24. Stop \notin t.taken
  BY <1>3, <1>14, <1>18
<1> HIDE DEF A
<1>25. Acquires(t, p, k + 1)
  BY <1>18, <1>19, <1>20, <1>21, <1>22, <1>23, <1>24 DEF Acquires, kind, level
<1> QED BY <1>14, <1>15, <1>25 DEF t, m, a

\* Once all are acquired, the policy stops.
Finished(p, t) ==
    Terminal(t) /\ t.candidates = Events /\ \A e \in Events : t.level[e] = LevelOf(p)

LEMMA FixedStops ==
  ASSUME NEW w, NEW p \in FixedLong, NEW k \in Nat, NEW n, IsNode(n), N >= 1,
         Acquires(n.state, p, k), Acquired(n.state, KindOf(p)) = Events
  PROVE  Select(w, p, n) = Stop /\ Finished(p, Extend(w, n, Stop).state)
<1> DEFINE s == n.state
           kind == KindOf(p)
           m == Extend(w, n, Stop)
<1>1. N \in Nat /\ 1 \in Events
  BY EnvAssumption DEF Events
<1>2. kind \in {"residual", "low"}
  BY DEF KindOf
<1>3. /\ s.candidates = Events /\ Stop \notin s.taken
      /\ \A e \in Events : s.level[e] = LevelOf(p)
  BY DEF Acquires
<1>4. ~Terminal(s) /\ s.candidates # {}
  BY <1>1, <1>3 DEF Terminal
<1>5. Legal(n, kind) = {}
  <2> SUFFICES ASSUME NEW b \in ValidActions(s), b.kind = kind PROVE FALSE
    BY DEF Legal
  <2>1. b \in Actions
    BY OfferedActions
  <2>2. PICK e \in Events : b = Action(kind, e)
    BY <1>2, <2>1 DEF Actions, Action, Search, Stop
  <2>3. b # Stop /\ b.kind # "context"
    BY <1>2, <2>2 DEF Action, Stop
  <2>4. b \notin s.taken
    BY <1>4, <2>3 DEF ValidActions, Available, Seen
  <2> QED BY <2>2, <2>4 DEF Acquired
<1>6. Select(w, p, n) = Stop
  <2>1. Search \notin ValidActions(s)
    <3>1. Search # Stop
      BY DEF Search, Stop, Action
    <3> QED BY <1>4, <3>1 DEF ValidActions
  <2>2. Select(w, p, n) = CoversAll(n, kind)
    BY FixedSelects
  <2> QED BY <1>3, <1>5, <2>1, <2>2 DEF CoversAll
<1>7. Terminal(m.state)
  BY StoppingIsTerminal
<1>8. Follows(w, n, Stop, m)
  BY ExtendedStates
<1>9. KnownAfter(w, s, Stop) = s.candidates
  BY DEF KnownAfter, Found, Stop, Action
<1>10. \A l : Raised(Stop, l) = l
  BY DEF Raised, Stop, Action, Visual
<1> HIDE DEF m
<1>11. m.state.candidates = Events /\ \A e \in Events : m.state.level[e] = LevelOf(p)
  BY <1>3, <1>8, <1>9, <1>10 DEF Follows
<1> QED BY <1>6, <1>7, <1>11 DEF m, Finished

Listed(q) == \E S : q \in Seq(S)

\* Where such a trajectory is after k steps.
Underway(w, p, f, k, nodes) ==
    /\ Listed(nodes) /\ Len(nodes) > 0
    /\ LET n == nodes[Len(nodes)]
       IN IF Terminal(n.state) THEN CoversTheVideo(w, p, nodes)
          ELSE IsNode(n) /\ ((Ordered(n, f) /\ Discovers(n.state, f, k)) \/ Acquires(n.state, p, k))

GoesOnWith(n, m, next) ==
    Listed(next) /\ Len(next) > 0 /\ next[Len(next)] = m /\ next[Len(next) - 1] = n

LEMMA AppendedNodes ==
  ASSUME NEW nodes, Listed(nodes), Len(nodes) > 0, NEW m
  PROVE  GoesOnWith(nodes[Len(nodes)], m, Append(nodes, m))
<1> DEFINE next == Append(nodes, m)
<1>1. PICK S : nodes \in Seq(S)
  BY DEF Listed
<1>2. /\ next \in Seq(S \cup {m}) /\ Len(next) = Len(nodes) + 1 /\ next[Len(nodes) + 1] = m
      /\ Len(nodes) \in Nat /\ \A i \in 1..Len(nodes) : next[i] = nodes[i]
  BY <1>1
<1> HIDE DEF next
<1>3. next[Len(nodes)] = nodes[Len(nodes)] /\ Len(next) - 1 = Len(nodes)
  BY <1>2
<1>4. Listed(next)
  BY <1>2 DEF Listed
<1>5. Len(next) > 0 /\ next[Len(next)] = m
  BY <1>2
<1>6. next[Len(next) - 1] = nodes[Len(nodes)]
  BY <1>3
<1> QED BY <1>4, <1>5, <1>6 DEF GoesOnWith, next

LEMMA FixedGoesOn ==
  ASSUME NEW w, w.found \in Seq(Events), NEW p \in FixedLong, NEW f \in Events,
         NEW k \in Nat \ {0}, NEW horizon, k + 1 # horizon,
         NEW nodes, Underway(w, p, f, k, nodes)
  PROVE  Underway(w, p, f, k + 1, TrajectoryNext(w, p, horizon, nodes, k + 1))
<1> DEFINE n == nodes[Len(nodes)]
           a == Select(w, p, n)
           m == Extend(w, n, a)
           next == Append(nodes, m)
           result == TrajectoryNext(w, p, horizon, nodes, k + 1)
<1>1. N \in Nat /\ N >= 1
  BY EnvAssumption DEF Events
<1>2. Listed(nodes) /\ Len(nodes) > 0
  BY DEF Underway
<1>3. Last(nodes) = n
  BY DEF Last
<1>4. CASE Terminal(n.state)
  <2>1. result = nodes
    <3> HIDE DEF n
    <3> QED BY <1>3, <1>4 DEF TrajectoryNext
  <2>2. Underway(w, p, f, k + 1, nodes)
    BY <1>4 DEF Underway
  <2> HIDE DEF result
  <2> QED BY <2>1, <2>2 DEF result
<1>5. CASE ~Terminal(n.state)
  <2>1. result = next
    <3> HIDE DEF n
    <3> QED BY <1>3, <1>5 DEF TrajectoryNext
  <2>2. IsNode(n) /\ ((Ordered(n, f) /\ Discovers(n.state, f, k)) \/ Acquires(n.state, p, k))
    BY <1>5 DEF Underway
  <2>3. /\ Listed(next)
        /\ Len(next) > 0 /\ next[Len(next)] = m /\ next[Len(next) - 1] = n
    <3>1. GoesOnWith(n, m, next)
      BY <1>2, AppendedNodes
    <3> HIDE DEF next, m, n
    <3> QED BY <3>1 DEF GoesOnWith
  <2>4. CASE Ordered(n, f) /\ Discovers(n.state, f, k)
    <3>1. k < N /\ a = Action("context", f)
      BY <2>2, <2>4, FixedDiscovers
    <3>2. /\ IsNode(m) /\ Ordered(m, f)
          /\ Discovers(m.state, f, k + 1) \/ Acquires(m.state, p, k + 1)
      <4> HIDE DEF a, n
      <4> QED BY <2>2, <2>4, <3>1, FixedFinds
    <3>3. ~Terminal(m.state)
      <4>1. Stop # a
        BY <3>1 DEF Stop, Action
      <4> HIDE DEF a, n
      <4> QED BY <1>5, <2>2, <4>1, StoppingIsTerminal
    <3> HIDE DEF next, m, result
    <3>4. Underway(w, p, f, k + 1, next)
      BY <2>3, <3>2, <3>3 DEF Underway
    <3> QED BY <2>1, <3>4 DEF result
  <2>5. CASE Acquires(n.state, p, k) /\ Acquired(n.state, KindOf(p)) # Events
    <3>1. a \in Actions /\ a # Stop /\ IsNode(m) /\ Acquires(m.state, p, k + 1)
      <4> HIDE DEF n
      <4> QED BY <1>1, <2>2, <2>5, FixedAcquires
    <3>2. ~Terminal(m.state)
      <4> HIDE DEF a, n
      <4> QED BY <1>5, <2>2, <3>1, StoppingIsTerminal
    <3> HIDE DEF next, m, result
    <3>3. Underway(w, p, f, k + 1, next)
      BY <2>3, <3>1, <3>2 DEF Underway
    <3> QED BY <2>1, <3>3 DEF result
  <2>6. CASE Acquires(n.state, p, k) /\ Acquired(n.state, KindOf(p)) = Events
    <3>1. a = Stop /\ Finished(p, Extend(w, n, Stop).state)
      <4> HIDE DEF n
      <4> QED BY <1>1, <2>2, <2>6, FixedStops
    <3>2. m = Extend(w, n, Stop)
      BY <3>1
    <3> HIDE DEF m, n, next, result
    <3>3. CoversTheVideo(w, p, next)
      BY <2>3, <3>1, <3>2 DEF CoversTheVideo, Finished, LevelOf, a
    <3>4. Underway(w, p, f, k + 1, next)
      BY <2>3, <3>1, <3>2, <3>3 DEF Underway, Finished
    <3> QED BY <2>1, <3>4 DEF result
  <2> QED BY <2>2, <2>4, <2>5, <2>6
<1> QED BY <1>4, <1>5

LEMMA FixedCovers ==
  ASSUME NEW w \in Worlds, w.found # <<>>, NEW p \in FixedLong
  PROVE  CoversTheVideo(w, p, Trajectory(w, p, Ample, Horizon(p)))
<1> DEFINE horizon == 2 * N + 2
           f == w.found[1]
           n == Root(Ample)
           m == Extend(w, n, Search)
<1>1. Horizon(p) = horizon
  BY DEF Horizon
<1>2. w.found \in Seq(Events)
  BY CollectionAssumption
<1>3. N \in Nat /\ horizon \in Nat
  BY EnvAssumption
<1>4. PICK g : /\ TrajectorySteps(w, p, Ample, horizon, horizon, g)
               /\ Trajectory(w, p, Ample, horizon) = g[horizon]
  <2> HIDE DEF horizon
  <2> QED BY <1>3, TrajectoriesHaveSteps
<1>5. /\ g[0] = <<n>>
      /\ \A k \in 1..horizon : g[k] = TrajectoryNext(w, p, horizon, g[k - 1], k)
  <2> HIDE DEF horizon
  <2> QED BY <1>3, <1>4 DEF TrajectorySteps
<1>6. /\ f \in Events /\ Select(w, p, n) = Search
      /\ IsNode(m) /\ Ordered(m, f)
      /\ Discovers(m.state, f, 1) \/ Acquires(m.state, p, 1)
  BY <1>2, FixedSearch
<1>7. N >= 1
  BY <1>3, <1>6 DEF Events
<1>8. Underway(w, p, f, 1, g[1])
  <2> DEFINE T == <<n>>
             next == Append(T, m)
  <2>1. IsNode(n) /\ ~Terminal(n.state)
    BY RootsAreNodes
  <2>2. ~Terminal(m.state)
    <3>1. Search # Stop
      BY DEF Search, Stop, Action
    <3> HIDE DEF n
    <3> QED BY <2>1, <3>1, StoppingIsTerminal
  <2> HIDE DEF n
  <2>3. Listed(T) /\ Len(T) = 1 /\ T[1] = n
    <3>1. T \in Seq({n})
      OBVIOUS
    <3> QED BY <3>1 DEF Listed
  <2>4. g[1] = TrajectoryNext(w, p, horizon, T, 1)
    BY <1>3, <1>5
  <2> HIDE DEF T
  <2>5. Last(T) = n
    BY <2>3 DEF Last
  <2>6. 1 # horizon
    BY <1>3
  <2> HIDE DEF horizon
  <2>7. g[1] = next
    BY <1>6, <2>1, <2>4, <2>5, <2>6 DEF TrajectoryNext, n
  <2>8. Listed(next) /\ Len(next) > 0 /\ next[Len(next)] = m
    <3>1. GoesOnWith(T[Len(T)], m, next)
      BY <2>3, AppendedNodes
    <3> HIDE DEF next, m
    <3> QED BY <3>1 DEF GoesOnWith
  <2> HIDE DEF next, m
  <2>9. Underway(w, p, f, 1, next)
    BY <1>6, <2>2, <2>8 DEF Underway, m, n
  <2> QED BY <2>7, <2>9
<1> HIDE DEF f, n, m
<1> DEFINE last == 2 * N + 1
           P(k) == Underway(w, p, f, k, g[k])
           Bad == {k \in 1..last : ~P(k)}
<1>9. ASSUME NEW k \in 1..last, k # 1, P(k - 1) PROVE P(k)
  <2>1. k \in 1..horizon /\ k # horizon /\ k - 1 \in Nat \ {0} /\ (k - 1) + 1 = k
    BY <1>3, <1>9
  <2>2. g[k] = TrajectoryNext(w, p, horizon, g[k - 1], k)
    BY <1>5, <2>1
  <2> DEFINE j == k - 1
  <2>3. j \in Nat \ {0} /\ j + 1 = k /\ j + 1 # horizon /\ Underway(w, p, f, j, g[j])
    BY <1>9, <2>1
  <2> HIDE DEF j, horizon
  <2>4. Underway(w, p, f, j + 1, TrajectoryNext(w, p, horizon, g[j], j + 1))
    BY <1>2, <1>6, <2>3, FixedGoesOn
  <2> QED BY <2>2, <2>3, <2>4 DEF j
<1>10. P(last)
  <2> HIDE DEF P
  <2>1. ASSUME Bad # {} PROVE FALSE
    <3>1. PICK k \in Bad : \A j \in Bad : k <= j
      <4>1. Bad \in SUBSET Nat
        BY <1>3
      <4> HIDE DEF Bad
      <4> QED BY <2>1, <4>1, LeastOfNumbers
    <3>2. k # 1
      BY <1>8, <3>1 DEF P
    <3>3. k \in 1..last /\ k - 1 \in 1..last /\ k - 1 \notin Bad
      BY <1>3, <3>1, <3>2
    <3>4. P(k - 1)
      BY <3>3
    <3> QED BY <1>9, <3>1, <3>2, <3>3, <3>4
  <2>2. last \in 1..last
    BY <1>3
  <2> HIDE DEF last
  <2> QED BY <2>1, <2>2
<1> DEFINE nodes == g[last]
           d == nodes[Len(nodes)]
<1>11. Terminal(d.state)
  <2>1. ASSUME Discovers(d.state, f, last), IsNode(d), Ordered(d, f) PROVE FALSE
    <3>1. last \in Nat \ {0}
      BY <1>3
    <3> HIDE DEF d, last
    <3>2. last < N
      BY <1>6, <2>1, <3>1, FixedDiscovers
    <3> QED BY <1>3, <3>2 DEF last
  <2>2. ASSUME Acquires(d.state, p, last) PROVE FALSE
    <3> DEFINE A == Acquired(d.state, KindOf(p))
    <3>1. Cardinality(A) \in Nat /\ Cardinality(A) <= N
      BY AcquiredEvents
    <3>2. last <= N + Cardinality(A)
      BY <2>2 DEF Acquires
    <3> HIDE DEF A
    <3> QED BY <1>3, <3>1, <3>2
  <2> QED BY <1>10, <2>1, <2>2 DEF Underway
<1>12. CoversTheVideo(w, p, nodes)
  BY <1>10, <1>11 DEF Underway
<1>13. g[horizon] = nodes
  <2>1. horizon \in 1..horizon /\ horizon - 1 = last
    BY <1>3
  <2>2. g[horizon] = TrajectoryNext(w, p, horizon, g[horizon - 1], horizon)
    BY <1>5, <2>1
  <2>3. Last(nodes) = d
    BY DEF Last
  <2> HIDE DEF horizon, last, d
  <2> QED BY <1>11, <2>1, <2>2, <2>3 DEF TrajectoryNext
<1> HIDE DEF nodes, horizon
<1> QED BY <1>1, <1>4, <1>12, <1>13

\* In every evaluation the fixed policies have the steps to acquire all events at the
\* fidelity they are for, and every error of every policy has a cause that explains it.
THEOREM EvaluationStaysSound == DeviationSpec => []EvaluationIsSound
<1>1. DeviationIInv => EvaluationIsSound
  <2> SUFFICES ASSUME DeviationIInv PROVE EvaluationIsSound
    OBVIOUS
  <2>1. world \in Worlds
    BY DEF DeviationIInv
  <2>2. Covering[world]
    BY <2>1, FixedCovers DEF Covering
  <2>3. Attribution[world]
    BY <2>1, ErrorsOfAWorld
  <2> QED BY <2>2, <2>3 DEF EvaluationIsSound, FixedPoliciesCoverTheVideo, ErrorsAreAttributed
<1> QED BY <1>1, DeviationInvariance, PTL

-----------------------------------------------------------------------------
\* Episodes.

USE EnvAssumption, BudgetAssumption

\* The observations an executor returns, complete or not.
Answers == [bare : BOOLEAN, meta : BOOLEAN, hit : BOOLEAN, candidates : SUBSET Events,
            items : SUBSET Evidence, frontier : Frontiers]

LEMMA ActionKinds ==
  ASSUME NEW a \in Actions
  PROVE  \/ a = Search /\ a.kind = "search" /\ a # Stop
         \/ a = Stop /\ a.kind = "stop" /\ a # Search
         \/ a.kind \in Kinds /\ a.event \in Events /\ a # Stop /\ a # Search
  BY DEF Actions, Action, Search, Stop, Kinds, Visual

\* Only events that are candidates, with a ring left to expand, are acted upon.
LEMMA LegalActions ==
  ASSUME NEW a \in ValidActions(st)
  PROVE  /\ a \in Actions
         /\ a.kind \in Kinds => a.event \in st.candidates
  BY DEF ValidActions, Actions, Action, Search, Stop, Kinds, Visual

LEMMA FrontierFields ==
  ASSUME TypeOK, NEW e \in st.candidates
  PROVE  /\ e \in Events /\ e \in 1..N
         /\ st.frontier[e].left \in 0..N /\ st.frontier[e].right \in 0..N
         /\ st.frontier[e] \in Frontiers
         /\ st.level[e] \in Levels
  BY DEF TypeOK, Events, Frontiers

LEMMA RingsAreEvents ==
  ASSUME NEW e \in Events, NEW f \in Frontiers
  PROVE  Neighbors(e, f) \subseteq Events
  BY DEF Neighbors, Events, Frontiers

LEMMA ItemsAreEvidence ==
  ASSUME TypeOK, NEW a \in ValidActions(st), NEW I \in ItemSets(st, a)
  PROVE  I \subseteq Evidence
<1>1. a \in Actions /\ (a.kind \in Kinds => a.event \in st.candidates)
  BY LegalActions
<1>2. GIST \in Levels
  BY DEF Levels
<1>3. CASE a.kind = "search"
  <2> DEFINE lists == {[event : D, level : {GIST}] : D \in SUBSET Events}
  <2>1. ASSUME NEW D \in SUBSET Events PROVE [event : D, level : {GIST}] \subseteq Evidence
    <3>1. \A x \in [event : D, level : {GIST}] : x \in [event : Events, level : Levels]
      BY <1>2
    <3> QED BY <3>1 DEF Evidence
  <2>2. ItemSets(st, a) = {{}} \cup {{x} : x \in Evidence} \cup lists
    BY <1>3 DEF ItemSets
  <2>3. \A J \in lists : J \subseteq Evidence
    BY <2>1
  <2> HIDE DEF lists
  <2> QED BY <2>2, <2>3
<1>4. CASE a.kind = "context"
  <2>1. a.event \in st.candidates
    BY <1>1, <1>4 DEF Kinds
  <2>2. Neighbors(a.event, st.frontier[a.event]) \subseteq Events
    BY <2>1, FrontierFields, RingsAreEvents
  <2> QED BY <1>4, <2>2 DEF ItemSets, Evidence
<1>5. CASE a.kind \notin {"search", "context"}
  BY <1>5 DEF ItemSets, Evidence
<1> QED BY <1>3, <1>4, <1>5

LEMMA ObservationsAreAnswers ==
  ASSUME TypeOK, NEW a \in ValidActions(st), NEW y \in Observations(st, a)
  PROVE  y \in Answers
<1> DEFINE I == ItemSets(st, a)
           F == IF a.kind = "context" THEN {st.frontier[a.event]} ELSE {NoFrontier}
<1>1. a \in Actions /\ (a.kind \in Kinds => a.event \in st.candidates)
  BY LegalActions
<1>2. NoFrontier \in Frontiers
  BY DEF NoFrontier, Frontiers
<1>3. F \subseteq Frontiers
  BY <1>1, <1>2, FrontierFields DEF Kinds
<1>4. I \subseteq SUBSET Evidence
  BY ItemsAreEvidence
<1>5. /\ Bare(SUBSET Events, I) \subseteq Answers /\ Bare({{}}, I) \subseteq Answers
  BY <1>2, <1>4 DEF Bare, Answers
<1>6. ASSUME NEW C \in SUBSET SUBSET Events, NEW J \in SUBSET SUBSET Evidence,
             NEW G \in SUBSET Frontiers
      PROVE  Full(C, J, G) \subseteq Answers
  BY DEF Full, Answers
<1>7. {[o EXCEPT !.meta = FALSE] : o \in Full({{}}, {{}}, F)} \subseteq Answers
  <2>1. Full({{}}, {{}}, F) \subseteq Answers
    BY <1>3, <1>6
  <2> QED BY <2>1 DEF Answers
<1>8. NoObservation \in Answers
  BY <1>2 DEF NoObservation, Answers
<1>9. /\ Full(SUBSET Events, I, F) \subseteq Answers /\ Full({{}}, I, F) \subseteq Answers
      /\ Full({Events}, {{}}, F) \subseteq Answers
      /\ Full({{}}, {{}}, Frontiers) \subseteq Answers
  BY <1>3, <1>4, <1>6
<1>10. CASE a = Stop
  <2>1. a # Search
    BY <1>10 DEF Search, Stop, Action
  <2>2. Observations(st, a) = {NoObservation}
    BY <1>10, <2>1 DEF Observations
  <2> QED BY <1>8, <2>2
<1>11. CASE a = Search
  <2>1. a # Stop
    BY <1>11 DEF Search, Stop, Action
  <2> QED BY <1>5, <1>9, <1>11, <2>1 DEF Observations
<1>12. CASE a # Stop /\ a # Search
  <2> DEFINE all == {Bare({{}}, I), Full({{}}, I, F), Full({Events}, {{}}, F),
                     Full({{}}, {{}}, Frontiers),
                     {[o EXCEPT !.meta = FALSE] : o \in Full({{}}, {{}}, F)}}
  <2>1. Observations(st, a) = UNION all
    BY <1>12 DEF Observations
  <2>2. \A S \in all : S \subseteq Answers
    BY <1>5, <1>7, <1>9
  <2> QED BY <2>1, <2>2
<1> QED BY <1>10, <1>11, <1>12

\* What step goes on with: complete, and of the right type.
LEMMA CompletedAnswers ==
  ASSUME TypeOK, NEW a \in ValidActions(st), NEW y \in Observations(st, a)
  PROVE  /\ Complete(st, a, y) \in Answers
         /\ ~Complete(st, a, y).bare
<1>1. y \in Answers
  BY ObservationsAreAnswers
<1>2. a \in Actions /\ (a.kind \in Kinds => a.event \in st.candidates)
  BY LegalActions
<1>3. CASE ~y.bare
  BY <1>1, <1>3 DEF Complete
<1>4. CASE y.bare /\ a.kind # "context"
  BY <1>1, <1>4 DEF Complete, Answers
<1>5. CASE y.bare /\ a.kind = "context"
  <2> DEFINE ring == Neighbors(a.event, st.frontier[a.event])
             gists == {[event |-> e, level |-> GIST] : e \in ring}
  <2>1. a.event \in st.candidates
    BY <1>2, <1>5 DEF Kinds
  <2>2. st.frontier[a.event] \in Frontiers /\ ring \subseteq Events
    BY <2>1, FrontierFields, RingsAreEvents
  <2>3. gists \subseteq Evidence
    BY <2>2 DEF Evidence, Levels
  <2> QED BY <1>1, <1>5, <2>2, <2>3 DEF Complete, Answers
<1> QED BY <1>3, <1>4, <1>5

\* A legal action in a sound state, and the complete observation that was accepted.
Taken(a, o) == /\ AcquisitionIsSound
               /\ a \in ValidActions(st) /\ o \in Answers /\ Accepts(st, a, o)

LEMMA FoundAreEvents ==
  ASSUME NEW a, NEW o, Taken(a, o)
  PROVE  Found(st, a, o) \subseteq Events
<1>1. a \in Actions /\ (a.kind \in Kinds => a.event \in st.candidates)
  BY LegalActions DEF Taken
<1>2. CASE a.kind = "context"
  <2>1. a.event \in st.candidates
    BY <1>1, <1>2 DEF Kinds
  <2> QED BY <1>2, <2>1, FrontierFields, RingsAreEvents
       DEF Found, Taken, AcquisitionIsSound
<1>3. CASE a.kind = "search"
  BY <1>3 DEF Found, Taken, Answers
<1>4. CASE a.kind \notin {"search", "context"}
  BY <1>4 DEF Found
<1> QED BY <1>2, <1>3, <1>4

\* The fidelity of an event only grows, up to what the action shows.
LEMMA LevelsGrow ==
  ASSUME NEW a, NEW old \in Levels
  PROVE  /\ Raised(a, old) \in Levels /\ old <= Raised(a, old)
         /\ a.kind = "residual" => RESIDUAL <= Raised(a, old)
         /\ a.kind \in Visual => VISUAL = Raised(a, old)
<1>1. CASE a.kind = "residual"
  BY <1>1 DEF Raised, Levels, GIST, RESIDUAL, VISUAL, Visual
<1>2. CASE a.kind \in Visual
  BY <1>2 DEF Raised, Levels, GIST, RESIDUAL, VISUAL, Visual
<1>3. CASE a.kind # "residual" /\ a.kind \notin Visual
  BY <1>3 DEF Raised, Levels, GIST, RESIDUAL, VISUAL, Visual
<1> QED BY <1>1, <1>2, <1>3

\* A widened window is the old one with the ring around it.
LEMMA WindowsWiden ==
  ASSUME NEW e \in Events, NEW f \in Frontiers, f.left < e, e + f.right <= N
  PROVE  LET g == Widened(e, f)
         IN /\ g \in Frontiers /\ g.left < e /\ e + g.right <= N
            /\ (e - g.left) .. (e + g.right)
                 \subseteq ((e - f.left) .. (e + f.right)) \cup Neighbors(e, f)
<1>1. /\ e \in 1..N /\ f.left \in 0..N /\ f.right \in 0..N
  BY DEF Events, Frontiers
<1> QED BY <1>1 DEF Widened, Neighbors, Frontiers

\* What a step makes of the state, field by field.
Moved(a, o) ==
  /\ st'.candidates = st.candidates \cup Found(st, a, o)
  /\ st'.evidence = st.evidence \cup o.items
  /\ st'.taken = st.taken \cup {a}
  /\ st'.budget = st.budget - Charge(a, o)
  /\ st'.level = [e \in st'.candidates |->
       IF e \notin st.candidates THEN GIST
       ELSE IF e = a.event THEN Raised(a, st.level[e]) ELSE st.level[e]]
  /\ st'.frontier = [e \in st'.candidates |->
       IF e \notin st.candidates THEN NoFrontier
       ELSE IF e = a.event /\ a.kind = "context"
              THEN Widened(e, st.frontier[e]) ELSE st.frontier[e]]

LEMMA NextFields ==
  ASSUME NEW a, NEW o, st' = Reduce(st, a, o, Charge(a, o))
  PROVE  Moved(a, o)
  BY DEF Reduce, Moved

\* The types after a step; the budget is not overdrawn.
LEMMA StepTypeOK ==
  ASSUME NEW a, NEW o, Taken(a, o), Moved(a, o)
  PROVE  TypeOK'
<1> DEFINE t == st'
<1>1. TypeOK /\ WindowsAreKnown
  BY DEF Taken, AcquisitionIsSound
<1>2. a \in Actions /\ o \in Answers /\ Charge(a, o) <= st.budget
  BY LegalActions DEF Taken, Accepts, Paid
<1>3. t.candidates = st.candidates \cup Found(st, a, o) /\ t.candidates \subseteq Events
  BY <1>1, FoundAreEvents DEF Moved, TypeOK
<1>4. \A e \in t.candidates : t.level[e] \in Levels
  BY <1>1, <1>3, FrontierFields, LevelsGrow DEF Moved, Levels
<1>5. \A e \in t.candidates : t.frontier[e] \in Frontiers
  <2>1. NoFrontier \in Frontiers
    BY DEF NoFrontier, Frontiers
  <2>2. \A e \in st.candidates : Widened(e, st.frontier[e]) \in Frontiers
    BY <1>1, FrontierFields, WindowsWiden DEF WindowsAreKnown
  <2> QED BY <1>1, <1>3, <2>1, <2>2, FrontierFields DEF Moved
<1>6. t.level \in [t.candidates -> Levels] /\ t.frontier \in [t.candidates -> Frontiers]
  BY <1>4, <1>5 DEF Moved
<1>7. t.evidence \subseteq Evidence /\ t.taken \subseteq Actions
  BY <1>1, <1>2 DEF Moved, TypeOK, Answers
<1>8. t.budget \in 0..Budget
  <2>1. st.budget \in 0..Budget /\ Charge(a, o) \in Nat
    BY <1>1, CostsAreNumbers DEF TypeOK
  <2> QED BY <1>2, <2>1 DEF Moved
<1> QED BY <1>3, <1>6, <1>7, <1>8 DEF TypeOK

\* A window that grows has its new ring among the candidates.
LEMMA StepWindows ==
  ASSUME NEW a, NEW o, Taken(a, o), Moved(a, o)
  PROVE  WindowsAreKnown'
<1> DEFINE t == st'
<1>1. TypeOK /\ WindowsAreKnown
  BY DEF Taken, AcquisitionIsSound
<1>2. t.candidates = st.candidates \cup Found(st, a, o) /\ t.candidates \subseteq Events
  BY <1>1, FoundAreEvents DEF Moved, TypeOK
<1> SUFFICES ASSUME NEW e \in t.candidates
             PROVE  /\ t.frontier[e].left < e /\ e + t.frontier[e].right <= N
                    /\ e - t.frontier[e].left .. e + t.frontier[e].right \subseteq t.candidates
  BY DEF WindowsAreKnown
<1>3. e \in 1..N
  BY <1>2 DEF Events
<1>4. CASE e \notin st.candidates
  <2>1. t.frontier[e].left = 0 /\ t.frontier[e].right = 0
    BY <1>4 DEF Moved, NoFrontier
  <2>2. e - 0 .. e + 0 = {e}
    BY <1>3
  <2> QED BY <1>3, <2>1, <2>2
<1>5. CASE e \in st.candidates /\ e = a.event /\ a.kind = "context"
  <2>1. t.frontier[e] = Widened(e, st.frontier[e])
    BY <1>5 DEF Moved
  <2>2. Neighbors(e, st.frontier[e]) \subseteq t.candidates
    BY <1>2, <1>5 DEF Found
  <2>3. /\ st.frontier[e].left < e /\ e + st.frontier[e].right <= N
        /\ e - st.frontier[e].left .. e + st.frontier[e].right \subseteq t.candidates
    BY <1>1, <1>2, <1>5 DEF WindowsAreKnown
  <2> QED BY <1>1, <1>5, <2>1, <2>2, <2>3, FrontierFields, WindowsWiden
<1>6. CASE e \in st.candidates /\ ~(e = a.event /\ a.kind = "context")
  <2>1. t.frontier[e] = st.frontier[e]
    BY <1>6 DEF Moved
  <2> QED BY <1>1, <1>2, <1>6, <2>1 DEF WindowsAreKnown
<1> QED BY <1>4, <1>5, <1>6

\* What an accepted observation shows is within what the action acquires, or, of a
\* neighbour, within what was acquired before.
LEMMA NewEvidence ==
  ASSUME NEW a, NEW o, Taken(a, o), Moved(a, o), NEW x \in o.items
  PROVE  x.event \in st'.candidates /\ x.level <= st'.level[x.event]
<1> DEFINE t == st'
<1>1. /\ TypeOK /\ Valid(st, a, o) /\ x \in Evidence
      /\ a \in Actions /\ (a.kind \in Kinds => a.event \in st.candidates)
  BY LegalActions DEF Taken, AcquisitionIsSound, Accepts, Answers
<1>2. /\ x.event \in Events /\ x.level \in Levels
      /\ \A e \in t.candidates : t.level[e] \in Levels
      /\ t.candidates = st.candidates \cup Found(st, a, o)
      /\ Levels \subseteq Nat /\ \A l \in Levels : GIST <= l
  BY <1>1, StepTypeOK DEF Moved, TypeOK, Evidence, Levels, GIST, RESIDUAL, VISUAL
<1>3. CASE a.kind = "search"
  <2>1. x.event \in o.candidates /\ x.level = GIST
    BY <1>1, <1>3 DEF Valid, Visual
  <2>2. x.event \in t.candidates
    BY <1>2, <1>3, <2>1 DEF Found
  <2> QED BY <1>2, <2>1, <2>2
<1>4. CASE a.kind \in {"residual", "low", "high"}
  <2>1. a.event \in st.candidates /\ st.level[a.event] \in Levels
    BY <1>1, <1>4, FrontierFields DEF Kinds, Visual
  <2>2. t.level[a.event] = Raised(a, st.level[a.event])
    BY <1>2, <2>1 DEF Moved
  <2>3. CASE a.kind = "residual"
    <3>1. x.event = a.event /\ x.level = RESIDUAL
      BY <1>1, <2>3 DEF Valid, Visual
    <3> QED BY <1>2, <2>1, <2>2, <2>3, <3>1, LevelsGrow
  <2>4. CASE a.kind \in Visual
    <3>1. x.event = a.event /\ x.level = VISUAL
      BY <1>1, <2>4 DEF Valid, Visual
    <3>2. t.level[a.event] = VISUAL
      BY <2>1, <2>2, <2>4, LevelsGrow
    <3> QED BY <1>2, <2>1, <3>1, <3>2 DEF VISUAL
  <2> QED BY <1>4, <2>3, <2>4 DEF Visual
<1>5. CASE a.kind = "context"
  <2>1. /\ {y.event : y \in o.items} = Neighbors(a.event, st.frontier[a.event])
        /\ ~Leaks(st, x)
    BY <1>1, <1>5 DEF Valid, Visual
  <2>2. x.event \in t.candidates
    BY <1>2, <1>5, <2>1 DEF Found
  <2>3. CASE x.level = GIST
    BY <1>2, <2>2, <2>3
  <2>4. CASE x.level # GIST
    <3>1. /\ x.level = RESIDUAL /\ x.event \in st.candidates
          /\ st.level[x.event] \in {RESIDUAL, VISUAL}
      BY <2>1, <2>4 DEF Leaks
    <3>2. t.level[x.event] = st.level[x.event]
      <4>1. x.event = a.event => Raised(a, st.level[x.event]) = st.level[x.event]
        BY <1>5 DEF Raised, Visual
      <4> QED BY <2>2, <3>1, <4>1 DEF Moved
    <3> QED BY <2>2, <3>1, <3>2 DEF RESIDUAL, VISUAL
  <2> QED BY <2>3, <2>4
<1>6. CASE a.kind = "stop"
  BY <1>1, <1>6 DEF Valid, Visual
<1> QED BY <1>1, <1>3, <1>4, <1>5, <1>6, ActionKinds DEF Kinds, Visual

LEMMA StepEvidence ==
  ASSUME NEW a, NEW o, Taken(a, o), Moved(a, o)
  PROVE  EvidenceWithinFidelity'
<1> DEFINE t == st'
<1>1. TypeOK /\ EvidenceWithinFidelity /\ TypeOK'
  BY StepTypeOK DEF Taken, AcquisitionIsSound
<1>2. ASSUME NEW x \in st.evidence
      PROVE  x.event \in t.candidates /\ x.level <= t.level[x.event]
  <2>1. /\ x.event \in st.candidates /\ x.level <= st.level[x.event]
        /\ st.level[x.event] \in Levels /\ x.level \in Levels
    BY <1>1, FrontierFields DEF EvidenceWithinFidelity, TypeOK, Evidence
  <2>2. x.event \in t.candidates
    BY <2>1 DEF Moved
  <2>3. t.level[x.event] \in Levels /\ st.level[x.event] <= t.level[x.event]
    <3>1. \/ t.level[x.event] = st.level[x.event]
          \/ t.level[x.event] = Raised(a, st.level[x.event])
      BY <2>1, <2>2 DEF Moved
    <3>2. st.level[x.event] <= st.level[x.event]
      BY <2>1 DEF Levels, GIST, RESIDUAL, VISUAL
    <3> QED BY <2>1, <3>1, <3>2, LevelsGrow
  <2> QED BY <2>1, <2>2, <2>3 DEF Levels, GIST, RESIDUAL, VISUAL
<1>3. \A x \in o.items : x.event \in t.candidates /\ x.level <= t.level[x.event]
  BY NewEvidence
<1> QED BY <1>2, <1>3 DEF EvidenceWithinFidelity, Moved

\* A step is the acceptance of a complete observation of a legal action.
LEMMA StepsAreTaken ==
  ASSUME AcquisitionIsSound, Next
  PROVE  \E a, o : Taken(a, o) /\ Moved(a, o)
<1>1. PICK a \in Actions : a \in ValidActions(st) /\ \E t \in Results(st, a) : st' = t.next
  BY DEF Next, Step
<1>2. PICK y \in Observations(st, a) :
        /\ Accepts(st, a, Complete(st, a, y))
        /\ st' = Transition(st, a, Complete(st, a, y)).next
  BY <1>1 DEF Results
<1> DEFINE o == Complete(st, a, y)
<1>3. Taken(a, o)
  BY <1>1, <1>2, CompletedAnswers DEF Taken, AcquisitionIsSound
<1>4. Moved(a, o)
  BY <1>2, NextFields DEF Transition
<1> QED BY <1>3, <1>4

LEMMA InitSound == Init => AcquisitionIsSound
<1> SUFFICES ASSUME Init PROVE AcquisitionIsSound
  OBVIOUS
<1>1. /\ st.candidates = {} /\ st.level = <<>> /\ st.frontier = <<>>
      /\ st.evidence = {} /\ st.taken = {} /\ st.budget = Budget
  BY DEF Init, Initial
<1>2. <<>> \in [{} -> Levels] /\ <<>> \in [{} -> Frontiers]
  OBVIOUS
<1> QED BY <1>1, <1>2
     DEF AcquisitionIsSound, TypeOK, WindowsAreKnown, EvidenceWithinFidelity

\* In every state of every episode the windows are known and contiguous, nothing is shown
\* above the fidelity that was acquired, and the budget is not overdrawn, for any number of
\* events, any costs (a hit may be dearer than a miss) and any executor
\* (environment.py:106-160, 191).
THEOREM AcquisitionStaysSound == Spec => []AcquisitionIsSound
<1>1. AcquisitionIsSound /\ [Next]_st => AcquisitionIsSound'
  <2> SUFFICES ASSUME AcquisitionIsSound, [Next]_st PROVE AcquisitionIsSound'
    OBVIOUS
  <2>1. CASE Next
    BY <2>1, StepsAreTaken, StepTypeOK, StepWindows, StepEvidence DEF AcquisitionIsSound
  <2>2. CASE UNCHANGED st
    BY <2>2 DEF AcquisitionIsSound, TypeOK, WindowsAreKnown, EvidenceWithinFidelity
  <2> QED BY <2>1, <2>2
<1> QED BY <1>1, InitSound, PTL DEF Spec

\* What step returned in a state of an episode, replay accepts and returns again, although
\* step completes a bare observation and replay does not (environment.py:163-189).
THEOREM StoredStepsReplay == Spec => []StepsReplay
<1>1. AcquisitionIsSound => StepsReplay
  <2> SUFFICES ASSUME AcquisitionIsSound, NEW a \in ValidActions(st), NEW t \in Results(st, a)
               PROVE  Replays(t)
    BY DEF StepsReplay
  <2>1. PICK y \in Observations(st, a) :
          /\ Accepts(st, a, Complete(st, a, y)) /\ t = Transition(st, a, Complete(st, a, y))
    BY DEF Results
  <2>2. ~Complete(st, a, y).bare
    BY CompletedAnswers DEF AcquisitionIsSound
  <2> QED BY <2>1, <2>2 DEF Replays, Transition
<1> QED BY <1>1, AcquisitionStaysSound, PTL
=============================================================================
