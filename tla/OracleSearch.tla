----------------------------- MODULE OracleSearch -----------------------------
(***************************************************************************)
(* The search for the best way to answer a question: the beam and the      *)
(* exhaustive search over cached observations (oracle/search.py) and the   *)
(* choice among the paths they complete (oracle/labels.py).                *)
(*                                                                         *)
(* The executor behind the cache is a function, so a path of actions from  *)
(* the initial state stands for the state it leads to, and the key of a    *)
(* cached observation is the path that ends with its action.  A world is a *)
(* question: what its search finds, in that order, what evidence supports  *)
(* its answer, and what Answerer and Judge make of a set of evidence.      *)
(***************************************************************************)
EXTENDS EnvSemantics, Integers, Sequences, SequencesExt, FiniteSetsExt

CONSTANTS Signatures,  \* the actions in the order of their signatures
          Normalizer   \* the largest cost of a training path

ASSUME SearchAssumption ==
    /\ Signatures \in Seq(Actions) /\ ToSet(Signatures) = Actions
    /\ Normalizer \in Nat \ {0}

Preferences == {0, 1, 3, 10}   \* COST_PREFERENCES, in tenths

\* What the executor returns, a miss each time.
Observation(w, s, a) ==
    [NoObservation EXCEPT
        !.candidates = IF a = Search THEN ToSet(w.found) ELSE {},
        !.frontier   = IF a.kind = "context" THEN s.frontier[a.event] ELSE NoFrontier,
        !.items      = CASE a.kind = "residual" -> {[event |-> a.event, level |-> RESIDUAL]}
                         [] a.kind \in Visual   -> {[event |-> a.event, level |-> VISUAL]}
                         [] a = Stop            -> {}
                         [] OTHER -> {[event |-> e, level |-> GIST] :
                                        e \in IF a = Search THEN ToSet(w.found)
                                              ELSE Neighbors(a.event, s.frontier[a.event])}]

\* observation_key: the state, without its budget and its preference, and the action.
Key(n, a) == Append(n.path, a)

\* CachedObservationGraph.get: there is no provider to fall back on.
IsCached(cached, n, a) == Key(n, a) \in cached

-----------------------------------------------------------------------------
\* A node: a path, the state it leads to, the candidates of that state in the order in
\* which they were found, and its cost since the start of the search.
Root(budget) ==
    [path |-> <<>>, order |-> <<>>, cost |-> 0,
     state |-> [candidates |-> {}, level |-> <<>>, frontier |-> <<>>, evidence |-> {},
                taken |-> {}, budget |-> budget]]

\* The events of a ring, at most two, as they come in the video.
InOrder(S) ==
    IF S = {} THEN <<>> ELSE IF Min(S) = Max(S) THEN <<Min(S)>> ELSE <<Min(S), Max(S)>>

\* The child of a node by an action that was observed and led to a state.
Child(n, a, o, state, found) ==
    [n EXCEPT !.path  = Append(n.path, a),
              !.cost  = n.cost + Charge(a, o),
              !.state = state,
              !.order = n.order \o IF a = Search THEN found
                                  ELSE InOrder(state.candidates \ n.state.candidates)]

Observed(n, a, o, found) == Child(n, a, o, Reduce(n.state, a, o, Charge(a, o)), found)

Extend(w, n, a) == Observed(n, a, Observation(w, n.state, a), w.found)

\* The start of a search from the state of a node.
StartAt(n) == [n EXCEPT !.cost = 0]

\* The frozen Answerer and Judge.  Whether an answer is right and what it scores, in halves,
\* are two fields of an evaluation (AnswerEvaluation) and independent of one another.
TopScore == 2
Right(w, s) == s.evidence \in w.right
Score(w, s) == IF s.evidence \in w.full THEN TopScore ELSE IF s.evidence \in w.half THEN 1 ELSE 0

\* _utility, times twenty and the normalizer.
UtilityOf(score, cost, preference) == 10 * Normalizer * score - 2 * preference * cost
Utility(w, n, preference) == UtilityOf(Score(w, n.state), n.cost, preference)

Rank(a) == CHOOSE i \in DOMAIN Signatures : Signatures[i] = a

\* The signatures of two paths of one length.
SignatureBefore(p, q) ==
    \E i \in DOMAIN p : Rank(p[i]) < Rank(q[i]) /\ \A j \in 1..(i - 1) : p[j] = q[j]

\* The ends of all keys: depth and signature, and cost before them.
Shorter(n, m) ==
    \/ Len(n.path) < Len(m.path)
    \/ Len(n.path) = Len(m.path) /\ SignatureBefore(n.path, m.path)

Lighter(n, m) == n.cost < m.cost \/ (n.cost = m.cost /\ Shorter(n, m))

\* priority_key: utility, cost, depth and signature, never the order of insertion.  A path
\* is compared with a longer one by its signature only after its depth.
Before(w, preference, n, m) ==
    LET u == Utility(w, n, preference)
        v == Utility(w, m, preference)
    IN \/ u > v
       \/ u = v /\ Lighter(n, m)

First(w, preference, S) == CHOOSE n \in S : \A m \in S \ {n} : Before(w, preference, n, m)

\* beam_size is at least one, or None.
NoBeam == 0

Widest(w, preference, beam, S) ==
    IF beam = NoBeam \/ Cardinality(S) <= beam THEN S
    ELSE {n \in S : Cardinality({m \in S : Before(w, preference, m, n)}) < beam}

-----------------------------------------------------------------------------
\* One depth of _search: the paths that stop here, the children whose observations are
\* cached, the best of them kept, and the observations that are missing.
Deepen(w, cached, preference, beam, r) ==
    LET moves    == UNION {{<<n, a>> : a \in ValidActions(n.state)} : n \in r.frontier}
        stops    == {x \in moves : x[2] = Stop}
        known    == {x \in moves \ stops : IsCached(cached, x[1], x[2])}
        children == {Extend(w, x[1], x[2]) : x \in known}
    IN [frontier  |-> Widest(w, preference, beam, children),
        completed |-> r.completed \cup {Extend(w, x[1], Stop) : x \in stops},
        pending   |-> r.pending \cup {Key(x[1], x[2]) : x \in moves \ (stops \cup known)}]

\* Mutant of SearchFrom: the paths that stop at the last depth are not looked at.
SearchFromShort(w, cached, n, preference, beam, depth) ==
    LET level[d \in 0..depth] ==
          IF d = 0 THEN [frontier |-> {StartAt(n)}, completed |-> {}, pending |-> {}]
          ELSE Deepen(w, cached, preference, beam, level[d - 1])
    IN level[depth - 1]

SearchFrom(w, cached, n, preference, beam, depth) ==
    LET level[d \in 0..depth] ==
          IF d = 0 THEN [frontier |-> {StartAt(n)}, completed |-> {}, pending |-> {}]
          ELSE Deepen(w, cached, preference, beam, level[d - 1])
    IN level[depth]

\* exhaustive_search keeps every child.
Exhaustive(w, cached, n, preference, depth) ==
    SearchFrom(w, cached, n, preference, NoBeam, depth)

-----------------------------------------------------------------------------
\* Labels.

\* The keys of canonical_oracle, for right paths and for others.
CheaperRight(w, n, m) ==
    \/ n.cost < m.cost
    \/ n.cost = m.cost /\ \/ Score(w, n.state) > Score(w, m.state)
                          \/ Score(w, n.state) = Score(w, m.state) /\ Shorter(n, m)

BetterScored(w, n, m) ==
    \/ Score(w, n.state) > Score(w, m.state)
    \/ Score(w, n.state) = Score(w, m.state) /\ Lighter(n, m)

\* canonical_oracle: the cheapest right path, or the best scored of the others.
Canonical(w, paths) ==
    LET right == {n \in paths : Right(w, n.state)}
    IN IF right # {} THEN CHOOSE n \in right : \A m \in right \ {n} : CheaperRight(w, n, m)
       ELSE CHOOSE n \in paths : \A m \in paths \ {n} : BetterScored(w, n, m)

\* Mutant of Optimal: the best answers, whatever they cost.
OptimalAnswers(w, preference, paths) ==
    {n \in paths : \A m \in paths : Utility(w, n, 0) >= Utility(w, m, 0)}

\* preference_labels scores the same paths for every preference and keeps all the best.
Optimal(w, preference, paths) ==
    {n \in paths : \A m \in paths : Utility(w, n, preference) >= Utility(w, m, preference)}

\* What the result of a search says of the node it began at.
LabelOf(w, n, preference, r) ==
    [pending |-> r.pending,
     action  |-> IF r.pending # {} THEN Stop
                 ELSE First(w, preference, r.completed).path[Len(n.path) + 1]]

\* Mutant of Label: the best of what is there already.
LabelOfCached(w, cached, n, preference, beam, depth) ==
    LabelOf(w, n, preference,
            [SearchFrom(w, cached, n, preference, beam, depth) EXCEPT !.pending = {}])

\* label_best_next_action: the first action of the best path, from a complete search only.
Label(w, cached, n, preference, beam, depth) ==
    LabelOf(w, n, preference, SearchFrom(w, cached, n, preference, beam, depth))
=============================================================================
