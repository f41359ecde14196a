-------------------------- MODULE DeviationCollection --------------------------
(***************************************************************************)
(* What the rounds of DAgger collect (router/dagger_core.py and the round  *)
(* loop of router/dagger_workflow.py): the policy of a round is followed   *)
(* over cached observations, the states where it departs from the label    *)
(* are kept, and the next policy is judged on the dev contexts.  A round   *)
(* that meets a missing observation raises and leaves nothing; a job       *)
(* outside fills the cache between two attempts.                           *)
(*                                                                         *)
(* A context is a question with a budget and a cost preference; all of     *)
(* them are about the question of the world.                               *)
(***************************************************************************)
EXTENDS Policies

CONSTANTS
    Train, Dev,     \* sequences of contexts
    BeamSize, MaxDepth,
    BinWidth,       \* budget_bin_width
    MaxRounds,
    Worlds          \* questions, each with the policies that training yields for it

Contexts == ToSet(Train) \cup ToSet(Dev)

\* A learned policy is the order in which it prefers the kinds of action.
ASSUME CollectionAssumption ==
    /\ {BeamSize, MaxDepth, BinWidth} \subseteq Nat \ {0} /\ MaxRounds \in Nat
    /\ Train \in Seq(Contexts) /\ Dev \in Seq(Contexts)
    /\ \A c \in Contexts : c.budget \in Nat /\ c.preference \in Preferences
    /\ \A w \in Worlds : /\ w.found \in Seq(Events) /\ w.needed \subseteq Evidence
                         /\ w.learned \in Seq(Seq(Kinds \cup {"search", "stop"}))
                         /\ Len(w.learned) > MaxRounds

VARIABLES
    world,
    cached,    \* the paths whose last observation, and its evaluation, is cached
    chain      \* the committed rounds: the keys seen, all deviations, and the new ones

vars == <<world, cached, chain>>

Everything == Seq(Actions)
DeviationInit ==
    /\ world \in Worlds
    /\ cached = {}
    /\ chain = <<>>

\* The policy of a round is the one that the round before it trained.
PolicyOf(round) == world.learned[round]

SeenBefore == IF chain = <<>> THEN {} ELSE chain[Len(chain)].seen
DeviationsBefore == IF chain = <<>> THEN {} ELSE chain[Len(chain)].deviations

-----------------------------------------------------------------------------
\* _rollout: with replay only; the nodes it passes and the observation it misses.
Rollout(w, known, policy, budget) ==
    LET move(r) ==
          LET n == r.nodes[Len(r.nodes)]
              a == Select(w, policy, n)
          IN IF Terminal(n.state) \/ r.missing # {} THEN r
             ELSE IF a # Stop /\ Key(n, a) \notin known
             THEN [r EXCEPT !.missing = {Key(n, a)}]
             ELSE [r EXCEPT !.nodes = Append(@, Extend(w, n, a))]
        run[k \in 0..MaxDepth] ==
          IF k = 0 THEN [nodes |-> <<Root(budget)>>, missing |-> {}] ELSE move(run[k - 1])
    IN run[MaxDepth]

\* budget_bin: right-closed.
Bin(budget) == (budget + BinWidth - 1) \div BinWidth

\* _state_key.  The keys of what was acquired are the prefixes of the path.
StateKey(context, n) ==
    <<n.path, Bin(n.state.budget), context.preference, n.state.frontier>>

\* The record of a departure from the label.
Deviation(context, n, taken, label) ==
    [key |-> StateKey(context, n), at |-> n, context |-> context,
     policy |-> taken, oracle |-> label]

\* What comes of a rollout r whose states `at` are labelled.
CollectAt(w, known, context, seen, r, at) ==
    LET label == [i \in at |-> Label(w, known, r.nodes[i], context.preference, BeamSize, MaxDepth)]
        taken(i) == r.nodes[i + 1].path[i]
    IN [missing |-> IF r.missing # {} THEN r.missing ELSE UNION {label[i].pending : i \in at},
        seen    |-> seen \cup {StateKey(context, r.nodes[i]) : i \in at},
        new     |-> {Deviation(context, r.nodes[i], taken(i), label[i].action) :
                       i \in {j \in at : label[j].action # taken(j)}}]

\* Mutant of Collect: a state is labelled whenever the policy comes to it.
CollectAgain(w, known, context, seen, r) ==
    CollectAt(w, known, context, seen, r, 1..(Len(r.nodes) - 1))

\* collect_deviations for one context: each state not seen before is labelled, and kept
\* when the policy did something else.
Collect(w, known, context, seen, r) ==
    CollectAt(w, known, context, seen, r,
              {i \in 1..(Len(r.nodes) - 1) : StateKey(context, r.nodes[i]) \notin seen})

\* The train contexts one after the other; the first that misses something ends the round.
CollectNext(known, context, before) ==
    IF before.missing # {} THEN before
    ELSE LET policy == PolicyOf(Len(chain) + 1)
             r      == Rollout(world, known, policy, context.budget)
         IN [Collect(world, known, context, before.seen, r) EXCEPT !.new = @ \cup before.new]

CollectAll(known) ==
    LET run[k \in 0..Len(Train)] ==
          IF k = 0 THEN [missing |-> {}, seen |-> SeenBefore, new |-> {}]
          ELSE CollectNext(known, Train[k], run[k - 1])
    IN run[Len(Train)]

\* _evaluate_dev: the trained policy's rollout and the oracle's search have to be complete.
DevMissing(known) ==
    LET next == PolicyOf(Len(chain) + 2)
        of(c) == LET r == Rollout(world, known, next, c.budget)
                 IN IF r.missing # {} THEN r.missing
                    ELSE SearchFrom(world, known, Root(c.budget), c.preference,
                                    BeamSize, MaxDepth).pending
    IN UNION {of(Dev[i]) : i \in DOMAIN Dev}

\* What the attempt at the next round misses, after it has collected all this.
Missing(all) == IF all.missing # {} THEN all.missing ELSE DevMissing(cached)

Round(all, missing) ==
    /\ missing = {}
    /\ LET old == {d.key : d \in DeviationsBefore}
       IN chain' = Append(chain,
            [seen |-> all.seen, new |-> {d.key : d \in all.new},
             deviations |-> DeviationsBefore \cup {d \in all.new : d.key \notin old}])
    /\ UNCHANGED <<world, cached>>

\* The job that fills the cache takes what is missing, or only what one of the two models
\* (of the frames, of the text) has to produce.
Generate(missing) ==
    /\ \E batch \in {missing, {p \in missing : Last(p).kind \in Visual},
                     {p \in missing : Last(p).kind \notin Visual}} :
         batch # {} /\ cached' = cached \cup batch
    /\ UNCHANGED <<world, chain>>

DeviationNext ==
    /\ Len(chain) < MaxRounds
    /\ \E all \in {CollectAll(cached)} : \E missing \in {Missing(all)} :
         Round(all, missing) \/ Generate(missing)

DeviationSpec == DeviationInit /\ [][DeviationNext]_vars

-----------------------------------------------------------------------------
\* A label, once it was given, is what the complete cache would give, and the policy did
\* something else: no observation that is cached later makes a deviation wrong.
LabelsAreFinal ==
    \A d \in DeviationsBefore :
        /\ d.oracle = Label(world, Everything, d.at, d.context.preference,
                            BeamSize, MaxDepth).action
        /\ d.policy # d.oracle /\ {d.policy, d.oracle} \subseteq ValidActions(d.at.state)

\* A run that is resumed accepts every round that was written (_load_generation): the
\* deviations only grow, the new keys are the difference, and all of them have been seen.
RoundsAreAcceptedAgain ==
    \A i \in DOMAIN chain :
        LET keys(j) == IF j = 0 THEN {} ELSE {d.key : d \in chain[j].deviations}
        IN /\ keys(i - 1) \subseteq keys(i)
           /\ chain[i].new = keys(i) \ keys(i - 1)
           /\ keys(i) \subseteq chain[i].seen
           /\ Cardinality(keys(i)) = Cardinality(chain[i].deviations)

-----------------------------------------------------------------------------
\* About a world, whatever is cached.

AllPaths == [w \in Worlds |-> [c \in Contexts |->
    Exhaustive(w, Everything, Root(c.budget), c.preference, MaxDepth).completed]]

BeamPaths == [w \in Worlds |-> [c \in Contexts |->
    SearchFrom(w, Everything, Root(c.budget), c.preference, BeamSize, MaxDepth).completed]]

Routers(w) == (Baselines \ FixedLong) \cup ToSet(w.learned)

\* The state in which the trajectory of a policy ends.
Outcome(w, p, c) == Last(Trajectory(w, p, c.budget, Horizon(p))).state

\* The Judge gave a right answer less than evaluate_run gives it.
Undervalued(w, s) == Right(w, s) /\ Score(w, s) < TopScore

RouterBound == [w \in Worlds |-> \A c \in Contexts :
    LET paths == AllPaths[w][c]
        best  == Max({Utility(w, n, c.preference) : n \in paths})
    IN \A p \in Routers(w) :
         \/ Realized(w, c.preference, Trajectory(w, p, c.budget, Horizon(p))) <= best
         \/ Undervalued(w, Outcome(w, p, c))]

\* evaluate_run compares with a pair of score and cost that its caller has frozen.  Where that
\* is the pair of the best path, to depth five and at the preference of the evaluation, no
\* trajectory of a router's five steps, the forced stop among them, is refused with "realized
\* trajectory exceeds frozen Oracle authority", unless the Judge undervalued its right answer.
RouterNeverBeatsOracle == RouterBound[world]

CanonicalBound == [w \in Worlds |-> \A c \in Contexts : \A n \in {Canonical(w, AllPaths[w][c])} :
    \A p \in Routers(w), q \in Preferences :
        \/ Realized(w, q, Trajectory(w, p, c.budget, Horizon(p))) <= Utility(w, n, q)
        \/ Undervalued(w, n.state)
        \/ Utility(w, n, q) < 0]

\* There is one such pair for all preferences.  That of the canonical path bounds a router at
\* each of them, unless the Judge undervalued the canonical answer or the canonical path costs
\* more than its score is worth there: then a router that stops at once is refused.
CanonicalPairBounds == CanonicalBound[world]

Monotone == [w \in Worlds |-> \A c \in Contexts : \A p, q \in Preferences :
    LET paths == AllPaths[w][c]
    IN p < q => \A n \in Optimal(w, p, paths), m \in Optimal(w, q, paths) : m.cost <= n.cost]

\* Of the labels at the four preferences, all from one search, a dearer preference never
\* has the dearer path among its best ones, however the ties fall.
DearerPreferenceBuysLess == Monotone[world]

BeamBound == [w \in Worlds |-> \A c \in Contexts :
    \A b \in {Canonical(w, BeamPaths[w][c])}, e \in {Canonical(w, AllPaths[w][c])} :
        /\ BeamPaths[w][c] \subseteq AllPaths[w][c]
        /\ Right(w, b.state) => Right(w, e.state) /\ e.cost <= b.cost
        /\ ~Right(w, e.state) => Score(w, b.state) <= Score(w, e.state)]

\* The audit of the beam against the exhaustive search (compare_beam_to_exhaustive): the beam
\* drops paths and invents none, so its canonical path is not right where the other's is
\* wrong, never cheaper where both are right, and never scored higher where both are wrong.
BeamFindsNoMore == BeamBound[world]

Fallback == [w \in Worlds |-> \A c \in Contexts :
    LET paths == AllPaths[w][c]
    IN (\A n \in paths : ~Right(w, n.state)) => Canonical(w, paths) = First(w, 0, paths)]

\* Where no path is right the canonical one, which never looks at a utility, is the label at
\* preference 0, down to the last tie.
CanonicalFallsBackToLabel == Fallback[world]

\* What the searches say of a question bounds what a router may do, as far as it does.
OracleIsAuthority ==
    /\ RouterNeverBeatsOracle /\ CanonicalPairBounds /\ DearerPreferenceBuysLess
    /\ BeamFindsNoMore /\ CanonicalFallsBackToLabel

Ample == Upper(Search) + (N - 1) * Cost["context"]
           + N * Max({Upper(Action("low", 1)), Upper(Action("residual", 1))})

CoversTheVideo(w, p, nodes) ==
    /\ nodes[Len(nodes)].state.candidates = Events
    /\ \A e \in Events : nodes[Len(nodes)].state.level[e] = IF p = <<"full">> THEN RESIDUAL ELSE VISUAL
    /\ Select(w, p, nodes[Len(nodes) - 1]) = Stop

Covering == [w \in Worlds |-> \A p \in FixedLong :
    w.found # <<>> => CoversTheVideo(w, p, Trajectory(w, p, Ample, Horizon(p)))]

\* The horizon of the fixed policies, twice the events and two, is enough for every order
\* in which the search finds events: with the budget for it they acquire all of them and
\* stop by themselves.
FixedPoliciesCoverTheVideo == Covering[world]

HasACause(signals, cause) ==
    /\ ~signals.sufficient => cause \in {"recall", "premature"}
    /\ cause = "none" => signals.sufficient /\ signals.recalled /\ signals.answers

ErrorHasACause(w, final, signals) ==
    ~Right(w, final) => HasACause(signals, Primary(Causes(signals), Right(w, final)))

Attributed(w, nodes) ==
    /\ \A i \in 2..Len(nodes) : Sufficient(w, nodes[i - 1].state) => Sufficient(w, nodes[i].state)
    /\ \A answers \in BOOLEAN :
         ErrorHasACause(w, nodes[Len(nodes)].state, Signals(w, nodes, answers))

Attribution == [w \in Worlds |-> \A c \in Contexts, p \in Baselines \cup ToSet(w.learned) :
    Attributed(w, Trajectory(w, p, c.budget, Horizon(p)))]

\* A wrong answer that lacked evidence is put down to the search or to the stop, which
\* every trajectory ends with, never to what was expanded; one that had it is left without
\* a cause only when the same evidence is known to be answered rightly.  Evidence once
\* sufficient stays so.
ErrorsAreAttributed == Attribution[world]

\* An evaluation gives the fixed policies the steps they need, and every error its cause.
EvaluationIsSound == FixedPoliciesCoverTheVideo /\ ErrorsAreAttributed
=============================================================================
