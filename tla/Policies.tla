------------------------------ MODULE Policies ------------------------------
(***************************************************************************)
(* The policies a study compares (eval/baselines.py, router/dagger_core.py) *)
(* the trajectory each of them makes of a question (agent/runner.py), and  *)
(* the value the evaluation gives it (eval/runner.py).                     *)
(***************************************************************************)
EXTENDS OracleSearch

\* What valid_actions offers of a kind.
Legal(n, kind) == {a \in ValidActions(n.state) : a.kind = kind}

\* _ordered, of actions of one kind: the one whose event comes first in an order.  Neither
\* the search nor the stop has an event.
Foremost(order, S) ==
    LET ahead == {a \in S : \E i \in DOMAIN order :
                     order[i] = a.event /\ \A b \in S, j \in 1..(i - 1) : order[j] # b.event}
    IN CHOOSE a \in IF ahead = {} THEN S ELSE ahead : TRUE

\* The first legal action of one of the kinds, the kinds one after the other and candidate
\* by candidate in the order of their finding; else STOP.
Earliest(n, kinds) ==
    LET offered == {i \in DOMAIN kinds : Legal(n, kinds[i]) # {}}
    IN IF offered = {} THEN Stop ELSE Foremost(n.order, Legal(n, kinds[Min(offered)]))

InTime == [e \in Events |-> e]

\* Until all events are known their neighbours are asked for, from the first candidate.
Discover(n) ==
    LET rings  == Legal(n, "context")
        anchor == {a \in rings : n.order # <<>> /\ a.event = n.order[1]}
    IN IF rings = {} THEN Stop
       ELSE IF anchor # {} THEN Foremost(n.order, anchor) ELSE Foremost(InTime, rings)

CoversAll(n, kind) ==
    IF Search \in ValidActions(n.state) THEN Search
    ELSE IF n.state.candidates # Events THEN Discover(n)
    ELSE IF Legal(n, kind) # {} THEN Foremost(InTime, Legal(n, kind)) ELSE Stop

\* What a policy selects.  "rule" stops once evidence scores high enough; a learned one is
\* stood for by the order in which it prefers the kinds of action.
Select(w, policy, n) ==
    CASE policy = <<"uniform">> -> CoversAll(n, "low")
      [] policy = <<"full">>    -> CoversAll(n, "residual")
      [] policy = <<"rule">>    -> IF Search \in ValidActions(n.state) THEN Search
                                   ELSE IF n.state.evidence \cap w.confident # {} THEN Stop
                                   ELSE Earliest(n, <<"residual", "low", "context">>)
      [] OTHER -> Earliest(n, policy)

GistOnly == <<"search">>
GistResidual == <<"search", "residual">>
GistVisual == <<"search", "high">>
FixedLong == {<<"uniform">>, <<"full">>}
Baselines == FixedLong \cup {GistOnly, GistResidual, GistVisual, <<"rule">>}

\* Mutant of Horizon: two actions for every event, and none for the search and the stop.
HorizonOfEvents(policy) == IF policy \in FixedLong THEN 2 * N ELSE 5

\* _policy_horizon.
Horizon(policy) == IF policy \in FixedLong THEN 2 * N + 2 ELSE 5

-----------------------------------------------------------------------------
\* AgentRunner.run: the nodes of a trajectory, the last transition a STOP by force.
Trajectory(w, policy, budget, horizon) ==
    LET next(nodes, n, step) ==
          IF Terminal(n.state) THEN nodes
          ELSE Append(nodes, Extend(w, n, IF step = horizon THEN Stop ELSE Select(w, policy, n)))
        run[k \in 0..horizon] == IF k = 0 THEN <<Root(budget)>> ELSE next(run[k - 1], Last(run[k - 1]), k)
    IN run[horizon]

\* evaluate_run: the value of a trajectory, to be compared with the oracle's.
\* A multiple choice answer is right or wrong, whatever the Judge would give for a part.  The
\* code charges memory, policy, controller and answerer besides: its value is at most this.
Realized(w, preference, nodes) ==
    LET final == nodes[Len(nodes)]
    IN UtilityOf(IF Right(w, final.state) THEN TopScore ELSE 0, final.cost, preference)

-----------------------------------------------------------------------------
\* Why a trajectory's answer is wrong (eval/error_taxonomy.py).

\* The oracle names the events that support the answer and one fidelity for all of them.
Support(w) == {i.event : i \in w.needed}
Required(w) == Max({i.level : i \in w.needed})

\* _supports_sufficient.
Sufficient(w, s) == \A e \in Support(w) : e \in s.candidates /\ s.level[e] >= Required(w)

\* _derive_signals; `answers`: whether the Answerer is right with the oracle's evidence.
Signals(w, nodes, answers) ==
    LET final == nodes[Len(nodes)]
        steps == 1..(Len(nodes) - 1)
        sufficientAt == {i \in steps : Sufficient(w, nodes[i + 1].state)}
        found == IF Search \in ToSet(final.path) THEN ToSet(w.found) ELSE {}
    IN [recalled   |-> Support(w) \subseteq found,
        sufficient |-> Sufficient(w, final.state),
        answers    |-> answers,
        stopped    |-> final.path[Len(final.path)] = Stop /\ ~Sufficient(w, final.state),
        upgradable |-> \E e \in Support(w) \cap final.state.candidates :
                         final.state.level[e] < Required(w),
        expanded   |-> \E i \in sufficientAt, j \in steps :
                         j > i /\ final.path[j] \notin {Stop, Search}]

ErrorPriority == <<"recall", "answerer", "premature", "fidelity", "over">>

\* _active_causes.
Causes(signals) ==
    LET active(c) == CASE c = "recall"    -> ~signals.recalled
                       [] c = "answerer"  -> signals.sufficient /\ ~signals.answers
                       [] c = "premature" -> signals.stopped
                       [] c = "fidelity"  -> signals.upgradable
                       [] c = "over"      -> signals.expanded
    IN {c \in ToSet(ErrorPriority) : active(c)}

\* classify_error, of a valid result: only a wrong answer has a primary cause.
Primary(causes, correct) ==
    IF correct \/ causes = {} THEN "none"
    ELSE ErrorPriority[Min({i \in DOMAIN ErrorPriority : ErrorPriority[i] \in causes})]
=============================================================================
