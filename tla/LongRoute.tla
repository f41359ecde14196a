----------------------------- MODULE LongRoute -----------------------------
(***************************************************************************)
(* What LongRouteBuilder makes of its sources (data/longroute.py): virtual *)
(* long videos, each the event a question asks about among distractors of  *)
(* the same split, and what a consumer asks of them (router/dataset.py).   *)
(*                                                                         *)
(* Videos and events are numbered; an event's number is its identity in    *)
(* all videos.  A world fixes what the manifests and the seed decide.      *)
(***************************************************************************)
EXTENDS Integers, Sequences, FiniteSets, SequencesExt, FiniteSetsExt

CONSTANTS
    VideoOf,       \* the video of an event
    Targets,       \* the event each question asks about, in the order of the question ids
    MinDistractors, MaxDistractors,
    MinDuration, MaxDuration,
    DevPercent,    \* dev_fraction
    MultiPercent,  \* multi_event_ratio
    AuditSize,
    Worlds

Events == DOMAIN VideoOf
Videos == ToSet(VideoOf)
Questions == DOMAIN Targets

(* A world: the length and the label of each event, the events in the order of their   *)
(* likeness to a target, the videos in the order of their hashes, the place the seed   *)
(* draws for each question's target, and the order in which it shuffles the questions. *)
ASSUME LongRouteAssumption ==
    /\ ToSet(Targets) \subseteq Events
    /\ {MinDistractors, MaxDistractors, MinDuration, MaxDuration, MultiPercent} \subseteq Nat
    /\ MinDistractors <= MaxDistractors /\ AuditSize \in Nat \ {0}
    /\ \A w \in Worlds :
         /\ w.length \in [Events -> Nat \ {0}] /\ DOMAIN w.label = Events
         /\ w.near \in Seq(Events) /\ ToSet(w.near) = Events /\ ToSet(w.hashed) = Videos
         /\ w.place \in [Questions -> Nat]
         /\ w.shuffled \in Seq(Questions) /\ ToSet(w.shuffled) = Questions

Ceiling(n, d) == (n + d - 1) \div d

\* round: a half goes to the even neighbour.
Rounded(n, d) == LET q == n \div d  r == 2 * (n % d)
                 IN IF r > d \/ (r = d /\ q % 2 = 1) THEN q + 1 ELSE q

-----------------------------------------------------------------------------
\* Whole videos are assigned, so that nothing of one is in both splits.
Groups(w) ==
    LET count == Max({1, Rounded(Cardinality(Videos) * DevPercent, 100)})
    IN [v \in Videos |-> IF \E i \in 1..count : w.hashed[i] = v THEN "dev" ELSE "train"]

Groupings == [w \in Worlds |-> Groups(w)]

\* Mutant of Candidates: the events of all videos.
CandidatesOfAll(w, target) == Events \ {target}

Candidates(w, target) ==
    {e \in Events \ {target} : Groupings[w][VideoOf[e]] = Groupings[w][VideoOf[target]]}

\* The places of a target's candidates in the ranking.
Ranked(w, target) == {i \in DOMAIN w.near : w.near[i] \in Candidates(w, target)}

-----------------------------------------------------------------------------
\* _select_distractors: the first acceptable choice of a search that takes a candidate
\* before it leaves it out, and that stops where no completion is acceptable.  A choice
\* is a set of places in the ranking, len has the length of the candidate at each place.
NoChoice == {0}

Total(len, own, S) == own + MapThenSumSet(LAMBDA i : len[i], S)

Acceptable(len, own, S) ==
    /\ Cardinality(S) \in MinDistractors..MaxDistractors
    /\ Total(len, own, S) \in MinDuration..MaxDuration

Sums(len, S, k) == {MapThenSumSet(LAMBDA i : len[i], T) : T \in kSubset(k, S)}

\* From a sum on, no distractors of the rest can make the duration fit: not the shortest
\* that are needed, and not the longest there is room for.
Misses(len, rest, total, needed, slots) ==
    \/ needed > 0 /\ total + Min(Sums(len, rest, needed)) > MaxDuration
    \/ total + Max(Sums(len, rest, slots)) < MinDuration

Needed(S) == Max({0, MinDistractors - Cardinality(S)})
Slots(rest, S) == Min({MaxDistractors - Cardinality(S), Cardinality(rest)})

\* Mutant of Hopeless: completions with no more than the distractors still needed.
HopelessWithNeeded(len, own, rest, S) ==
    \/ rest = {} \/ Cardinality(S) = MaxDistractors \/ Cardinality(rest) < Needed(S)
    \/ Misses(len, rest, Total(len, own, S), Needed(S), Needed(S))

\* No completion with the rest of the candidates can be acceptable.
Hopeless(len, own, rest, S) ==
    \/ rest = {} \/ Cardinality(S) = MaxDistractors \/ Cardinality(rest) < Needed(S)
    \/ Misses(len, rest, Total(len, own, S), Needed(S), Slots(rest, S))

\* With S taken so far, of the candidates at the places that are left.
Search(len, own) ==
    LET from[rest \in SUBSET DOMAIN len] == [S \in SUBSET DOMAIN len |->
          IF Acceptable(len, own, S) THEN S
          ELSE IF Hopeless(len, own, rest, S) THEN NoChoice
          ELSE LET i     == Min(rest)
                   taken == IF Total(len, own, S \cup {i}) <= MaxDuration
                            THEN from[rest \ {i}][S \cup {i}] ELSE NoChoice
               IN IF taken # NoChoice THEN taken ELSE from[rest \ {i}][S]]
    IN from[DOMAIN len][{}]

LengthsOf(w, places) == [i \in places |-> w.length[w.near[i]]]

\* The places chosen for a target; NoChoice when the target alone is too long.
SelectDistractors(w, target) ==
    LET own == w.length[target] IN
    IF own > MaxDuration THEN NoChoice
    ELSE Search(LengthsOf(w, Ranked(w, target)), own)

-----------------------------------------------------------------------------
\* Examples.

Segments(w, entries) ==
    LET length   == [j \in DOMAIN entries |-> w.length[entries[j]]]
        start(i) == MapThenSumSet(LAMBDA j : length[j], 1..(i - 1))
    IN [i \in DOMAIN entries |-> [event |-> entries[i], start |-> start(i),
                                  end |-> start(i) + length[i]]]

\* The example of a question, its target inserted among the others at a position.
Inserted(w, q, others, position) ==
    LET segments == Segments(w, InsertAt(others, position, Targets[q]))
    IN [question |-> q, split |-> Groupings[w][VideoOf[Targets[q]]], position |-> position,
        support |-> <<Targets[q]>>, template |-> "single_event", relation |-> "is",
        answer |-> "its own", segments |-> segments, duration |-> segments[Len(segments)].end]

\* The distractors of a target, in the order of their likeness to it.
Chosen(w, S) ==
    LET at(i) == CHOOSE j \in S : Cardinality({k \in S : k <= j}) = i
    IN [i \in 1..Cardinality(S) |-> w.near[at(i)]]

\* _single_example: the seed draws where the target is inserted.
SingleExample(w, q) ==
    LET others == Chosen(w, SelectDistractors(w, Targets[q]))
    IN Inserted(w, q, others, (w.place[q] % (Len(others) + 1)) + 1)

\* The target and the segment after it, or the one before it.
Pairs(x) == {<<i, i + 1>> : i \in {x.position - 1, x.position} \cap 1..(Len(x.segments) - 1)}

\* Mutant of Neighbours: the segments beside the target, whatever their labels.
NeighboursUnread(w, x) == Pairs(x)

\* Not those that read alike, or whose answer would read like the wrong option.
Neighbours(w, x) ==
    LET label(i)  == w.label[x.segments[i].event]
        other(pair) == IF pair[1] = x.position THEN pair[2] ELSE pair[1]
    IN {pair \in Pairs(x) : /\ label(pair[1]) # label(pair[2])
                            /\ label(other(pair)) # "None of these"}

\* _multi_event asks what comes immediately after the target, else what comes before.
MultiEvent(w, x) ==
    LET p     == x.position
        after == <<p, p + 1>> \in Neighbours(w, x)
        left  == x.segments[IF after THEN p ELSE p - 1].event
        right == x.segments[IF after THEN p + 1 ELSE p].event
    IN [x EXCEPT !.template = "before_after", !.support = <<left, right>>,
                 !.relation = IF after THEN "after" ELSE "before",
                 !.answer   = w.label[IF after THEN right ELSE left]]

Answerable(w) == {q \in Questions : SelectDistractors(w, Targets[q]) # NoChoice}

\* The examples, by their questions.
Basic(w) == [q \in Answerable(w) |-> SingleExample(w, q)]

Eligible(w, basic) == {q \in DOMAIN basic : Neighbours(w, basic[q]) # {}}

\* From 20 to 30 % of the examples, rounded inwards, are to be upgraded.
Lower(n) == Ceiling(20 * n, 100)
Upper(n) == (30 * n) \div 100
Desired(n) == Min({Max({Rounded(n * MultiPercent, 100), Lower(n)}), Upper(n)})

\* Of the eligible questions, the first of the shuffled ones.
Drawn(w, eligible, count) ==
    LET among(i) == {w.shuffled[j] : j \in 1..i} \cap eligible
    IN among(Min({i \in 0..Len(w.shuffled) : Cardinality(among(i)) >= count}))

Upgrade(w, basic, eligible) ==
    LET count == Min({Desired(Cardinality(DOMAIN basic)), Cardinality(eligible)})
    IN [q \in DOMAIN basic |-> IF q \in Drawn(w, eligible, count)
                               THEN MultiEvent(w, basic[q]) ELSE basic[q]]

\* Nothing is returned when the share cannot be met: the build raises.
Upgraded(w, basic) ==
    LET eligible == Eligible(w, basic)
        n        == Cardinality(DOMAIN basic)
    IN IF Lower(n) > Upper(n) \/ Cardinality(eligible) < Lower(n) THEN <<>>
       ELSE Upgrade(w, basic, eligible)

\* _examples.
Examples(w) == Upgraded(w, Basic(w))

ExamplesOf == [w \in Worlds |-> Examples(w)]

\* What is audited by a human is part of what is published.
Buildable(w) == Cardinality(DOMAIN ExamplesOf[w]) >= AuditSize

-----------------------------------------------------------------------------
\* _validate_task8_lineage: what materialize_oracle_record asks of an example.
ValidLineage(w, x) ==
    LET events == {x.segments[i].event : i \in DOMAIN x.segments} IN
    /\ \A i \in DOMAIN x.segments :
         LET s == x.segments[i] IN
         /\ Groupings[w][VideoOf[s.event]] = x.split
         /\ s.start = (IF i = 1 THEN 0 ELSE x.segments[i - 1].end)
         /\ s.end = s.start + w.length[s.event] /\ s.end > s.start
    /\ x.position \in DOMAIN x.segments
    /\ x.segments[x.position].event = Targets[x.question]
    /\ ToSet(x.support) \subseteq events
    /\ x.duration = x.segments[Len(x.segments)].end
=============================================================================
