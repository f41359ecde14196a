----------------------- MODULE MCDeviationCollection -----------------------
(* Three events; the contexts differ in budget and preference, two of them within *)
(* one budget bin.                                                                 *)
EXTENDS DeviationCollection

MCCost == ("search" :> 1) @@ ("searchHit" :> 1) @@ ("residual" :> 1)
          @@ ("residualHit" :> 1) @@ ("context" :> 1) @@ ("contextHit" :> 0)
          @@ ("low" :> 1) @@ ("high" :> 2) @@ ("lowQuestion" :> 1)
          @@ ("highQuestion" :> 1)

OfKind(k) == [e \in 1..N |-> Action(k, e)]
MCSignatures == OfKind("context") \o OfKind("residual") \o <<Search, Stop>>
                  \o FlattenSeq([e \in 1..N |-> <<Action("high", e), Action("low", e)>>])

MCTrain == <<[budget |-> 4, preference |-> 1], [budget |-> 3, preference |-> 1],
             [budget |-> 3, preference |-> 10]>>
MCDev == <<[budget |-> 2, preference |-> 3]>>

Item(e, l) == [event |-> e, level |-> l]

With(S) == {E \in SUBSET Evidence : S \subseteq E}

\* The answer is right with what supports it, and scores full then.
Strict(needed) == [right |-> With(needed), full |-> With(needed), half |-> With({Item(2, GIST)})]

\* It is right with less, for half the score; or scores without being right; or it is not
\* right any more once other evidence is there.
Lenient(needed) == [Strict(needed) EXCEPT !.right = With({Item(2, GIST)})]
Deceived(needed) == [Strict(needed) EXCEPT !.full = With({Item(1, GIST)})]
Distracted(needed) == [right |-> With(needed) \ With({Item(3, VISUAL)}), full |-> With(needed),
                       half |-> With({Item(3, GIST)}) \ With({Item(2, GIST)})]

Question(found, needed, judge, learned) ==
    [found |-> found, needed |-> needed, confident |-> {Item(1, GIST)}, learned |-> learned,
     right |-> judge.right, full |-> judge.full, half |-> judge.half]

Of(found, needed, judge(_), learned) == Question(found, needed, judge(needed), learned)

Frugal == <<GistOnly, <<"search", "residual", "context">>, <<"search", "low">>>>
Eager == <<<<"search", "high">>, GistResidual, <<"stop">>>>

MCWorlds ==
    {Of(<<1>>, {Item(1, RESIDUAL), Item(2, RESIDUAL)}, Strict, Frugal),
     Of(<<2>>, {Item(2, VISUAL)}, Lenient, Eager),
     Of(<<3, 1>>, {Item(2, VISUAL)}, Deceived, Frugal),
     Of(<<3, 1>>, {Item(3, GIST), Item(2, RESIDUAL)}, Distracted, Eager),
     Of(<<3, 1>>, {Item(3, GIST), Item(2, RESIDUAL)}, Strict, Eager),
     Of(<<>>, {Item(1, RESIDUAL)}, Strict, Eager)}
=============================================================================
