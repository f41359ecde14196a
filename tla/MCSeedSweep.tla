------------------------------ MODULE MCSeedSweep ------------------------------
(* Two manifests that put v2 and v3 in different splits; an example may show v3    *)
(* beside its target.  The studies are a set of rows of both manifests, a part of  *)
(* it, and two that are refused: of a target with two splits, and of an example    *)
(* that shows a video of another split.                                            *)
EXTENDS SeedSweep, TLC

Interchangeable == Permutations(Trainers)

MCSeeds == <<13, 37>>
MCDev == {<<"m1", "v2">>, <<"m2", "v3">>}
MCAssignment == [m \in {"m1", "m2"} |-> [v \in {"v1", "v2", "v3"} |->
                   IF <<m, v>> \in MCDev THEN "dev" ELSE "train"]]

Path(cost, depth, action) == [cost |-> cost, depth |-> depth, action |-> action]

Labelled(manifest, video, state, optimal) ==
    [manifest |-> manifest, question |-> "q", state |-> state, target |-> video,
     videos |-> {video}, normalization |-> 10, optimal |-> optimal, stop |-> "A", gold |-> "A"]

Tied == {Path(2, 1, 1), Path(1, 2, 1), Path(1, 1, 3), Path(1, 1, 2)}
Train == [Labelled("m1", "v1", 1, Tied) EXCEPT !.videos = {"v1", "v3"}]
Held == Labelled("m2", "v3", 5, Tied)
Dev == Labelled("m1", "v2", 2, Tied)
Second == Labelled("m1", "v1", 4, {Path(2, 1, 1)})
OtherSplit == Labelled("m2", "v2", 3, Tied)

MCStudies == {{Train}, {Train, Second, Dev, Held}, {Dev, OtherSplit},
              {[Second EXCEPT !.videos = {"v1", "v2"}], Dev}}
=============================================================================
