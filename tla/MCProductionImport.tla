------------------------ MODULE MCProductionImport --------------------------
(* Three observations, two of which have the same cache key.  One operator imports *)
(* b, then a with it, and reports; the other one imports c.                        *)
EXTENDS ProductionImport

MCRecords == {"a", "b", "c"}
MCKey == [a |-> "k", b |-> "l", c |-> "k"]
MCSources == [p1 |-> {{"b"}, {"a", "b"}}, p2 |-> {{"c"}}]

\* a and c differ, or are one observation made for two questions.
MCRaw == [a |-> "a", b |-> "b", c |-> "c"]
MCSharedRaw == [a |-> "a", b |-> "b", c |-> "a"]
=============================================================================
