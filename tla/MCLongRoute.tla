----------------------------- MODULE MCLongRoute -----------------------------
(* Three videos of two events each, one of them for the dev split, five questions. *)
EXTENDS LongRoutePublication

MCVideoOf == <<1, 1, 2, 2, 3, 3>>
MCTargets == <<1, 2, 3, 4, 5>>

World(length, near, hashed, label, shuffled, alike, sameId) ==
    [length |-> length, near |-> near, hashed |-> hashed, label |-> label, sameId |-> sameId,
     place |-> <<2, 1, 0, 1, 2>>, shuffled |-> shuffled, alike |-> alike]

Distinct == <<"a", "b", "c", "d", "e", "None of these">>
Repeated == <<"a", "b", "c", "a", "b", "c">>
Constant == <<"a", "a", "a", "a", "a", "a">>

\* The third has too few labels for a neighbour question, the fourth long events, and in the last
\* an evaluation video has the identity of a training video.
MCWorlds == {
    World(<<1, 2, 1, 2, 1, 1>>, <<2, 4, 1, 3, 6, 5>>, <<3, 1, 2>>, Repeated, <<3, 5, 1, 4, 2>>, {<<0, 1>>}, FALSE),
    World(<<2, 2, 2, 1, 1, 2>>, <<1, 3, 2, 4, 5, 6>>, <<3, 2, 1>>, Distinct, <<1, 2, 3, 4, 5>>, {<<0, 0>>}, FALSE),
    World(<<1, 1, 2, 1, 1, 1>>, <<4, 3, 2, 1, 5, 6>>, <<2, 1, 3>>, Constant, <<2, 1, 5, 4, 3>>, {}, FALSE),
    World(<<1, 1, 2, 3, 3, 3>>, <<4, 3, 2, 1, 5, 6>>, <<2, 1, 3>>, Repeated, <<1, 2, 3, 4, 5>>, {<<1, 0>>}, FALSE),
    World(<<3, 1, 1, 1, 2, 2>>, <<6, 5, 4, 3, 2, 1>>, <<1, 2, 3>>, Distinct, <<5, 4, 3, 2, 1>>, {}, TRUE)}
=============================================================================
