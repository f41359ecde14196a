------------------------ MODULE MCMemoryEnvironment -------------------------
(* Three events, so that a middle one has a ring on both sides and an outer *)
(* one has two rings; a hit on a Residual is dearer than a miss, a hit on a *)
(* context is free.                                                         *)
EXTENDS MemoryEnvironment, TLC

MCCost == ("search" :> 1) @@ ("searchHit" :> 1) @@ ("residual" :> 1)
          @@ ("residualHit" :> 2) @@ ("context" :> 1) @@ ("contextHit" :> 0)
          @@ ("low" :> 1) @@ ("high" :> 1) @@ ("lowQuestion" :> 1)
          @@ ("highQuestion" :> 1)
=============================================================================
