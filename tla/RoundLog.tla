------------------------------ MODULE RoundLog ------------------------------
(***************************************************************************)
(* What run_dagger promises to whoever uses the rounds it accepts: the     *)
(* rounds of one run identity are a log.  A round that was accepted stays  *)
(* what it is, each was trained from the policy of the one before, and     *)
(* nothing follows the round that stopped the run.                         *)
(***************************************************************************)
EXTENDS Naturals

CONSTANTS MaxRounds, Nothing

VARIABLE log      \* round -> the generation accepted for it, or Nothing

Rounds == 1..MaxRounds

\* The policy a round starts from: the bootstrap policy has number 0.
Source(r) == IF r = 1 THEN 0 ELSE log[r - 1].id

Init == log = [r \in Rounds |-> Nothing]

\* Any generation that continues the log may be accepted.
Accept(r, g) ==
  /\ log[r] = Nothing
  /\ r # 1 => log[r - 1] # Nothing /\ ~log[r - 1].stopped
  /\ g.source = Source(r)
  /\ log' = [log EXCEPT ![r] = g]

Next == \E r \in Rounds :
          log'[r] # Nothing /\ Accept(r, log'[r])

Spec == Init /\ [][Next]_log
=============================================================================
