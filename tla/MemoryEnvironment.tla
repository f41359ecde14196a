------------------------- MODULE MemoryEnvironment --------------------------
(***************************************************************************)
(* An episode of the memory environment: a policy picks any legal action,  *)
(* an executor answers with any observation, legal or not, and step either *)
(* returns the next state or raises and changes nothing.                   *)
(***************************************************************************)
EXTENDS EnvSemantics

CONSTANT Budget     \* remaining_budget of the initial state

ASSUME BudgetAssumption == Budget \in Nat

VARIABLE st         \* the RouterState

Initial == [candidates |-> {}, level |-> <<>>, frontier |-> <<>>, evidence |-> {},
            taken |-> {}, budget |-> Budget]

Init == st = Initial

\* The executor's answers worth telling apart: bare or complete, a hit or a
\* miss, with evidence inside and outside the action's reach, and complete
\* ones with one defect beside it.
ItemSets(s, a) ==
  {{}} \cup {{x} : x \in Evidence} \cup
  CASE a.kind = "search"  -> {[event : D, level : {GIST}] : D \in SUBSET Events}
    [] a.kind = "context" ->
         LET ring == Neighbors(a.event, s.frontier[a.event])
         IN {{[event |-> e, level |-> f[e]] : e \in ring} : f \in [ring -> Levels]}
    [] OTHER -> {}

Bare(C, I) == [bare : {TRUE}, meta : {TRUE}, hit : BOOLEAN, candidates : C,
               items : I, frontier : {NoFrontier}]

Full(C, I, F) == [bare : {FALSE}, meta : {TRUE}, hit : BOOLEAN, candidates : C,
                  items : I, frontier : F]

Observations(s, a) ==
  LET I == ItemSets(s, a)
      F == IF a.kind = "context" THEN {s.frontier[a.event]} ELSE {NoFrontier}
  IN CASE a = Stop   -> {NoObservation}
       [] a = Search -> Bare(SUBSET Events, I) \cup Full(SUBSET Events, I, F)
       [] OTHER -> UNION {Bare({{}}, I), Full({{}}, I, F), Full({Events}, {{}}, F),
                          Full({{}}, {{}}, Frontiers),
                          {[o EXCEPT !.meta = FALSE] : o \in Full({{}}, {{}}, F)}}

\* What step makes of the executor's answers that it does not reject.
Results(s, a) ==
  {Transition(s, a, o) : o \in {x \in {Complete(s, a, y) : y \in Observations(s, a)} :
                                  Accepts(s, a, x)}}

Step(a) ==
  /\ a \in ValidActions(st)
  /\ \E t \in Results(st, a) : st' = t.next

Next == \E a \in Actions : Step(a)

Spec == Init /\ [][Next]_st

\* The policy keeps choosing and the executor answers sooner or later.
FairSpec == Spec /\ WF_st(Next)

-----------------------------------------------------------------------------
TypeOK ==
  /\ st.candidates \subseteq Events
  /\ st.level \in [st.candidates -> Levels]
  /\ st.frontier \in [st.candidates -> Frontiers]
  /\ st.evidence \subseteq Evidence
  /\ st.taken \subseteq Actions
  /\ st.budget \in 0..Budget

\* The window an event's frontier claims to know lies within the video and
\* every event in it is a candidate: the next ring is never skipped, and the
\* context of an event ends at the first and last event (environment.py:87-91,
\* 151-157).
WindowsAreKnown ==
  \A e \in st.candidates :
    LET f == st.frontier[e]
    IN f.left < e /\ e + f.right <= N /\ e - f.left .. e + f.right \subseteq st.candidates

\* Nothing is shown of an event above the fidelity that was acquired, and paid,
\* for it, by whichever action it came (environment.py:121-143, 159-160).
EvidenceWithinFidelity ==
  \A x \in st.evidence : x.event \in st.candidates /\ x.level <= st.level[x.event]

\* What is known, shown and paid of a question is consistent in every state an
\* episode reaches: the windows, the evidence, and a budget that is never overdrawn.
AcquisitionIsSound == TypeOK /\ WindowsAreKnown /\ EvidenceWithinFidelity

\* Whatever transition step returns replays to itself without the executor,
\* also when its observation was completed by step (environment.py:163-170,
\* 177-189): what a runner stores, a resumed run accepts.
StepsReplay ==
  \A a \in ValidActions(st) : \A t \in Results(st, a) : Replays(t)

\* Every episode ends, however cheap the actions are: rings run out and every
\* other action is taken once (environment.py:92-104).
EpisodesEnd == <>Terminal(st)

\* 2026-08-21-fidelity-graded-video-memory-design.md:131, EXPAND_CONTEXT
\* returns, beside Gists, only Residuals that existed before: a Residual is in
\* the evidence only of an event whose Residual was asked for.
ResidualWasRequested ==
  \A x \in st.evidence :
    x.level = RESIDUAL => Action("residual", x.event) \in st.taken
=============================================================================
