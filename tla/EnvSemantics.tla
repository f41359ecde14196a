---------------------------- MODULE EnvSemantics ----------------------------
(***************************************************************************)
(* What an action means: the pure part of MemoryEnvironment                *)
(* (actions/environment.py).  The mask of legal actions, the checks of an  *)
(* executor's observation, the charge and the state that follows.          *)
(*                                                                         *)
(* Events are numbered in canonical order.  A state keeps the set of       *)
(* actions taken where the code keeps the whole history, since the mask    *)
(* asks for membership only.  An item of evidence is its event and its     *)
(* fidelity; its text, score, attachments and acquisition step are left    *)
(* out.  Costs are natural numbers.                                        *)
(***************************************************************************)
EXTENDS Naturals, FiniteSets

CONSTANTS N,     \* the number of events
          Cost   \* ActionCostTable

Events == 1..N

GIST == 0   RESIDUAL == 1   VISUAL == 2
Levels == {GIST, RESIDUAL, VISUAL}

CostFields == {"search", "searchHit", "residual", "residualHit", "context",
               "contextHit", "low", "high", "lowQuestion", "highQuestion"}

ASSUME EnvAssumption == N \in Nat /\ Cost \in [CostFields -> Nat]

NoEvent == 0
Action(kind, event) == [kind |-> kind, event |-> event]
Search == Action("search", NoEvent)
Stop   == Action("stop", NoEvent)
Visual == {"low", "high"}
Kinds  == {"residual", "context"} \cup Visual
Actions == {Search, Stop} \cup {Action(k, e) : k \in Kinds, e \in Events}

Frontiers == [left : 0..N, right : 0..N]
NoFrontier == [left |-> 0, right |-> 0]

Evidence == [event : Events, level : Levels]

Terminal(s) == Stop \in s.taken
Seen(s, a) == a \in s.taken

-----------------------------------------------------------------------------
\* The price of an action that misses every cache, by which the mask judges it.
Upper(a) ==
  CASE a.kind = "search"   -> Cost["search"]
    [] a.kind = "residual" -> Cost["residual"]
    [] a.kind = "context"  -> Cost["context"]
    [] a.kind = "low"      -> Cost["low"] + Cost["lowQuestion"]
    [] a.kind = "high"     -> Cost["high"] + Cost["highQuestion"]
    [] OTHER -> 0

\* The next ring around an event whose context is known to the given frontier.
Neighbors(e, f) ==
  (IF f.left < e - 1 THEN {e - f.left - 1} ELSE {})
    \cup (IF f.right < N - e THEN {e + f.right + 1} ELSE {})

Available(s, a) ==
  IF a.kind = "context" THEN Neighbors(a.event, s.frontier[a.event]) # {}
                        ELSE ~Seen(s, a)

Affordable(s, a) == s.budget >= Upper(a)

\* Mutant of ValidActions: STOP has to wait for the first candidates.
ValidActionsLateStop(s) ==
  CASE Terminal(s) -> {}
    [] s.candidates = {} -> {a \in {Search} : ~Seen(s, a) /\ Affordable(s, a)}
    [] OTHER ->
         {a \in Actions \ {Search, Stop} :
            a.event \in s.candidates /\ Available(s, a) /\ Affordable(s, a)} \cup {Stop}

ValidActions(s) ==
  CASE Terminal(s) -> {}
    [] s.candidates = {} ->
         {a \in {Search} : ~Seen(s, a) /\ Affordable(s, a)} \cup {Stop}
    [] OTHER ->
         {a \in Actions \ {Search, Stop} :
            a.event \in s.candidates /\ Available(s, a) /\ Affordable(s, a)} \cup {Stop}

-----------------------------------------------------------------------------
(* An observation: what the executor returned, or what a bare one (no       *)
(* action_type) is completed to.  meta says whether its operation metadata  *)
(* has the scopes, amortization flags and frame counts the action demands.  *)
NoObservation == [bare |-> FALSE, meta |-> TRUE, hit |-> FALSE, candidates |-> {},
                  items |-> {}, frontier |-> NoFrontier]

\* step: a bare observation is given the metadata its action demands and, when
\* the context is expanded, the Gist of the next ring as its evidence.
Complete(s, a, o) ==
  IF ~o.bare THEN o
  ELSE LET ready == [o EXCEPT !.bare = FALSE, !.meta = TRUE]
       IN IF a.kind # "context" THEN ready
          ELSE [ready EXCEPT
                  !.frontier = s.frontier[a.event],
                  !.items = {[event |-> e, level |-> GIST] :
                               e \in Neighbors(a.event, s.frontier[a.event])}]

\* Mutant of Leaks: the level of the neighbour is not looked at.
LeaksVisualOnly(s, x) == x.level = VISUAL

\* Context evidence above Gist: a Residual is let through only for a neighbour
\* whose level is Residual or Visual.
Leaks(s, x) ==
  /\ x.level # GIST
  /\ ~(x.level = RESIDUAL /\ x.event \in s.candidates
         /\ s.level[x.event] \in {RESIDUAL, VISUAL})

Valid(s, a, o) ==
  /\ o.meta
  /\ CASE a.kind = "stop" -> o.items = {} /\ o.candidates = {}
       [] a.kind = "search" ->
            /\ o.frontier = NoFrontier
            /\ \A x \in o.items : x.event \in o.candidates /\ x.level = GIST
       [] a.kind = "residual" ->
            /\ o.candidates = {} /\ o.frontier = NoFrontier
            /\ \A x \in o.items : x.event = a.event /\ x.level = RESIDUAL
       [] a.kind \in Visual ->
            /\ o.candidates = {} /\ o.frontier = NoFrontier
            /\ \A x \in o.items : x.event = a.event /\ x.level = VISUAL
       [] a.kind = "context" ->
            /\ o.candidates = {} /\ o.frontier = s.frontier[a.event]
            /\ {x.event : x \in o.items} = Neighbors(a.event, s.frontier[a.event])
            /\ \A x \in o.items : ~Leaks(s, x)

\* What is paid.  A hit may be priced above a miss: the table does not forbid it.
Charge(a, o) ==
  CASE a.kind = "search"   -> IF o.hit THEN Cost["searchHit"] ELSE Cost["search"]
    [] a.kind = "residual" -> IF o.hit THEN Cost["residualHit"] ELSE Cost["residual"]
    [] a.kind = "context"  -> IF o.hit THEN Cost["contextHit"] ELSE Cost["context"]
    [] a.kind = "low"      -> (IF o.hit THEN 0 ELSE Cost["low"]) + Cost["lowQuestion"]
    [] a.kind = "high"     -> (IF o.hit THEN 0 ELSE Cost["high"]) + Cost["highQuestion"]
    [] OTHER -> 0

-----------------------------------------------------------------------------
\* The events an action makes known.
Found(s, a, o) ==
  CASE a.kind = "search"  -> o.candidates
    [] a.kind = "context" -> Neighbors(a.event, s.frontier[a.event])
    [] OTHER -> {}

\* Mutant of Raised: a later Residual overwrites the level of a verified event.
RaisedTo(a, old) ==
  CASE a.kind = "residual" -> RESIDUAL
    [] a.kind \in Visual   -> VISUAL
    [] OTHER -> old

\* _max of the level an action acquires and the one the event has.
Raised(a, old) ==
  CASE a.kind = "residual" -> IF RESIDUAL > old THEN RESIDUAL ELSE old
    [] a.kind \in Visual   -> VISUAL
    [] OTHER -> old

\* Mutant of Widened: both sides grow, also past the first or last event.
WidenedBlindly(e, f) == [left |-> f.left + 1, right |-> f.right + 1]

Widened(e, f) ==
  [left  |-> IF f.left < e - 1 THEN f.left + 1 ELSE f.left,
   right |-> IF f.right < N - e THEN f.right + 1 ELSE f.right]

Reduce(s, a, o, cost) ==
  LET known == s.candidates \cup Found(s, a, o)
  IN [candidates |-> known,
      level    |-> [e \in known |-> IF e \notin s.candidates THEN GIST
                                    ELSE IF e = a.event THEN Raised(a, s.level[e])
                                    ELSE s.level[e]],
      frontier |-> [e \in known |-> IF e \notin s.candidates THEN NoFrontier
                                    ELSE IF e = a.event /\ a.kind = "context"
                                           THEN Widened(e, s.frontier[e])
                                    ELSE s.frontier[e]],
      evidence |-> s.evidence \cup o.items,
      taken    |-> s.taken \cup {a},
      budget   |-> s.budget - cost]

-----------------------------------------------------------------------------
\* Mutant of Paid: the charge is taken without a look at what is left.
PaidBlindly(s, a, o) == TRUE

\* The check after the charge: the mask only saw the price of a miss.
Paid(s, a, o) == Charge(a, o) <= s.budget

\* A legal action's complete observation is accepted: step and replay alike
\* check it, charge it and only then move on.
Accepts(s, a, o) == Valid(s, a, o) /\ Paid(s, a, o)

\* The transition from s by a with the complete observation o.
Transition(s, a, o) ==
  [state |-> s, action |-> a, observation |-> o, next |-> Reduce(s, a, o, Charge(a, o))]

\* Mutant of Replays: replay charges the price of a miss.
ReplaysAtUpper(t) ==
  /\ t.action \in ValidActions(t.state)
  /\ Accepts(t.state, t.action, t.observation)
  /\ t.next = Reduce(t.state, t.action, t.observation, Upper(t.action))

\* replay of a stored transition returns it again: replay completes nothing.
Replays(t) ==
  /\ t.action \in ValidActions(t.state)
  /\ ~t.observation.bare
  /\ Accepts(t.state, t.action, t.observation)
  /\ t = Transition(t.state, t.action, t.observation)
=============================================================================
