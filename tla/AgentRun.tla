------------------------------ MODULE AgentRun ------------------------------
(***************************************************************************)
(* Runs of one episode by AgentRunner (agent/runner.py): several processes *)
(* may run, die and rerun the same run id over one RunStore and one        *)
(* directory of artifacts.  Every step is an item of the store; its        *)
(* transition is written to a file under a fixed name, and only then is    *)
(* the item completed.  A rerun restores the completed prefix by replaying *)
(* the files, and goes on from there.                                      *)
(*                                                                         *)
(* An episode state is the sequence of moves made.  MemoryEnvironment      *)
(* shows what is used of the environment here: step returns a transition   *)
(* that replays to itself, or raises; STOP is legal until it was taken.    *)
(* Reclaiming leases (RunStore's pending) is done by an operator, and goes *)
(* by the lease alone: a worker that is slow, or whose lease is short, may *)
(* lose its item while it is at work, and goes on as if it had not.        *)
(***************************************************************************)
EXTENDS Naturals, Sequences, FiniteSets

CONSTANTS
  Runners,         \* the processes
  Moves,           \* the actions a policy may choose, STOP aside
  MaxTransitions,  \* max_transitions
  MaxFaults        \* bound: crashes, exceptions and items lost by workers, in all

ASSUME RunAssumption ==
  /\ MaxTransitions \in Nat /\ MaxTransitions >= 2
  /\ MaxFaults \in Nat

STOP == "STOP"
Answer == "answer"

NoMove == "nothing"    \* of an artifact that is not there

ASSUME MovesAssumption == {STOP, Answer, NoMove} \cap Moves = {}

\* transition-000 ..., and the answer as the item after the last of them.
AnswerKey == MaxTransitions
Keys == 0..AnswerKey

VARIABLES
  row, session,   \* the run store
  file,           \* Keys -> the artifact under its final name
  temp,           \* Keys -> the content of its .tmp file
  pc,             \* Runners -> where run() is
  mem,            \* Runners -> the state in memory, as the moves that led to it
  out,            \* Runners -> the artifact being written
  faults,
  lost            \* history: the items taken from a worker that was at work on them

files == <<file, temp>>
vars == <<row, session, file, temp, pc, mem, out, faults, lost>>

\* A lease of zero ticks: how long a lease is does not matter here, only
\* whether the worker it is taken from is still at work.
Store == INSTANCE RunStore WITH
  Items <- Keys, Workers <- Runners, Lease <- 0, MaxAttempt <- MaxFaults + 1

Nothing == [state |-> <<>>, move |-> NoMove]
EpisodeStates == UNION {[1..n -> Moves \cup {STOP}] : n \in 0..MaxTransitions}
Artifacts == [state : EpisodeStates, move : Moves \cup {STOP, Answer}] \cup {Nothing}

IsTerminal(s) == s # <<>> /\ s[Len(s)] = STOP

Init ==
  /\ Store!Init
  /\ file = [k \in Keys |-> Nothing]
  /\ temp = [k \in Keys |-> Nothing]
  /\ pc = [r \in Runners |-> "off"]
  /\ mem = [r \in Runners |-> <<>>]
  /\ out = [r \in Runners |-> Nothing]
  /\ faults = 0
  /\ lost = {}

Goto(r, label) == pc' = [pc EXCEPT ![r] = label]

\* Mutant of Completed: a failed item counts as done.
CompletedOrFailed(k) == row[k].status \in {"complete", "failed"}

Completed(k) == row[k].status = "complete"

\* Mutant of NextKey: the answer is stored under the next transition's key.
NextKeyOfTransition(r) == Len(mem[r])

\* The item a runner is about to claim.
NextKey(r) == IF IsTerminal(mem[r]) THEN AnswerKey ELSE Len(mem[r])

Fault == faults < MaxFaults /\ faults' = faults + 1

-----------------------------------------------------------------------------
\* run() is called, for the first time or again.
Start(r) ==
  /\ pc[r] \in {"off", "raised"}
  /\ Goto(r, "restore")
  /\ mem' = [mem EXCEPT ![r] = <<>>]
  /\ out' = [out EXCEPT ![r] = Nothing]
  /\ UNCHANGED <<row, session, files, faults, lost>>

\* The artifact of the next complete item is there, starts from the state
\* restored so far, and replays.
Restored(r) ==
  LET k == Len(mem[r]) IN file[k] # Nothing /\ file[k].state = mem[r]

\* _restore, one item: stop at the first that is not complete or after STOP.
RestoreStep(r) ==
  /\ pc[r] = "restore"
  /\ LET k == Len(mem[r])
     IN IF IsTerminal(mem[r]) \/ k = MaxTransitions \/ ~Completed(k)
          THEN Goto(r, "claim") /\ UNCHANGED mem
        ELSE IF Restored(r)
          THEN /\ mem' = [mem EXCEPT ![r] = Append(@, file[k].move)]
               /\ UNCHANGED pc
        ELSE Goto(r, "rejected") /\ UNCHANGED mem
  /\ UNCHANGED <<row, session, files, out, faults, lost>>

\* _answer finds a complete answer: it must be bound to the final state.
LoadAnswer(r) ==
  /\ pc[r] = "claim"
  /\ IsTerminal(mem[r])
  /\ Completed(AnswerKey)
  /\ Goto(r, IF file[AnswerKey] # Nothing /\ file[AnswerKey].state = mem[r]
               THEN "done" ELSE "rejected")
  /\ UNCHANGED <<row, session, files, mem, out, faults, lost>>

\* _claim, outside of any try block: it wins, ...
Claim(r) ==
  /\ pc[r] = "claim"
  /\ ~(IsTerminal(mem[r]) /\ Completed(AnswerKey))
  /\ Store!Claim(r, NextKey(r))
  /\ Goto(r, "act")
  /\ UNCHANGED <<files, mem, out, faults, lost>>

\* ... finds the item taken, ...
ClaimRefused(r) ==
  /\ pc[r] = "claim"
  /\ ~(IsTerminal(mem[r]) /\ Completed(AnswerKey))
  /\ row[NextKey(r)].status \in {"running", "complete"}
  /\ Goto(r, "raised")
  /\ UNCHANGED <<row, session, files, mem, out, faults, lost>>

\* ... or raises after the row was claimed: nothing marks the item as failed.
ClaimLost(r) ==
  /\ pc[r] = "claim"
  /\ Store!ClaimLost(r, NextKey(r))
  /\ Goto(r, "raised")
  /\ Fault
  /\ UNCHANGED <<files, mem, out, lost>>

\* Mutant of Chosen: STOP is forced one transition too late.
ChosenLate(s) == Moves \cup {STOP}

\* The policy's choice; the last transition is a forced STOP.
Chosen(s) == IF Len(s) = MaxTransitions - 1 THEN {STOP} ELSE Moves \cup {STOP}

\* Mutant of Act: the artifact is bound to the state the run began with.
ActOnFirstState(r) ==
  /\ pc[r] = "act"
  /\ \E m \in IF IsTerminal(mem[r]) THEN {Answer} ELSE Chosen(mem[r]) :
       out' = [out EXCEPT ![r] = [state |-> <<>>, move |-> m]]
  /\ Goto(r, "write")
  /\ UNCHANGED <<row, session, files, mem, faults, lost>>

\* Policy, environment and answerer, none of which touches the store.
Act(r) ==
  /\ pc[r] = "act"
  /\ \E m \in IF IsTerminal(mem[r]) THEN {Answer} ELSE Chosen(mem[r]) :
       out' = [out EXCEPT ![r] = [state |-> mem[r], move |-> m]]
  /\ Goto(r, "write")
  /\ UNCHANGED <<row, session, files, mem, faults, lost>>

\* An exception inside a try block: the policy or provider fails, or a write, or
\* the database cannot be opened to complete the item.
Raise(r) ==
  /\ pc[r] \in {"act", "write", "replace", "complete"}
  /\ Goto(r, "fail")
  /\ Fault
  /\ UNCHANGED <<row, session, files, mem, out, lost>>

-----------------------------------------------------------------------------
\* Mutant of WriteTemp: the temporary file is never moved to its final name.
WriteTempOnly(r) ==
  /\ pc[r] = "write"
  /\ temp' = [temp EXCEPT ![NextKey(r)] = out[r]]
  /\ Goto(r, "complete")
  /\ UNCHANGED <<row, session, file, mem, out, faults, lost>>

\* _complete: the temporary file, then the artifact, then the item.
WriteTemp(r) ==
  /\ pc[r] = "write"
  /\ temp' = [temp EXCEPT ![NextKey(r)] = out[r]]
  /\ Goto(r, "replace")
  /\ UNCHANGED <<row, session, file, mem, out, faults, lost>>

\* temp.replace(target): the name is fixed, so the file may be another runner's,
\* or gone.
Replace(r) ==
  /\ pc[r] = "replace"
  /\ LET k == NextKey(r)
     IN IF temp[k] # Nothing
          THEN /\ file' = [file EXCEPT ![k] = temp[k]]
               /\ temp' = [temp EXCEPT ![k] = Nothing]
               /\ Goto(r, "complete")
          ELSE Goto(r, "fail") /\ UNCHANGED files
  /\ UNCHANGED <<row, session, mem, out, faults, lost>>

\* store.complete: on success the runner goes on; ValueError leads to fail.
Complete(r) ==
  /\ pc[r] = "complete"
  /\ Store!Complete(r)
  /\ IF row[NextKey(r)].status = "running"
       THEN /\ mem' = [mem EXCEPT ![r] =
                         IF out[r].move = Answer THEN @ ELSE Append(@, out[r].move)]
            /\ Goto(r, IF out[r].move = Answer THEN "done" ELSE "claim")
       ELSE Goto(r, "fail") /\ UNCHANGED mem
  /\ UNCHANGED <<files, out, faults, lost>>

\* _fail, then the exception goes on to the caller of run().
Fail(r) ==
  /\ pc[r] = "fail"
  /\ Store!Fail(r)
  /\ Goto(r, "raised")
  /\ UNCHANGED <<files, mem, out, faults, lost>>

-----------------------------------------------------------------------------
Active == {"restore", "claim", "act", "write", "replace", "complete", "fail"}

\* A process dies: what it wrote stays, what it had in memory is gone.
Crash(r) ==
  /\ pc[r] \in Active
  /\ Fault
  /\ session' = [session EXCEPT ![r] = Store!Idle]
  /\ pc' = [pc EXCEPT ![r] = "off"]
  /\ mem' = [mem EXCEPT ![r] = <<>>]
  /\ out' = [out EXCEPT ![r] = Nothing]
  /\ UNCHANGED <<row, files, lost>>

\* The items that are running, each with a worker at work on it.
AtWork == {k \in Keys : /\ row[k].status = "running"
                        /\ \E r \in Runners : Store!Busy(r) /\ session[r].item = k}

\* The operator calls pending when what is running has nobody to work on it, ...
ReclaimOrphans ==
  /\ Store!Pending
  /\ AtWork = {}
  /\ UNCHANGED <<files, pc, mem, out, faults, lost>>

\* ... or while somebody has.
ReclaimLive ==
  /\ Store!Pending
  /\ AtWork # {}
  /\ lost' = lost \cup AtWork
  /\ Fault
  /\ UNCHANGED <<files, pc, mem, out>>

Reclaim == ReclaimOrphans \/ ReclaimLive

Work(r) ==
  \/ RestoreStep(r) \/ LoadAnswer(r) \/ Claim(r) \/ ClaimRefused(r)
  \/ Act(r) \/ WriteTemp(r) \/ Replace(r) \/ Complete(r) \/ Fail(r)

Next ==
  \/ \E r \in Runners : Start(r) \/ Work(r) \/ ClaimLost(r) \/ Raise(r) \/ Crash(r)
  \/ Reclaim

Spec == Init /\ [][Next]_vars

\* A process that runs goes on, somebody reruns what raised or died, and an
\* operator reclaims what dead workers left.  Faults are finitely many.
FairSpec ==
  /\ Spec
  /\ \A r \in Runners : WF_vars(Work(r)) /\ WF_vars(Start(r))
  /\ WF_vars(ReclaimOrphans)

-----------------------------------------------------------------------------
Labels == Active \cup {"off", "raised", "rejected", "done"}

TypeOK ==
  /\ Store!TypeOK
  /\ file \in [Keys -> Artifacts]
  /\ temp \in [Keys -> Artifacts]
  /\ pc \in [Runners -> Labels]
  /\ mem \in [Runners -> EpisodeStates]
  /\ out \in [Runners -> Artifacts]
  /\ faults \in 0..MaxFaults
  /\ lost \subseteq Keys

\* The moves of the first k artifacts.
Chain(k) == [j \in 1..k |-> file[j - 1].move]

\* No transition before the k-th was taken from a worker that was at work on it.
Kept(k) == lost \cap (0..k - 1) = {}

\* An item is complete only after all before it, its artifact is there, and it goes
\* on from a state of as many moves that has not stopped: from where the artifacts
\* before it lead, unless one of these was taken from a worker at work on it, which
\* then wrote over what its successor completed.  So with the answer, which follows
\* a STOP.
CompletedItemsChain ==
  /\ \A k \in 0..MaxTransitions - 1 : Completed(k) =>
       /\ \A j \in 0..k : Completed(j) /\ file[j] # Nothing
       /\ Len(file[k].state) = k /\ ~IsTerminal(file[k].state)
       /\ Kept(k) => file[k].state = Chain(k)
  /\ Completed(AnswerKey) =>
       \E k \in 1..MaxTransitions :
         /\ Completed(k - 1)
         /\ Len(file[AnswerKey].state) = k /\ IsTerminal(file[AnswerKey].state)
         /\ Kept(k) => file[AnswerKey].state = Chain(k)

\* What the store and the files hold of a run at any time can be replayed, up to the
\* first item that was taken from a worker at work on it.
RunIsReplayable == TypeOK /\ CompletedItemsChain

\* A rerun is never refused by what earlier runs of the same id left behind
\* (RUNBOOK.md:62; runner.py:45-58, 62-70), unless one of the transitions it has
\* restored was taken from a worker at work on it.
RerunIsNeverRejected == \A r \in Runners : pc[r] = "rejected" => ~Kept(Len(mem[r]))

\* What a runner returns ends with a STOP no later than the last transition allowed,
\* all of it is complete, and it is what is on disk unless a transition of it was
\* taken from a worker at work on it.
ResultIsDurable ==
  \A r \in Runners : pc[r] = "done" =>
    /\ IsTerminal(mem[r])
    /\ Len(mem[r]) <= MaxTransitions
    /\ Completed(AnswerKey) /\ \A j \in 0..Len(mem[r]) - 1 : Completed(j)
    /\ Kept(Len(mem[r])) =>
         mem[r] = Chain(Len(mem[r])) /\ file[AnswerKey].state = mem[r]

\* However runs were interrupted, the run is answered in the end, or an item was
\* taken from a worker at work on it.
RunIsAnswered == <>(Completed(AnswerKey) \/ lost # {})
=============================================================================
