---------------------------- MODULE DaggerRounds ----------------------------
(***************************************************************************)
(* The rounds of a DAgger run and the store that keeps them                *)
(* (router/dagger_workflow.py, DaggerRoundStore and run_dagger).  A round  *)
(* trains a policy from the one before it in a staging directory, renames  *)
(* that to an immutable generation, and moves the current pointer to it    *)
(* last.  Any system call may raise, the process may die between two of    *)
(* them, and the power may fail; a later run goes on with what it finds.   *)
(*                                                                         *)
(* The file system keeps a change of a directory only once the directory   *)
(* is fsynced: until then a power failure leaves the entry as it is or as  *)
(* it was.  kept[r] and keptPointer are what such a failure may leave.     *)
(***************************************************************************)
EXTENDS Integers

CONSTANTS MinRounds, MaxRounds,   \* DAggerConfig.min_rounds, max_rounds
          Nothing,                \* a directory or a pointer that is not there
          Damaged,                \* a generation that is partly removed
          MaxFaults               \* bound: errors, deaths and power failures

Generation == [id : Nat, source : Nat, stopped : BOOLEAN]
Pointer == [round : Nat, id : Nat]

ASSUME RoundsAssumption ==
  /\ MinRounds \in Nat /\ MaxRounds \in Nat /\ MaxFaults \in Nat
  /\ 2 <= MinRounds /\ MinRounds <= MaxRounds
  /\ Nothing # Damaged
  /\ {Nothing, Damaged} \cap (Generation \cup Pointer) = {}

VARIABLES
  gens,          \* round -> its generation's directory
  kept,          \* round -> what a power failure may leave of it
  pointer,       \* current.json
  keptPointer,   \* what a power failure may leave of it
  staging,       \* the rounds with a staging directory
  pc,            \* where run_dagger is
  round,         \* the round it works on
  base,          \* current_identity: the policy that round starts from
  work,          \* the generation it is about to publish
  ours,          \* cleanup_if_unattempted: did this run train it?
  trained,       \* how many times trainer.train returned: the next identity
  accepted,      \* round -> the generation a run last built on or returned
  faults         \* how many faults there were

memory == <<round, base, work, ours>>
disk == <<gens, kept, pointer, keptPointer, staging>>
vars == <<disk, pc, memory, trained, accepted, faults>>

Rounds == 1..MaxRounds
Contents == Generation \cup {Nothing, Damaged}

Outside == {"idle", "raised", "returned"}
Inside == {"load", "loop", "train", "rename", "sync", "point", "sync root",
           "remove", "removing"}

Init ==
  /\ gens = [r \in Rounds |-> Nothing]
  /\ kept = [r \in Rounds |-> {Nothing}]
  /\ pointer = Nothing
  /\ keptPointer = {Nothing}
  /\ staging = {}
  /\ pc = "idle"
  /\ round = 1 /\ base = 0 /\ work = Nothing /\ ours = FALSE
  /\ trained = 0
  /\ accepted = [r \in Rounds |-> Nothing]
  /\ faults = 0

Fault == faults < MaxFaults /\ faults' = faults + 1

\* The directory entry of round r changes to c, not durably yet.
Entry(r, c) == /\ gens' = [gens EXCEPT ![r] = c]
               /\ kept' = [kept EXCEPT ![r] = @ \cup {c}]

\* _load_generation(r): whole, and trained from the policy of its predecessor.
Continues(r, source) ==
  gens[r] \in Generation /\ gens[r].source = source

SourceOf(r) == IF r = 1 THEN 0 ELSE gens[r - 1].id

\* The rounds up to the one p names are on disk, each linked to the one before.
ChainTo(p) ==
  /\ p.round \in Rounds
  /\ \A r \in 1..p.round : Continues(r, SourceOf(r))
  /\ gens[p.round].id = p.id

-----------------------------------------------------------------------------
\* A run starts: store.recover() removes every staging directory.
Run ==
  /\ pc \in Outside
  /\ pc' = "load"
  /\ staging' = {}
  /\ round' = 1 /\ base' = 0 /\ work' = Nothing /\ ours' = FALSE
  /\ UNCHANGED <<gens, kept, pointer, keptPointer, trained, accepted, faults>>

\* No current pointer: the rounds start from the bootstrap policy.
StartAfresh ==
  /\ pc = "load"
  /\ pointer = Nothing
  /\ pc' = "loop"
  /\ UNCHANGED <<disk, memory, trained, accepted, faults>>

\* The rounds up to the current pointer are loaded and accepted as they are.
Resume ==
  /\ pc = "load"
  /\ pointer # Nothing
  /\ ChainTo(pointer)
  /\ accepted' = [r \in Rounds |-> IF r <= pointer.round THEN gens[r]
                                                         ELSE accepted[r]]
  /\ base' = pointer.id
  /\ IF gens[pointer.round].stopped
       THEN pc' = "returned" /\ UNCHANGED round
       ELSE pc' = "loop" /\ round' = pointer.round + 1
  /\ UNCHANGED <<disk, work, ours, trained, faults>>

\* Mutant of Republish: a generation no pointer names is in the way of the
\* round, as begin() has it.
RepublishNever ==
  /\ pc = "loop"
  /\ Continues(round, base)
  /\ pc' = "raised"
  /\ UNCHANGED <<disk, round, base, work, ours, trained, accepted, faults>>

\* The round's generation is there, from a run that got no further: load it,
\* and publish_existing().
Republish ==
  /\ pc = "loop"
  /\ Continues(round, base)
  /\ work' = gens[round]
  /\ ours' = FALSE
  /\ pc' = "sync"
  /\ UNCHANGED <<disk, round, base, trained, accepted, faults>>

\* _load_generation raises: at the rounds the pointer stands for, or at one that
\* no pointer names yet.
LoadRefused ==
  /\ \/ pc = "load" /\ pointer # Nothing /\ ~ChainTo(pointer)
     \/ pc = "loop" /\ gens[round] # Nothing /\ ~Continues(round, base)
  /\ pc' = "raised"
  /\ UNCHANGED <<disk, memory, trained, accepted, faults>>

\* begin(): a fresh staging directory for the round.
Begin ==
  /\ pc = "loop"
  /\ gens[round] = Nothing
  /\ staging' = staging \cup {round}
  /\ pc' = "train"
  /\ UNCHANGED <<gens, kept, pointer, keptPointer, memory, trained, accepted, faults>>

\* Mutant of MayStop: the last round is one too late.
MayStopLate(b) ==
  /\ round > MaxRounds => b
  /\ round < MinRounds => ~b

\* _stop_decision: b, whatever the metrics say, before min_rounds and at
\* max_rounds.
MayStop(b) ==
  IF round >= MaxRounds THEN b ELSE round < MinRounds => ~b

\* The policy is trained from base, and all artifacts are in the staging
\* directory, the manifest last, fsynced and the directory with them.
Train ==
  /\ pc = "train"
  /\ trained' = trained + 1
  /\ \E b \in BOOLEAN :
       MayStop(b) /\ work' = [id |-> trained + 1, source |-> base, stopped |-> b]
  /\ ours' = TRUE
  /\ pc' = "rename"
  /\ UNCHANGED <<disk, round, base, accepted, faults>>

\* Anything raises on the way: rollback(staging).
TrainFails ==
  /\ pc \in {"train", "rename"}
  /\ Fault
  /\ staging' = staging \ {round}
  /\ pc' = "raised"
  /\ UNCHANGED <<gens, kept, pointer, keptPointer, memory, trained, accepted>>

\* os.replace(staging, final); it may have replaced and raise all the same, and
\* then the generation is removed.
Rename ==
  /\ pc = "rename"
  /\ Entry(round, work)
  /\ staging' = staging \ {round}
  /\ \/ pc' = "sync" /\ UNCHANGED faults
     \/ pc' = "remove" /\ Fault
  /\ UNCHANGED <<pointer, keptPointer, memory, trained, accepted>>

-----------------------------------------------------------------------------
\* Mutant of SyncGenerations: the directory is not fsynced before the pointer
\* is replaced.
SyncNothing ==
  /\ pc = "sync"
  /\ pc' = "point"
  /\ UNCHANGED <<disk, memory, trained, accepted, faults>>

\* _publish_pointer: _fsync_directory(generations), before anything names the
\* new entry, and the pointer is written aside.
SyncGenerations ==
  /\ pc = "sync"
  /\ kept' = [r \in Rounds |-> {gens[r]}]
  /\ pc' = "point"
  /\ UNCHANGED <<gens, pointer, keptPointer, staging, memory, trained, accepted, faults>>

\* Mutant of NotAttempted: a generation of another run is removed as well.
NotAttemptedRemoves ==
  /\ pc \in {"sync", "point"}
  /\ Fault
  /\ pc' = "remove"
  /\ UNCHANGED <<disk, memory, trained, accepted>>

\* It raises before the pointer was touched: this run's generation is removed.
NotAttempted ==
  /\ pc \in {"sync", "point"}
  /\ Fault
  /\ pc' = IF ours THEN "remove" ELSE "raised"
  /\ UNCHANGED <<disk, memory, trained, accepted>>

\* os.replace(pointer_temporary, current)
ReplacePointer ==
  /\ pc = "point"
  /\ pointer' = [round |-> round, id |-> work.id]
  /\ keptPointer' = keptPointer \cup {pointer'}
  /\ pc' = "sync root"
  /\ UNCHANGED <<gens, kept, staging, memory, trained, accepted, faults>>

\* The replacement raises and the old pointer is there, or cannot be read: the
\* generation stays, for a later run.
ReplacePointerFails ==
  /\ pc = "point"
  /\ Fault
  /\ pc' = "raised"
  /\ UNCHANGED <<disk, memory, trained, accepted>>

\* Mutant of Accept: the run goes on whatever the round decided.
AcceptAndGoOn ==
  /\ accepted' = [accepted EXCEPT ![round] = work]
  /\ base' = work.id
  /\ IF round = MaxRounds
       THEN pc' = "returned" /\ UNCHANGED round
       ELSE pc' = "loop" /\ round' = round + 1
  /\ UNCHANGED <<work, ours>>

\* The round is accepted: its checkpoint is the result or the next one's source.
Accept ==
  /\ accepted' = [accepted EXCEPT ![round] = work]
  /\ base' = work.id
  /\ IF work.stopped
       THEN pc' = "returned" /\ UNCHANGED round
       ELSE pc' = "loop" /\ round' = round + 1
  /\ UNCHANGED <<work, ours>>

\* _fsync_directory(root)
SyncRoot ==
  /\ pc = "sync root"
  /\ keptPointer' = {pointer}
  /\ Accept
  /\ UNCHANGED <<gens, kept, pointer, staging, trained, faults>>

\* The replacement raised but is there, or the fsync of the root raised: the
\* round is accepted with a warning (_warning_outcome), unless what was
\* committed cannot be read back.
SyncRootFails ==
  /\ pc = "sync root"
  /\ Fault
  /\ \/ Accept
     \/ pc' = "raised" /\ UNCHANGED <<memory, accepted>>
  /\ UNCHANGED <<disk, trained>>

\* _remove(final) takes the files one by one, and the directory last.
BeginRemove ==
  /\ pc = "remove"
  /\ Entry(round, Damaged)
  /\ pc' = "removing"
  /\ UNCHANGED <<pointer, keptPointer, staging, memory, trained, accepted, faults>>

EndRemove ==
  /\ pc = "removing"
  /\ Entry(round, Nothing)
  /\ pc' = "raised"
  /\ UNCHANGED <<pointer, keptPointer, staging, memory, trained, accepted, faults>>

RemoveFails ==
  /\ pc \in {"remove", "removing"}
  /\ Fault
  /\ pc' = "raised"
  /\ UNCHANGED <<disk, memory, trained, accepted>>

-----------------------------------------------------------------------------
\* The process dies, or is interrupted past every `except Exception`.
Crash ==
  /\ pc \in Inside
  /\ Fault
  /\ pc' = "idle"
  /\ UNCHANGED <<disk, memory, trained, accepted>>

\* The power fails, whether or not a run is at work: every entry that was not
\* fsynced is what it is or what it was.  A rename that is undone leaves its
\* staging directory.
PowerFailure ==
  /\ Fault
  /\ \E g \in [Rounds -> UNION {kept[r] : r \in Rounds}] :
       /\ \A r \in Rounds : g[r] \in kept[r]
       /\ gens' = g
       /\ kept' = [r \in Rounds |-> {g[r]}]
  /\ pointer' \in keptPointer
  /\ keptPointer' = {pointer'}
  /\ staging' \in SUBSET (staging \cup {r \in Rounds : kept[r] # {gens[r]}})
  /\ pc' = "idle"
  /\ UNCHANGED <<memory, trained, accepted>>

\* What a run does when no call raises.
Work ==
  \/ StartAfresh \/ Resume \/ LoadRefused
  \/ Republish \/ Begin \/ Train \/ Rename
  \/ SyncGenerations \/ ReplacePointer \/ SyncRoot
  \/ BeginRemove \/ EndRemove

Raises ==
  \/ TrainFails \/ NotAttempted \/ ReplacePointerFails \/ SyncRootFails
  \/ RemoveFails

Next == Run \/ Work \/ Raises \/ Crash \/ PowerFailure

Spec == Init /\ [][Next]_vars

\* A run that started goes on, and whoever wants the result starts another one
\* when it raised or died.
FairSpec == Spec /\ WF_vars(Run \/ Work)

-----------------------------------------------------------------------------
DiskTypes ==
  /\ gens \in [Rounds -> Contents]
  /\ kept \in [Rounds -> SUBSET Contents]
  /\ \A r \in Rounds : gens[r] \in kept[r]
  /\ pointer \in keptPointer
  /\ keptPointer \subseteq Pointer \cup {Nothing}
  /\ staging \subseteq Rounds

RunTypes ==
  /\ pc \in Outside \cup Inside
  /\ round \in Rounds
  /\ base \in Nat
  /\ work \in Generation \cup {Nothing}
  /\ ours \in BOOLEAN
  /\ trained \in Nat
  /\ faults \in 0..MaxFaults

TypeOK ==
  /\ DiskTypes
  /\ RunTypes
  /\ accepted \in [Rounds -> Generation \cup {Nothing}]

\* Whatever raised, died or lost power, the current pointer names a chain of
\* whole generations, so that a later run is never refused at it
\* (dagger_workflow.py:861, 1255-1284).
PointerNamesAChain == pointer # Nothing => ChainTo(pointer)

\* A generation that a run built on or returned, durably or with a warning, is
\* on disk unchanged ever after: neither a failed publication nor a power
\* failure takes it back (dagger_workflow.py:851-909).
AcceptedRoundsAreKept ==
  \A r \in Rounds : accepted[r] # Nothing => gens[r] = accepted[r]

Log == INSTANCE RoundLog WITH log <- accepted

\* The accepted rounds are a log across all the runs: what a run accepts for a
\* round is what every later run accepts, each continues the one before, and
\* nothing follows a stop (dagger_workflow.py:1258-1296, 1324-1341, 1458-1477).
Implements == Log!Spec

\* A generation was being removed when a process died or the removal failed.
SomeDamage == \E r \in Rounds : gens[r] = Damaged

\* Whatever faults there were, a run that is started again returns in the end,
\* unless a removal was cut short (dagger_workflow.py:736-743, 1300-1341).
ARunReturns == []<>(pc = "returned" \/ SomeDamage)

-----------------------------------------------------------------------------
\* The inductive invariant.

\* Round r is on disk, continues the one before, and no power failure can take
\* it back.
Durable(r) == Continues(r, SourceOf(r)) /\ kept[r] = {gens[r]}

\* The rounds before n were accepted as they are on disk, and none stopped.
AcceptedBefore(n) ==
  \A r \in Rounds : r < n => Durable(r) /\ accepted[r] = gens[r] /\ ~gens[r].stopped

\* The last round stops, whatever it is that is there or may come back.
LastRoundStops ==
  \A g \in kept[MaxRounds] : g \in Generation => g.stopped

AcceptedAreDurable ==
  \A r \in Rounds : accepted[r] # Nothing =>
     gens[r] = accepted[r] /\ kept[r] = {gens[r]}

\* Each pointer that is there or may come back names a durable chain.
PointersAreSound ==
  \A p \in keptPointer : p # Nothing =>
    /\ p.round \in Rounds
    /\ AcceptedBefore(p.round)
    /\ Durable(p.round)
    /\ gens[p.round].id = p.id

AtWork == Inside \ {"load"}
Publishing == {"sync", "point", "sync root"}

\* No accepted round and no pointer rests on the round at work.
RoundIsFree ==
  /\ accepted[round] = Nothing
  /\ \A p \in keptPointer : p # Nothing => p.round < round

\* What the run at work holds in memory fits what is on disk.
RunIsSound ==
  /\ pc = "load" => round = 1 /\ base = 0
  /\ pc \in AtWork => AcceptedBefore(round) /\ base = SourceOf(round)
  /\ pc \in {"train", "rename"} => gens[round] = Nothing
  /\ pc \in {"rename"} \cup Publishing =>
       work \in Generation /\ work.source = base /\ (round = MaxRounds => work.stopped)
  /\ pc \in Publishing => gens[round] = work
  /\ pc \in {"point", "sync root"} => Durable(round)
  /\ pc = "sync root" => pointer = [round |-> round, id |-> work.id]
  /\ pc \in {"remove", "removing"} \/ (pc \in {"sync", "point"} /\ ours) => RoundIsFree

IInv == TypeOK /\ LastRoundStops /\ AcceptedAreDurable /\ PointersAreSound /\ RunIsSound
=============================================================================
