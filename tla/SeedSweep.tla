------------------------------- MODULE SeedSweep -------------------------------
(***************************************************************************)
(* Behaviour cloning over several seeds (router/train_bc.py).  A process   *)
(* loads the dataset, then trains one seed after the other, each with its  *)
(* own checkpoint file; it may die anywhere and be called again, to resume *)
(* or not, for more steps or fewer, with another config, after another     *)
(* commit or with other rows.  Two may be at work on the same files.       *)
(*                                                                         *)
(* What training computes is the list of what each step used: the rows,    *)
(* the draw of the random number generator, the state of the optimizer and *)
(* the scheduler, the config, the build.  Equal lists are equal weights.   *)
(***************************************************************************)
EXTENDS OracleDataset

CONSTANTS
    Trainers, Seeds,
    Configs,            \* what of a config is part of its identity
    Lengths,            \* values of max_steps
    CheckpointEvery,
    MaxBuilds,          \* bound: commits and library versions
    MaxCalls            \* bound: calls in all

ASSUME SweepAssumption ==
    /\ CheckpointEvery \in Nat \ {0} /\ Lengths \subseteq Nat \ {0}
    /\ Seeds \in Seq(Nat) /\ Seeds # <<>>

VARIABLES
    build,        \* HEAD and the libraries
    checkpoint,   \* seed -> the file
    trainer,
    overtaken     \* history: <<b, c>> where a process running c found HEAD at b for a seed

vars == <<rows, sidecar, writer, build, checkpoint, trainer, overtaken>>

\* The seeded generator and the freshly reset model and optimizer.
Fresh(seed) == [log |-> <<>>, optimizer |-> 0, rng |-> [seed |-> seed, drawn |-> 0]]

SeedSet == {Seeds[i] : i \in DOMAIN Seeds}
Nothing == [config |-> "none", seed |-> 0, records |-> {}, build |-> 0]
NoCheckpoint == [identity |-> Nothing, step |-> 0, model |-> Fresh(0)]
Saved(c) == c.step > 0

Idle(calls) ==
    [at |-> "idle", config |-> "none", length |-> 0, resume |-> FALSE, runs |-> 0,
     authority |-> NoSidecar, records |-> {}, seed |-> 1, identity |-> Nothing,
     step |-> 0, model |-> Fresh(0), results |-> {}, calls |-> calls]

Init ==
    /\ DatasetInit
    /\ build = 1
    /\ checkpoint = [s \in SeedSet |-> NoCheckpoint]
    /\ trainer = [t \in Trainers |-> Idle(0)]
    /\ overtaken = {}

-----------------------------------------------------------------------------
\* What a checkpoint is of: the config with its seed, the rows with their split, and the
\* commit as HEAD names it now.  max_steps, checkpoint_every and the path are not of it.
Identity(config, seed, records) ==
    [config |-> config, seed |-> seed, records |-> records, build |-> build]

\* _checkpoint_payload, with its self hash.
Payload(identity, step, model) == [identity |-> identity, step |-> step, model |-> model]

\* save_checkpoint: a synced temporary file takes the place of the seed's file.
SaveCheckpoint(c) == checkpoint' = [checkpoint EXCEPT ![c.identity.seed] = c]

\* One pass of the loop; `code` is the build that runs it.
Step(identity, code, m) ==
    [log       |-> Append(m.log, [drawn |-> m.rng, rows |-> TrainRows(identity.records),
                                  optimizer |-> m.optimizer, config |-> identity.config,
                                  code |-> code]),
     optimizer |-> m.optimizer + 1,
     rng       |-> [m.rng EXCEPT !.drawn = @ + 1]]

\* What training would have come to if it had never stopped: the i-th step uses the i-th
\* draw and the optimizer of the i-th step, the same rows and config each time, and the code
\* that it has for that step.
Uninterrupted(identity, codes) ==
    [log       |-> [i \in DOMAIN codes |->
                      [drawn     |-> [seed |-> identity.seed, drawn |-> i - 1],
                       rows      |-> TrainRows(identity.records),
                       optimizer |-> i - 1,
                       config    |-> identity.config,
                       code      |-> codes[i]]],
     optimizer |-> Len(codes),
     rng       |-> [seed |-> identity.seed, drawn |-> Len(codes)]]

Codes(m) == [i \in DOMAIN m.log |-> m.log[i].code]

\* So many steps of it, each run by the build that is named, or by one that some process was
\* still running when it asked for a build and was told this one.
IsUninterrupted(m, identity, steps, over) ==
    /\ m = Uninterrupted(identity, Codes(m)) /\ Len(m.log) = steps
    /\ \A i \in DOMAIN m.log :
         m.log[i].code = identity.build \/ <<identity.build, m.log[i].code>> \in over

\* Mutant of Restore: the generators are seeded again, and not put back.
RestoreReseeded(c) == [c.model EXCEPT !.rng.drawn = 0]

\* The model, the optimizer with its scheduler and the generators of a checkpoint.
Restore(c) == c.model

\* Mutant of Accepts: a checkpoint of other rows will do, and one that is further along.
AcceptsRows(c, identity, length) ==
    /\ Saved(c) /\ c.step <= length
    /\ [c.identity EXCEPT !.records = {}] = [identity EXCEPT !.records = {}]

\* Mutant of Accepts: a checkpoint may be further along than the run goes.
AcceptsFurther(c, identity, length) == Saved(c) /\ c.identity = identity

\* load_checkpoint, and that it is not beyond the run.
Accepts(c, identity, length) ==
    /\ Saved(c)
    /\ c.identity = identity
    /\ c.step <= length

-----------------------------------------------------------------------------
AtWork(t) == trainer[t].at \notin {"idle", "returned"}
Calls == FoldFunction(LAMBDA r, n : r.calls + n, 0, trainer)

\* main, with its arguments.
Call(t) ==
    /\ ~AtWork(t) /\ Calls < MaxCalls
    /\ \E c \in Configs, n \in Lengths, r \in BOOLEAN :
         trainer' = [trainer EXCEPT ![t] =
            [Idle(trainer[t].calls + 1) EXCEPT
                !.at = "authority", !.config = c, !.length = n, !.resume = r, !.runs = build]]
    /\ UNCHANGED <<datasetVars, build, checkpoint, overtaken>>

\* A call that raises leaves everything else as it is.
Refused(t) == trainer' = [trainer EXCEPT ![t] = Idle(@.calls)]

\* load_oracle_records reads the authority, and then the rows.
ReadAuthority(t) ==
    /\ trainer[t].at = "authority"
    /\ IF rows = {} \/ sidecar = NoSidecar THEN Refused(t)
       ELSE trainer' = [trainer EXCEPT ![t].at = "rows", ![t].authority = sidecar]
    /\ UNCHANGED <<datasetVars, build, checkpoint, overtaken>>

ReadRows(t) ==
    /\ trainer[t].at = "rows"
    /\ IF Loads(rows, trainer[t].authority)
       THEN trainer' = [trainer EXCEPT ![t].at = "seed", ![t].records = rows]
       ELSE Refused(t)
    /\ UNCHANGED <<datasetVars, build, checkpoint, overtaken>>

\* train_bc up to its loop.  HEAD is asked for once more for every seed, and may have moved
\* since the process loaded its code.
BeginSeed(t) ==
    LET me       == trainer[t]
        seed     == Seeds[me.seed]
        identity == Identity(me.config, seed, me.records)
        c        == checkpoint[seed]
    IN /\ me.at = "seed"
       /\ IF TrainRows(me.records) = {} \/ (me.resume /\ ~Accepts(c, identity, me.length))
          THEN Refused(t) /\ UNCHANGED overtaken
          ELSE /\ trainer' = [trainer EXCEPT ![t] =
                    [@ EXCEPT !.at = "train", !.identity = identity,
                              !.step = IF me.resume THEN c.step ELSE 0,
                              !.model = IF me.resume THEN Restore(c) ELSE Fresh(seed)]]
               /\ overtaken' = overtaken \cup ({<<build, me.runs>>} \ {<<build, build>>})
       /\ UNCHANGED <<datasetVars, build, checkpoint>>

\* A step, and the checkpoint that replaces the file in one move.
TrainStep(t) ==
    LET me    == trainer[t]
        step  == me.step + 1
        model == Step(me.identity, me.runs, me.model)
    IN /\ me.at = "train" /\ me.step < me.length
       /\ trainer' = [trainer EXCEPT ![t].step = step, ![t].model = model]
       /\ IF step % CheckpointEvery = 0 \/ step = me.length
          THEN SaveCheckpoint(Payload(me.identity, step, model))
          ELSE UNCHANGED checkpoint
       /\ UNCHANGED <<datasetVars, build, overtaken>>

\* The result is put down, for max_steps, and the next seed taken or the sweep returned.
EndSeed(t) ==
    LET me     == trainer[t]
        result == [identity |-> me.identity, step |-> me.length, model |-> me.model]
    IN /\ me.at = "train" /\ me.step >= me.length
       /\ trainer' = [trainer EXCEPT ![t] =
            [me EXCEPT !.at = IF me.seed = Len(Seeds) THEN "returned" ELSE "seed",
                       !.seed = @ + 1, !.results = @ \cup {result}]]
       /\ UNCHANGED <<datasetVars, build, checkpoint, overtaken>>

Dies(t) ==
    /\ trainer[t].at = "train"
    /\ Refused(t)
    /\ UNCHANGED <<datasetVars, build, checkpoint, overtaken>>

\* HEAD moves, whoever is at work.
Commit ==
    /\ build < MaxBuilds
    /\ build' = build + 1
    /\ UNCHANGED <<datasetVars, checkpoint, trainer, overtaken>>

Next ==
    \/ \E w \in Writers : /\ WriteRows(w) \/ WriteSidecar(w) \/ WriterDies(w)
                          /\ UNCHANGED <<build, checkpoint, trainer, overtaken>>
    \/ \E t \in Trainers :
         \/ Call(t) \/ ReadAuthority(t) \/ ReadRows(t) \/ BeginSeed(t)
         \/ TrainStep(t) \/ EndSeed(t) \/ Dies(t)
    \/ Commit

Spec == Init /\ [][Next]_vars

-----------------------------------------------------------------------------
\* The states and the files that a sweep may be in.
Identities == [config : Configs \cup {"none"}, seed : Nat, records : Datasets \cup {{}},
               build : Nat]
Rngs == [seed : Nat, drawn : Nat]
Entries == [drawn : Rngs, rows : SUBSET Records, optimizer : Nat,
            config : Configs \cup {"none"}, code : Nat]
Models == [log : Seq(Entries), optimizer : Nat, rng : Rngs]
Checkpoints == [identity : Identities, step : Nat, model : Models]

Sweeps ==
    [at : {"idle", "authority", "rows", "seed", "train", "returned"},
     config : Configs \cup {"none"}, length : Nat, resume : BOOLEAN, runs : Nat,
     authority : Sidecars, records : Datasets \cup {{}}, seed : Nat, identity : Identities,
     step : Nat, model : Models, results : SUBSET Checkpoints, calls : Nat]

TypeOK ==
    /\ rows \in Datasets \cup {{}} /\ sidecar \in Sidecars
    /\ writer \in [Writers -> [at : {"idle", "sidecar"}, records : Datasets \cup {{}},
                               writes : Nat]]
    /\ \A w \in Writers : writer[w].at = "sidecar" => writer[w].records \in Datasets
    /\ build \in Nat
    /\ checkpoint \in [SeedSet -> Checkpoints]
    /\ trainer \in [Trainers -> Sweeps]
    /\ overtaken \subseteq Nat \X Nat

\* Rows are trained on only with the authority that was written for them, whatever
\* writes the two files were read in the middle of.
LoadsAreWholeWrites ==
    \A t \in Trainers : trainer[t].records # {} =>
        trainer[t].authority = SidecarOf(trainer[t].records)

\* No step behind a checkpoint used a row whose target video has dev rows in the dataset, in
\* whatever manifest, nor a row whose example shows a video of a dev row's example of the same
\* manifest.  A video may be train in one manifest and dev in another; the other videos of an
\* example are not compared between manifests, so these may meet (README.md, section 6).
TrainingSeesNoDevVideo ==
    \A s \in SeedSet : Saved(checkpoint[s]) =>
        \A i \in DOMAIN checkpoint[s].model.log :
            \A r \in checkpoint[s].model.log[i].rows, d \in checkpoint[s].identity.records :
                d.split # "train" =>
                    /\ r.video # d.video
                    /\ r.manifest = d.manifest => r.videos \cap d.videos = {}

\* A checkpoint is what training without interruption would have come to at its step, for the
\* config, the seed and the rows that it names, however many processes have died and gone on
\* from each other's files.  Each step was run by the build that is named, except where HEAD
\* had moved under a process when it took up a seed under that name.
CheckpointsAreExact ==
    \A s \in SeedSet :
        LET c == checkpoint[s] IN
        Saved(c) => /\ c.identity.seed = s
                    /\ IsUninterrupted(c.model, c.identity, c.step, overtaken)

\* What a sweep reports for a seed after max_steps is what so many steps come to.
ResultsAreExact ==
    \A t \in Trainers : \A r \in trainer[t].results :
        IsUninterrupted(r.model, r.identity, r.step, overtaken)

\* Neither the files nor the results of training depend on who was interrupted when.
TrainingIsExact == TypeOK /\ CheckpointsAreExact /\ ResultsAreExact
=============================================================================
