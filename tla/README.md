# Formal models of fidmem

TLA+ models of the parts of fidmem (`src/src/fidmem`) in which order, failure,
resumption and search decide whether results can be trusted. They follow a result
from its sources to its report: the official videos and the sealed Authority, the
LongRoute questions, the oracle and its labels, the dataset, its training and the
rounds of DAgger, the memory environment and the runs in it, the run store with
its lock, the experiments behind their gates, the generations of production
observations. Each module is checked with TLC on small instances; what the runs
check of safety is also proved with TLAPS for every value of the constants, liveness is
left to TLC (section 5). Paths below
are relative to the repository; `X.py:n` is a line of `src/src/fidmem/**/X.py`.

## 1. The system

fidmem answers questions about long videos from a memory of graded fidelity
(Gist, Residual, Visual). A *router* chooses acquisitions within a budget; an
*oracle* labels good choices; DAgger and behaviour cloning train the router from
them; experiments run behind registered gates; production observations are
imported under a sealed *Authority*.

| Component | State it keeps | Operations | Talks to | What is hard |
|---|---|---|---|---|
| Claim lock (`run_store.py:13-100`) | thread locks per path, a flock per file | acquire, give up, release | run store | two levels of lock, one deadline, clean-up that may fail |
| Run store (`run_store.py:101-137`) | DuckDB table of items | claim, complete, fail, pending | claim lock, agent runner | leases, stale workers, lost answers |
| Memory environment (`environment.py`) | none; a `RouterState` goes through it | valid_actions, step, replay | executor, runner, oracle | fidelity of evidence, frontiers, prices of hits |
| Agent runner (`agent/runner.py`) | artifact files, items of the store | run, restore, answer | store, environment, policy, answerer | death between file and row, fixed file names |
| Experiment lifecycle (`execution_pack.py`) | run directory: metadata, snapshots, STATUS.json, markers | check, execute, resume | gates, executor, config | death between files, stale preflight |
| Gates (`execution_pack.py:315-404`, `gate_cli.py`) | one JSON file per gate | evaluate, write, load | lifecycle | check-then-write |
| Generation store (`generation.py`) | generation directories, CURRENT.json | publish, current_path | import, report | atomic switch under races and deaths |
| Production import (`observation_import.py`, `cli.py`, `provenance.py`) | generations of each run, one cache per Authority | import, resume, report | generation store, cache | cache bound before publication, history read-modify-write |
| Assets (`assets/videomme_v2.py`, `assets/setup.py`) | archives, their `.partial` files, media, identity records, plan | plan, download, extract, verify, decode, audit | HTTP, E01 | resumption at a byte offset, decay, deaths |
| Authority (`assets/authority_draft.py`, `production/authority.py`) | draft, one sealed JSON file, two gates | E01, draft, validate, seal | assets, every production command | edits between draft and seal, copies one by one |
| LongRoute data (`data/longroute.py`, `publication.py`, `leakage.py`) | published generations, pointer, last attempt | split, select, build, audit, publish | oracle, dataset | a pruned search; a publication of many steps |
| Oracle (`oracle/search.py`, `labels.py`) | none; a cache of observations | bounded and exhaustive search, labels | environment, DAgger, evaluation | ties, pruning, what is not cached yet |
| Policies and evaluation (`eval/`) | result files | run, attribute errors, aggregate | runner, oracle | horizons, a bound that must bound |
| DAgger rounds (`dagger_workflow.py`) | round generations, current pointer | begin, commit, recover, publish_existing, run | policies, datasets | indeterminate commits, retry, power failures |
| DAgger deviations (`dagger_core.py`) | keys seen, deviations | roll out, label, deduplicate, evaluate | oracle, rounds | labels over a cache that fills up |
| Dataset (`router/dataset.py`) | rows and, beside them, their authority | write, load, split | LongRoute, oracle, training | two files, two manifests |
| Behaviour cloning (`train_bc.py`) | a checkpoint per seed | train, resume | dataset, model | exact resume |
| Memory tiers, retrieval, providers, costs | cache entries | build, search, charge | models | (model calls) |

Most processes are single-threaded (callers of `RunStore.claim` may be threads);
concurrency comes from several processes over one directory or database, and from
deaths and reruns.

What makes each component correct:

* **Claim lock**: one body at a time; nothing left behind; nobody waits for ever.
* **Run store**: one holder per attempt; complete is final; attempts end; a row
  reads coherently.
* **Environment**: evidence never exceeds the fidelity acquired; the window of an
  event is contiguous and known; acquisition is monotone and within budget; what
  was stored replays; every episode ends.
* **Runner**: completed items form one replayable chain ended by STOP and one
  answer; reruns accept it; completed artifacts are final.
* **Lifecycle**: COMPLETED means delivered; an execution runs under gates and a
  configuration that are on record; a resumed run completes.
* **Generation store**: publish is atomic, readers always find a whole generation.
* **Import**: what is current is cached under its own record, observations are
  kept, a validation is about the records it stands beside, imports complete.
* **Assets, Authority**: what is reported as prepared is official; each gate stands
  on what the gate before it stood on; what is sealed is what was drafted from the
  tree; an operator who keeps asking gets there.
* **LongRoute**: what is published was audited, and stays; failed builds leave
  nothing in the way; the pruned search chooses what a full one would; the consumer
  accepts every example.
* **Oracle, policies**: no router beats the oracle that measures it; a label does
  not depend on what was cached when; a dearer preference never buys more; every
  wrong answer has the right kind of cause.
* **DAgger**: a round that was accepted is never lost or changed, each continues the
  one before, nothing follows a stop, a rerun returns.
* **Dataset, training**: rows are trained on only under the authority written for
  them, never with a target video that has dev rows, nor with a dev video of the same
  manifest; checkpoints and results are those of an uninterrupted training.

## 2. Modules

```
Mutex <== ClaimLock     RunStore <-- AgentRun       EnvSemantics <-- MemoryEnvironment
                                                         ^
AtomicRegister <== GenerationStore                  OracleSearch <-- Policies <-- DeviationCollection
(as one step in) ProductionImport
                                                    LongRoute <-- LongRoutePublication
RoundLog <== DaggerRounds       ExperimentRun       OracleDataset <-- SeedSweep
                                                    VideoPreparation <-- AuthoritySeal

StorageProofs        of ClaimLock, RunStore         AgentRunProofs       of AgentRun
ProductionProofs     of GenerationStore,            ExperimentRunProofs  of ExperimentRun
                        ProductionImport            AuthoritySealProofs  of AuthoritySeal
EnvironmentProofs    of MemoryEnvironment,          RouterDataProofs     of LongRoutePublication,
                        DeviationCollection                                 SeedSweep
DaggerRoundsProofs   of DaggerRounds

<== implements, <-- used by / extended by
```

**`ClaimLock`** models `_claim_file_lock`. `pc` is a caller's place in the
generator; `threadLock` is `_CLAIM_LOCKS[path]` of each process, `fileLock` the
flock, `handle` the open descriptors, `late` whether `deadline` has passed,
`primary` and `cleanup` the two exceptions of the `finally` block. Every
statement that may raise has an alternative in which it does. A death drops the
descriptors of its process, and the kernel drops the flock with them. `Mutex` is
the abstract lock; `Implements` maps its `running` to the callers in the body.

**`RunStore`** models the table. One SQL statement or transaction is one step. A
row has the columns of `run_items`, with `age` for `now - started_at` counted up
to the lease; a `session` is what a worker believes to hold, which the table
knows nothing of. `ClaimLost` is a claim that commits without the caller
learning of it, as `ClaimLock` shows is possible (clean-up error).

**`EnvSemantics`** has the pure definitions of `environment.py` (mask, checks,
charge, reduction, replay), **`MemoryEnvironment`** the episode: any legal
action, any answer of the executor, of which `step` rejects some. A state keeps
the set of actions where the code keeps the history (only membership is asked
for), evidence without text and scores, and natural-number costs.

**`AgentRun`** models `AgentRunner.run` over `INSTANCE RunStore`. An artifact is
its state (the moves that led to it) and its move. `WriteTemp`, `Replace` and
`Complete` are the three steps of `_complete`; names are shared, so `Replace` may
move another runner's file or find none. `Reclaim` is RunStore's `pending`, which goes by
the lease alone: `ReclaimOrphans` takes items from workers that are gone, `ReclaimLive` from
one that is at work and goes on; the history `lost` has the items that were taken so, and the
properties speak of the prefix before the first of them (`Kept`).

**`ExperimentRun`** models `check`, `execute_preflighted` and `gate_cli`. Each
`_atomic_bytes` is one step, `_status` two. `Check` reads gates, config and
devices in one step: what an edit between these reads could change is covered by edits after
the check. An experiment has one run id. Any number of invocations may have a run,
and any number of evaluations a gate: `recording` are the records that a `gate_cli` is about
to write, having found none. Two histories say where these met: `contested` are the runs
that were resumed while another invocation ran them, `overwritten` the records of a gate
that another record replaced.

**`GenerationStore`** models `publish` and `current_path`. A generation is its
artifacts since its directory is named after their hash. Writing into a private
staging directory is one step; look-up, rename and pointer are steps of their
own, each of which may raise or be the last one. **`AtomicRegister`** is what it
promises to its users.

**`ProductionImport`** models the import and report commands, with publication as
the one step `GenerationStore` proves it to be (a call that raised took effect or
not). `cache` is the Authority's cache, shared by all runs. `command_history` is
reduced to its resume validations, since no property asks for other entries. A command is
at work from its first look at the run; any number may be, as nothing locks a run. A job is
`overtaken` when another command publishes a generation of its run while it holds something it
has read; `mixed` are the runs that such a job then recorded or reported in,
`displaced` the records whose cache entry was put over by another one's.

**`VideoPreparation`** models `setup videos`: the ranked pilot and the archives that
cover it, the plan, transfers that go on at the size of the partial file (and may
end short, or be damaged), the check of an archive, extraction, identity records,
verification. A file is absent, official or damaged, a record says what it vouches
for; `Decay` damages a file, `DiePreparing` ends the command. **`AuthoritySeal`**
goes on from there: the preparation artifacts one by one, the human audit, E01 with
its copies and its gate, the draft over the tree (`repo` counts its edits), E02 that
validates and seals. `setup manifests` reads every video twice: `BeginManifests` is
`_verify_prepared_files`, which compares with the identity records, `Rehash` the second
reading, video by video, which records what it finds; E01 compares with that record only
(`slipped` has the videos that decayed by the time of the second reading). The order of `Split`
stands for the pilot's second hash; counts and cuts are scaled down. Damage has one value, so
that a second damage to a file is taken for the first, and the pending gate that the audit
writes is part of the audit.

**`LongRoute`** has the pure definitions of `longroute.py`: grouped split, candidates,
the pruned search for distractors (recursive, as the code is), the examples by their
questions, those that are upgraded to ask for a neighbour, and the lineage check of their
consumer. A *world* is what the
manifests and the seed decide. **`LongRoutePublication`** is
`LongRouteBuilder.build` over `PublicationBackend`: each operation between two
reads or writes of shared state is a step, each may raise, and so may those of the
exception handler. `files` is a version per side; they never return to earlier
bytes. An attempt is named after the snapshot it hashed. The parquet file of the
auditor and the staging directories are left out.

**`OracleSearch`** has `_search` depth by depth over the cached observations of
`EnvSemantics`' transitions, utilities in whole numbers, the priority key with all of
its ties, the canonical path and the labels. Answerer and Judge are two functions of the
evidence that need not agree: whether the answer is right, and its score. (The gold
comparison of the evaluation is the same `Right`.) The executor answers a question with one
observation per action, always a miss. **`Policies`** has the baselines of
`eval/baselines.py`, the trajectory of a policy, its value, and the error attribution. A value
is charged with the environment's cost only; `evaluate_run` charges base memory, policy,
controller and answerer besides (`eval/runner.py:1290-1320`), so a bound on it here is
one there. **`DeviationCollection`** is the
loop of `run_dagger` around them: `Round` collects over all train contexts and judges
the next policy on the dev contexts; what is missing makes the round raise, and
`Generate` caches it, all of it or what one of the two models can produce. A learned
policy is an order in which it prefers the kinds of action.

**`DaggerRounds`** models `DaggerRoundStore` and the loop of `run_dagger`. A
generation is its identity (a number per training, standing for its hashes), the
identity it was trained from, and whether it stopped the run; `Damaged` is one
that was partly removed. Each system call that orders something is a step: rename,
fsync of `generations`, replacement of the pointer, fsync of the root; each may
raise, and `os.replace` may raise although it replaced. `kept` and `keptPointer`
hold what a power failure may leave: a changed directory entry joins the set, an
fsync makes it the only member. `accepted` is a history: what a run last built on
or returned, per round. **`RoundLog`** is what it promises: an append-only log.

**`OracleDataset`** has the rows (`materialize_oracle_record`), what makes a dataset,
and the two files in which it is written and from which it is loaded; a hash stands
for what it is of. A row has the video of its target, and besides the videos that its example
shows, of which only the lineage check within one manifest takes notice. **`SeedSweep`** adds
the sweep of `train_bc.py` over the seeds: what training computes is the list of what each step used, so that equal lists are
equal weights; a checkpoint has that list, the positions of the optimizer and the
generator, and the identity it is of. `build` is HEAD, which may move while a process runs
(`overtaken`: under which name it then ran which build).

The **`MC*`** modules give sets and functions to the constants; `*Proofs` have the proofs.
Where two components share a proof module, the definitions of one have a prefix (`Lock...`,
`Pub...`, `Build...`, `Deviation...`).

## 3. Runs

| Run | Instance | Shows |
|---|---|---|
| claim_lock | 3 callers: 2 threads of one process, 1 of another | no leak, no endless wait, refinement of `Mutex` |
| run_store | 2 items, 3 workers, lease 1 tick, 3 claims per item | exclusive attempts, final completion, coherent rows, attempts end |
| memory_environment | 3 events, budget 3 | windows, fidelity and budget, replay, episodes end |
| agent_run | 2 processes, 3 transitions, 2 faults, of which a live reclaim is one | a replayable prefix, reruns accepted, durable result, the run is answered |
| experiment_run | 2 experiments, 2 invocations of either, 2 evaluations of a gate, 1 change, 1 fault | completed is delivered and final, on record, prepared runs complete |
| generation_store | 2 publishers, 2 readers, 3 generations | readers are served, refinement of `AtomicRegister` |
| production_import | 2 processes on 1 run, 3 records on 2 keys, 1 fault | cached and validated, kept, imports complete |
| authority_seal | 2 archives, 3 videos, pilot of 2, 2 rankings, 2 faults, 2 edits | prepared is official, gates rest on one another, an Authority is sealed |
| longroute | 3 videos of 2 events, 5 questions, 5 worlds, 2 builders, 2 faults, 1 death, each side replaced once | published is audited, stays, is published; the search and the examples against their references |
| deviation_collection | 3 events, 6 questions, 3 train contexts and 1 dev, beam 3, depth 5, 2 rounds | labels final, rounds accepted again, what the searches bound, errors attributed |
| dagger_rounds | 2 to 3 rounds, 4 faults | a whole chain, refinement of `RoundLog`, a rerun returns |
| seed_sweep | 1 writer with 4 studies, 2 trainers, 2 seeds, 2 or 3 steps, a checkpoint every 2, 3 calls, 2 builds that change at any time | whole writes, no dev video, exact resume |

`AcquisitionIsSound`, `RunIsReplayable`, `CompletionIsTrue`, `GenerationsAreSound`,
`PreparationIsSound`, `SealIsSound`, `PublicationIsSound`, `OracleIsAuthority`,
`EvaluationIsSound` and `TrainingIsExact` are conjunctions of named parts, each stated
and commented in its module.

Why the bounds are enough:

* *Three callers in two processes* is the least instance with contention at both
  levels at once. The leak and refinement properties are proved for all.
* *Three workers, three claims*: a stale worker, its successor and a third one
  who profits from the confusion; a lease of one tick tells "within" from "over".
* *Three events*: the middle one has neighbours on both sides, an outer one has
  two rings. A budget of three affords a chain search, residual, context and, as
  costs differ, leaves actions that cannot be paid; a Residual hit costs more than
  a miss, a context hit nothing.
* *Three transitions*: two chosen and one forced STOP. *Two faults*: a failure of
  the recovery from a failure.
* *Two experiments*: one with a gate before it, one without; devices matter to one. Two
  invocations of one run, or two evaluations of one gate, are all that can contend; the
  theorems have any number.
* *Two publishers* may publish the same or different artifacts of *three*; *two
  readers* are independent of one another.
* *Three records*: two share a key, a third one makes imports of several entries
  that fail half-way. One operator imports `b`, then `a` with it, and reports; the other one
  imports `c`, which has the key of `a`. Entries of dead and blocked imports stand for
  those of other runs; the theorems have any number of runs and of processes.
* *Two archives*, of two videos and of one: a pilot of two needs one of them or both,
  as the ranking has it. The volume holds the media twice, so a resumed download may
  or may not find room. *Two edits*, settings frozen at the first: a draft before, one
  that is stale, and one that is sealed.
* *Two builders*, each side of the files replaced once: the builders may name the
  same attempt or two; the five worlds have findings that come, stay or go with a
  replacement, too few labels, events too long, and a shared identity. The split, the
  search and the shares of questions are computed in every world.
* *Six questions*: found in and out of order, one the search finds nothing for, evidence at
  each fidelity, and evidence that lies outside what was found. Two contexts share a
  budget bin, two a preference; the beam of three prunes at every depth, the depth of
  five is the code's. In four of the questions Judge and gold answer agree; in one a right
  answer scores half, in one a wrong one scores full, and in one more evidence makes a right
  answer wrong without lowering its score.
* *Three rounds* are the code's own limit (`DAggerConfig`): one before the stop may
  be decided, one that may stop, one that must. *Four faults*: a warning, a power
  failure, a failing publication of the same round and a failing removal.
* *A checkpoint every second of two or three steps*: a run that ends on a checkpoint,
  one that ends between two, one resumed at its end, one resumed by a shorter run.
  The studies are a set of rows, a part of it, and two that must be refused.
  `Interchangeable` permutes the trainers, no property names one.

Counters that are bounded in guards: `MaxAttempt` (claims of an item),
`MaxFaults`, `MaxDeaths` (crashes, exceptions, failing executions, bad transfers, decays,
power failures), `MaxChanges`, `MaxEdits`, `MaxBuilds` (edits, replacements, commits,
readings), `MaxWrites`, `MaxCalls`, `MaxRounds`, and the lease as the highest age that is
told apart. `CHECK_DEADLOCK FALSE` stands where the system may stop: an episode or a
run that has ended, items that were all claimed as often as allowed, nothing left to
publish, all rounds done, an Authority sealed.

Each property is also shown to be sensitive to the code: a definition whose name
is commented "Mutant of X" is X with a plausible bug, and violates it.

## 4. Fairness

* `ClaimLock`: threads are scheduled, clocks run (`WF` of waiting, clean-up and
  the deadline). Nothing is assumed of the body, which may hang, or of crashes.
* `RunStore`: time passes and somebody calls `pending`. That is an obligation of
  the store's user: nothing under `src/src` calls it at this commit.
* `MemoryEnvironment`: a policy that is asked chooses.
* `AgentRun`: a process that runs goes on (`run` is a loop without waits), someone
  reruns what raised or died, an operator reclaims what nobody is at work on
  (`WF` of `ReclaimOrphans`, RUNBOOK.md:62-64). Taking items from live workers has none.
* `ExperimentRun`: an invocation goes on; `SF` of resuming, as the operator tries
  again (GPU_RUNBOOK.md, "Interruption and resume"). `ExecutorFails`, `Interrupt` and
  `Crash` have no fairness.
* `ProductionImport`: commands go on; `SF` of each operator's import of each of their
  sources into each run with the flag that fits the directory, which is enabled only when
  that process is not at another command.
* `AuthoritySeal`: a command that started goes on (`WF`); `SF` of each command the
  operator asks for again until it is done (restoring the metadata, `setup videos
  --resume`, `setup manifests`, E01, draft, E02) and of the edit that freezes the
  settings, since each of them is enabled only while no other one runs. None for
  transfers that go wrong, decays and deaths, which are finitely many.
* `LongRoutePublication`: builds go on, and one that failed is asked for again (`WF` of
  each builder's `Step`, which starts with `Start`). None for faults, deaths and
  replacements.
* `DaggerRounds`: a run goes on, and somebody starts another one when it raised or
  died (`WF` of `Run \/ Work`, RUNBOOK.md:44); no fault has fairness.
* `DeviationCollection`, `SeedSweep`, `GenerationStore` state safety only.

## 5. Proofs

Assumptions are those of the modules' `ASSUME`s: `NoThread \notin Threads`,
`ProcessOf` a function, `Lease` a number, `Cost` a function to numbers, `Seeds` a
sequence that is not empty and so on; sets may be infinite.

Where a proof needs a least element, or that a recursive function has values (an induction,
elsewhere), it takes them from the well-foundedness of the order, `WFMin` and `LeastOfNumbers`:
the induction theorems themselves are out of this prover's reach.

* **`StorageProofs`, the lock**. `LockIInv == LockTypeOK /\ Ownership`: `MutualExclusion` is
  not inductive, as it says nothing of who owns the flock at which label. `Ownership`
  says so (body implies owning the flock, owning it implies body/unlock/close, a
  thread lock belongs to a thread of its process), and that processes die as a
  whole. From it follow `LockTypeCorrect`, `Exclusion`, `NoLeak` (`NothingLeaks`), and
  `LockRefinement` (a step into the body finds no other there; every other step stutters
  or leaves).
* **`StorageProofs`, the store**. `SessionsBehindRows`: no session is ahead of its row's
  attempt, so a new claim's attempt is held by nobody: `ClaimsAreExclusive`.
  `CompletionIsFinal` needs only the type invariant, `RowsStayCoherent` one more
  conjunct per column.
* **`ProductionProofs`, generations**. The invariant adds that what a publisher found or is
  about to point at is installed (`PointingIsInstalled`) and that it has artifacts as
  long as it is at work. Then `ReadersAreServed`, and `StoreRefinesRegister` with
  `AsWrite` mapping a call's place to the register's write: `Point` is where it
  takes effect.
* **`ProductionProofs`, imports**. `JobIsSound` relates a command to what it has read: all
  that it is to publish, but what is still to be bound, was entered in the cache (`Entered`: the
  entry is there, or another record replaced it), and unless the command was overtaken, the
  history, the generation and the records it knows are still those of its run. Of
  one that was overtaken only the first is left. `MoveIsSound` carries it over steps that leave
  generations and cache alone, `OthersStaySound` and `TakingIsSound` over steps that publish,
  `OthersSurvivePut` over a new entry. `RecordsStay` is the action property.
* **`DaggerRoundsProofs`**. `AcceptedRoundsAreKept` is not inductive: a power failure
  could take an accepted generation that is not durable, and a clean-up could
  remove it. `IInv` adds that accepted rounds, and the rounds that any pointer
  names that is there *or may come back*, are durable (`AcceptedAreDurable`,
  `PointersAreSound`); that a run at work has accepted all rounds before its own
  (`RunIsSound`); and that nothing rests on a round while this run may remove it
  (`RoundIsFree`). `EntryIsHarmless` and `SettlingIsHarmless` are the two lemmas
  that carry it over renames and removals, and over fsyncs and power failures.
  Then `AcceptedAreKept`, `PointerChain`, and `LogRefinement`: a resumed or
  repeated acceptance is a stutter, any other one appends.
* **`AgentRunProofs`**. `RunIsReplayable` speaks of files and rows; the invariant adds what
  each runner has in memory (a prefix of the chain the completed items make), that
  the item it goes for is the next one and its own while it is there, and that what it is
  about to complete is the artifact on disk. `complete` asks for no attempt
  (`run_store.py:121-125`), so a worker whose item was taken replaces the artifact of its
  successor's completed item: what is said of the content of files holds of the items that were
  never taken from a worker at work (`Kept`). That items are completed in their order, and
  that nothing follows a STOP, holds of all.
* **`ExperimentRunProofs`**. `DeliveryIsComplete` (COMPLETED is found only on a run
  with its outputs and snapshots) holds with any number of invocations of one run at once: files
  are written in an order in which each one vouches for those before it, and only
  the one that made the directory writes before there is a status (`MakersAreAlone`).
  For `ExecutionStaysOnRecord`, `PreflightStands` follows a gate from the moment it was
  checked: it is on file until another record of it is, which is the history `overwritten`. For
  `CompletionStaysTrue`, `OneRunner` and `ReportIsOnFile` say of every run that is not
  `contested` that one invocation at most runs it, and that it reports what is on file.
* **`AuthoritySealProofs`**. `PreparedIsOfficial` speaks of the end of a command only;
  `RunIsSound` says on the way what the command has behind it (`ArchiveSettled`,
  `MediumSettled`), that subtitles from metadata that were edited meanwhile are known to
  be decayed, and that nothing is reported before the end. `RehashIsSound` does so for the second
  reading of `setup manifests`: a video that was read is found official or has
  decayed since it was verified, which makes each file of hashes vouch for all others. While
  E01 copies, what it found official is what its copies say, and the preparation is bound
  (`E01IsOnRecord`). For these, the pilot is a union over a set of positions, where the code
  loops: it then lies among the official videos (`PlanIsOfficial`) without induction. That it
  has `Count` videos and needs each of its archives (`PreparationStaysSound`) follows from
  counts that go up by one video at a time.
* **`RouterDataProofs`, training**. `IInv` is `TypeOK`, `SweepSound` and `CheckpointSound`: what a
  trainer holds in memory, and each checkpoint file, is the uninterrupted training
  of the identity it names, and the rows behind it are whole; the build of a step is the one
  named, or one that was running when HEAD was asked for (`Named`). `LoadedWithItsAuthority`:
  rows that load under an authority are all of those it was written for, as ids are
  unique in a dataset and a digest is of its row. `StepIsUninterrupted`: a step from the n-th
  state of a training leads to the next one; `Uninterrupted` is given in closed form, so that
  no induction over data is needed. `DevStaysUnseen` follows from what makes a dataset and from
  the lineage check of each example.
* **`RouterDataProofs`, publication**. Versions only go up, so what the auditor read lies
  between what was hashed and what is there now; `Recheck` finds these two equal, and all three
  are one. Then the builder at `publish` stands for an audited attempt. A directory has at
  most one builder that owns it, and that builder's attempt has never been current: so a
  failing build removes nothing that was (`CommittedGenerationsAreKept`) and what is left is owned
  (`PublicationStaysSound`).
* **`RouterDataProofs`, search**. `SelectionStaysFirst` is about the algorithm, for any
  lengths, bounds and ranking. `WeightAddsOne`: a sum is the same in whichever order the places
  are folded, so it grows with its set. `HopelessIsRight`: a completion that is acceptable has a
  part of as many places as are still needed, and is part of one with as many as there is room
  for; so neither sum that `Hopeless` looks at can exclude it. `SearchIsRight` takes the
  least set of places left for which the search were wrong: what it has taken comes
  before what is left, so a choice that takes the next place is before one that does without it,
  unless that one ends here, which would be acceptable already. `OneOfThemIsFirst` makes the result
  the one that the reference definition chooses.
* **`EnvironmentProofs`, episodes**. `AcquisitionIsSound` (types and budget, windows,
  evidence within fidelity) is inductive as it stands, for any number of events, any
  costs and any budget; the policy and the executor are whatever `Next` allows.
  `RingsAreEvents`: the neighbours a context expansion asks for exist. `WindowsWiden` and
  `LevelsGrow`: no step takes anything back. `CompletedAnswers`: what is left of an
  observation after the checks. `NewEvidence`: each kind of action brings evidence of
  its own level only. `StoredStepsReplay` follows from `CompletedAnswers`: what `step`
  stores is never bare, and of such an observation `replay` asks what `step` asked.
* **`EnvironmentProofs`, rounds**. `LabelsStayFinal`: a search that nothing is missing to is the
  search of the complete cache, depth by depth, since a depth expands the same nodes if the
  one before it had the same frontier; so a label that was given does not change when the cache
  fills up. `RoundsStayAcceptable`: the key of a deviation holds the path to it, so keys are
  unique within a round, and those of a round are disjoint from the ones seen before it.
  `OracleStaysAuthority` assumes a search of at least five steps, which is the router's horizon
  and the search's default depth: each node of a trajectory is then in a frontier or among the
  completed ones of the exhaustive search; the best path is first of those
  (`RouterNeverBeatsOracle`). `CanonicalIsCheapest`: where some path is right, the canonical one is
  the cheapest of these, so a router that is right pays as much and one that is not is worth
  nothing more than its score; `CanonicalIsFirst`: where none is, it is the label at 0. The
  completed paths of the beam are among the exhaustive ones, depth by depth, as a search of less
  finds less. That a dearer preference never buys more is the sum of two inequalities, one per
  preference. The invariant `DeviationIInv` says of the rounds what these lemmas say of a context.

* **`EnvironmentProofs`, evaluation**. `EvaluationStaysSound`, for any questions and any number
  N of events. The fixed policies stop by themselves within 2N+2 moves: the first search
  finds an event, each further step the next ring around it (fewer than N of them), and when all
  are known each step acquires one more, with a budget that was made for it. A node of such a
  trajectory after k steps is given in closed form (`FixedGoesOn`, `FixedCovers`). Levels never
  fall along a trajectory, so what was sufficient stays it. The causes of an error are listed
  by priority, and `Primary` is the first that holds: for each wrong answer the lemmas show that one
  does, and that none which holds comes before it.
* **`RouterDataProofs`, examples**. `ExamplesStayAccepted`, again about the algorithm.
  `PlacesInOrder`: ranking the chosen places is a bijection, so that the list of events is the
  target and each distractor once (`TargetsAreInserted`) and its duration the sum that the
  search had bounded (`WeightOfImage`). `SegmentsFollow`: each segment starts where the one before
  ends. `NeighbourExamples`: an upgraded question asks for a neighbour that reads differently, and
  its answer is that one's label. `DrawnAreAsMany` and `SharesAreBounded`: as many are upgraded as
  were asked for, which is within the share when the two roundings leave anything between them.

Left to TLC: liveness, `EpisodesEnd` and `BuildIsPublished` among it, which is out of the prover's
reach. Every invariant and every action property that a run checks is proved.

## 6. What the models found

Three of these are one constant away from the runs, and one is a property of its own: what is
named is stated in its module but is in no run.

* **A checked config is hashed differently when it is run**
  (`execution_pack.py:820-823` against `607, 727`): `configs/experiments/base.yaml:7`
  has an `env:` leaf, so a fresh run of any shipped experiment stops with "config
  snapshot differs from preflight identity", leaving a directory that can neither
  be run nor resumed. `CheckedRunsArePrepared` with `EnvReferences = TRUE`.
* **One response for two questions is a collision** (`observation_import.py:717-741`
  against RUNBOOK.md:120): `CollisionsAreReal` with `Raw` giving two records of one key
  the same response.
* **Context shows Residuals nobody acquired** (`environment.py:142` against the design
  document's line 131): an event at level Visual counts as one whose Residual is known.
  `ResidualWasRequested`, as memory_environment.

Observed while modelling:

* Attempts are not fenced (`run_store.py:121-125`): a stale worker fails or
  completes its successor's attempt, and the item is claimed again while that
  successor works. The file is replaced before the store is asked (`agent/runner.py:37-38`): a
  worker whose item was taken writes over the artifact of its successor's completed item.
  Reruns may then be rejected, and what was returned may not be on disk: `lost` in
  agent_run.
* After an interrupt or a resume a run directory holds FAILED and COMPLETED
  markers together; STATUS.json decides (`execution_pack.py:757-758, 876-883`).
* A death between `mkdir` and the first STATUS.json leaves a directory that is
  refused with and without `--resume` (`execution_pack.py:723, 790, 810`).
* Two invocations of one run at once: `CompletedIsDelivered` and `ExecutionIsOnRecord`
  hold of them, too, `ReportIsFinal` does not (`contested`). The slower one may execute a run
  that was reported as completed, or report a COMPLETED that the other one, about to
  write the marker, turns into FAILED.
* Devices in the resume identity include free memory and utilization
  (`execution_pack.py:419-453, 804`): a GPU run resumes only if they read the same.
* The gate file is looked for and then replaced (`execution_pack.py:391-396`): of two
  evaluations at once the second overwrites the first (`overwritten`). The runs behind the gate
  were checked with the other record and can no longer be resumed, as the digests of the
  gates are part of the identity (792-809).
* Outputs of an earlier attempt satisfy a later one (`execution_pack.py:855-859`),
  and a gate is evaluated from a result file whatever the run's status.
* Two imports at once can both find a cache key free (`provenance.py:111-121`,
  `observation_import.py:729-738`): the second replaces the entry of the first
  (`displaced`), whose run can then neither be reported nor imported into, as its own record
  collides. A command that publishes what it had read before another one published loses that
  one's observations and history (`overtaken`; `cli.py:177-186`), and its report may
  validate other records than it stands beside (`mixed`). Two operators whose commands keep
  overtaking each other may take each other's observations out for ever.
* A first import that is blocked ends in an uncaught ValueError, as there is no
  generation to record it in (`cli.py:363`); one that died leaves a directory that
  `--resume` refuses (`observation_import.py:878`).
* A partial archive that is complete but bad, or longer than the archive, is refused
  by every later command until it is removed by hand; `AuthorityIsSealed` allows for
  it. A resumed download asks for room for the whole uncompressed archive again.
* E01 hashes the videos but of the subtitles asks only whether they are there; its
  copies are not atomic (`videomme_v2.py:2065`); `authority-draft` reads them
  whatever the Source Gate says, and only E02 asks for the gate.
* `setup manifests` verifies the videos, then reads them again and records what it finds
  (`setup.py:145-152`, `videomme_v2.py:199-201`); E01 compares with that record only
  (1911-1915). A video that decays between the two readings and can still be decoded is sealed
  under the hash of the decayed file (`slipped`). The raw report and the video manifest are
  both written from that reading but not compared with each other, so a preparation or an
  E01 that died between them can leave two that name different hashes, which pass.
* A LongRoute build that died between its generation and the pointer is refused for
  ever after, as is one whose removal failed (`torn`); one that is asked for again after
  it succeeded overwrites `last-attempt.json` with "failed".
* A training video replaced between `_validated_sources` and `audit_hash_snapshot`
  (`longroute.py:702, 487`) is published under a hash the manifest does not declare; what
  is published is still what was audited. Two builders share the auditor's parquet path.
* A DAgger generation whose removal was cut short (`dagger_workflow.py:745-756, 909`)
  is refused by every later run (`1306`) until it is removed by hand: rmtree is not
  preceded by a rename to a name that `recover` would clear.
* A resumed DAgger run returns no warning although the pointer it resumes from was
  accepted with one (`1286-1296`). Nothing is lost by it: if the pointer falls
  back, the generations are durable and are published again. Nothing locks the root
  against a second run, whose `recover` removes the first one's staging directory (1245).
* `run_dagger_round` adds to the caller's keys before `_evaluate_dev` may raise; the loop
  passes it a copy (`dagger_workflow.py:1342`), so nothing comes of it.
* `evaluate_run` compares every preference with one frozen pair of score and cost that its
  caller supplies (`eval/runner.py:202-259, 1321-1329`); nothing ties it to an optimum. The pair of
  the canonical path, which may be the cheaper right one where the label at 0 is dearer and scores
  higher (`tests/oracle/test_labels.py:64-75`), bounds a router unless the Judge undervalued the
  right answer or the cost outweighs the score (`CanonicalPairBounds`); elsewhere a router
  that does better is refused with "realized trajectory exceeds frozen Oracle authority".
* The fixed policies take 2N+2 moves, the oracle five: with an ample budget they may be
  worth more than the oracle, and their evaluation ends in the same refusal.
  `RouterNeverBeatsOracle` is about the others.
* STOP by force counts as premature, so missing fidelity is never the primary cause;
  "useful upgrade available" asks neither for budget nor for legality; a wrong answer may
  have no cause where the same evidence is known to be answered rightly.
* The commit in a checkpoint's identity is HEAD of the working directory, asked for at
  every seed (`train_bc.py:348, 760`), while the process runs what it loaded: after a commit
  during a run, steps that one build ran are under the name of another (`overtaken` in
  `SeedSweep`), and a resumed run continues them with the build that has the name. Uncommitted
  changes are not part of it. A sweep that died before each seed had a checkpoint cannot be
  resumed (`train_bc.py:576`), only run again.
* The examples of a dataset are checked for their videos within their own manifest
  (`dataset.py:618-640`), the rows against one another by their target's video only (`913-919`):
  a training row may show, as a distractor, a video of which the dataset has dev rows of another
  manifest.

## 7. What is not modelled, and the plan

Simplifications of what is modelled: wording of messages, JSON and hashing (equal
content stands for equal hash), DuckDB's own locking beyond "the connection may
fail", Windows' branch of the file lock, static checks of configs and records.
`DaggerRounds` takes the artifact root and its `generations` directory as there and
durable before the first round, one run at a time, and one run identity: another one is
refused at the pointer (`dagger_workflow.py:1257`). `SeedSweep` checks one config,
since to the identity a config is what a build is. `LongRoute` has one seed. The
executor of `OracleSearch` is deterministic, as the frozen cache makes it.

Not modelled:

* *Gate evaluation, pack commands, pilot command line*: threshold arithmetic, and thin
  commands that write local files one after the other.
* *Memory tiers, answerer, providers, costs*: calls of frozen models behind
  content-addressed caches and floating-point accounting; what their users need of them is
  a nondeterministic answer in `MemoryEnvironment` and `AgentRun`, a score in `OracleSearch`.
* *Resolver and model stack, segmentation and decoding of video*: I/O and arithmetic
  without state that outlives the call.
* *Tensors and features of training, result files and metrics of evaluation, the adapter
  `dagger_task10`*: numbers whose values no property here asks for.

What could come next:

1. Fences: an attempt in `complete` and `fail`, a lock or a compare-and-swap on CURRENT.json,
   on gates and on run directories, and the properties without the histories that now say
   where commands met (`lost`, `contested`, `overwritten`, `overtaken`, `displaced`).
2. `Registry`: `validate_registry` and gate evaluation; whether a registry that is valid
   can be deadlocked by its gates.
3. Evaluation over result files (`eval/runner.py`), which is `AgentRun` without a store.
4. Two DAgger runs, and two operators of one Authority, at once over one directory: nothing
   locks these, and today's models have one at a time.
