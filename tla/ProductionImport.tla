-------------------------- MODULE ProductionImport --------------------------
(***************************************************************************)
(* The production commands of one sealed Authority                         *)
(* (experiments/observation_import.py 636-960, cli.py 153-222, 342-364 and *)
(* 465-512, production/provenance.py): import of provider observations,    *)
(* and report.  Every run of the Authority has its own generations; all of *)
(* them share one cache.                                                   *)
(*                                                                         *)
(* publish is the register write that GenerationStore implements: here it  *)
(* takes effect at one moment, and whoever called it may raise or die      *)
(* before it or after it.  Nothing locks a run or the cache: any number of *)
(* commands are at work at once.                                           *)
(***************************************************************************)
EXTENDS FiniteSets, Naturals

CONSTANTS
  Runs, Processes,
  Records,      \* provider observations
  Keys, Key,    \* Records -> the cache key of the observation
  Raw,          \* Records -> its raw response
  Sources,      \* Processes -> what its input files may hold
  Reporters,    \* the processes that also report
  MaxFaults     \* bound: exceptions and deaths

NoRecord == "no record"

ASSUME ImportAssumption ==
  /\ Key \in [Records -> Keys]
  /\ Raw \in [Records -> Records]
  /\ Sources \in [Processes -> SUBSET ((SUBSET Records) \ {{}})]
  /\ Reporters \subseteq Processes
  /\ NoRecord \notin Records
  /\ MaxFaults \in Nat

VARIABLES
  current,    \* Runs -> the generation CURRENT.json names
  begun,      \* the runs whose directory has something in it
  cache,      \* Keys -> the record whose entry is in the cache
  job,        \* Processes -> the command at work
  displaced,  \* history: the records whose entry in the cache another one replaced
  mixed,      \* history: the runs that an overtaken command recorded or reported
  faults

vars == <<current, begun, cache, job, displaced, mixed, faults>>

\* command_history is the set of its resume validations: a resume that had
\* nothing to import validates the records it found, and they stand for its entry
\* here (the code does not write them down).  Entries of other imports, and of
\* blocked ones, are written the same way and decide nothing: an entry is {R} or {}.
Histories == SUBSET SUBSET Records

NoReport == [there |-> FALSE]
Reports == {NoReport} \cup [there : {TRUE}, validated : BOOLEAN, of : SUBSET Records]

\* A generation: observations.jsonl with what is computed from it, state.json
\* and report.json.
Generation(R, log, report) ==
  [there |-> TRUE, records |-> R, log |-> log, report |-> report]
NoGeneration == [there |-> FALSE, records |-> {}, log |-> {}, report |-> NoReport]
Generations ==
  {NoGeneration} \cup
  [there : {TRUE}, records : (SUBSET Records) \ {{}}, log : Histories, report : Reports]

\* A command, from its first look at the run: where it is, the records it is to
\* publish, those whose cache entry is not bound yet, its entry for the history, and
\* what it has loaded.  It is overtaken (a history field) when another command
\* publishes a generation of its run while it holds something it has read of an
\* earlier one.
NoJob == [at |-> "idle"]
Job(run, at) ==
  [at |-> at, run |-> run, records |-> {}, todo |-> {}, put |-> NoRecord,
   entry |-> {}, log |-> {}, base |-> NoGeneration, overtaken |-> FALSE]
Points == {"bind", "put", "load", "collect", "store", "validate", "gather", "submit"}
Jobs == {NoJob} \cup
  [at : Points, run : Runs, records : SUBSET Records, todo : SUBSET Records,
   put : Records \cup {NoRecord}, entry : Histories, log : Histories,
   base : Generations, overtaken : BOOLEAN]

Idle(p) == job[p] = NoJob
At(p, point) == ~Idle(p) /\ job[p].at = point
RunOf(p) == job[p].run
Holding(j) == ~(j.at = "load" /\ j.entry = {})

Init ==
  /\ current = [r \in Runs |-> NoGeneration]
  /\ begun = {}
  /\ cache = [k \in Keys |-> NoRecord]
  /\ job = [p \in Processes |-> NoJob]
  /\ displaced = {}
  /\ mixed = {}
  /\ faults = 0

Finish(p) == job' = [job EXCEPT ![p] = NoJob]

\* The import is answered: what remains is to record it.
Answered(p, entry) ==
  [Job(RunOf(p), "load") EXCEPT
     !.entry = entry, !.overtaken = entry # {} /\ job[p].overtaken]
Answer(p, entry) == job' = [job EXCEPT ![p] = Answered(p, entry)]
Block(p) == Answer(p, {})

-----------------------------------------------------------------------------
\* Mutant of Refused: a directory with anything in it is a run to be resumed.
RefusedOnceBegun(run, resume) == (run \in begun) # resume

\* A run with a CURRENT generation is imported into with --resume only, and one
\* without it is begun without --resume unless its directory is empty.
Refused(run, resume) ==
  \/ current[run].there /\ ~resume
  \/ ~current[run].there /\ resume /\ run \in begun

\* _cache_manifest: one key, two raw responses.
Contradicts(R) == \E r, s \in R : Key[r] = Key[s] /\ Raw[r] # Raw[s]

\* Mutant of Merged: the import holds what the input file holds.
MergedAnew(run, source) == source

Merged(run, source) == current[run].records \cup source

\* A resume without new records goes on to bind the cache, as an import does, but
\* publishes nothing.
NothingNew(run, source, resume) ==
  resume /\ current[run].there /\ source \subseteq current[run].records

Import(p, run, source, resume) ==
  /\ Idle(p)
  /\ job' = [job EXCEPT ![p] =
       IF Refused(run, resume) \/ Contradicts(Merged(run, source)) THEN Job(run, "load")
       ELSE [Job(run, "bind") EXCEPT
               !.records = Merged(run, source), !.todo = Merged(run, source),
               !.entry = IF NothingNew(run, source, resume) THEN {Merged(run, source)} ELSE {}]]
  /\ UNCHANGED <<current, begun, cache, displaced, mixed, faults>>

\* Mutant of Collides: whatever is in the cache is taken for the record's.
CollidesNever(r) == FALSE

\* The entry in the cache is not this record's, whose id is part of it.
Collides(r) == cache[Key[r]] \notin {NoRecord, r}

\* _bind_production_cache: the entries one by one, get_bound first.
Bind(p) ==
  /\ At(p, "bind") /\ job[p].todo # {}
  /\ \E r \in job[p].todo :
       \/ Collides(r) /\ Block(p)
       \/ /\ ~Collides(r) /\ cache[Key[r]] # NoRecord
          /\ job' = [job EXCEPT ![p].todo = @ \ {r}]
       \/ /\ ~Collides(r) /\ cache[Key[r]] = NoRecord
          /\ job' = [job EXCEPT ![p].at = "put", ![p].put = r]
  /\ UNCHANGED <<current, begun, cache, displaced, mixed, faults>>

\* put_bound replaces whatever is there by then, even if it was put since get_bound.
Put(p) ==
  /\ At(p, "put")
  /\ cache' = [cache EXCEPT ![Key[job[p].put]] = job[p].put]
  /\ displaced' = (displaced \cup {cache[Key[job[p].put]]}) \ {job[p].put, NoRecord}
  /\ job' = [job EXCEPT ![p].at = "bind", ![p].todo = @ \ {job[p].put}, ![p].put = NoRecord]
  /\ UNCHANGED <<current, begun, mixed, faults>>

Bound(p) == At(p, "bind") /\ job[p].todo = {}

\* A resume that found nothing new.
Validated(p) ==
  /\ Bound(p) /\ job[p].entry # {}
  /\ Answer(p, job[p].entry)
  /\ UNCHANGED <<current, begun, cache, displaced, mixed, faults>>

Publishes(p) == Bound(p) /\ job[p].entry = {}

\* p publishes g and goes on as j; whoever holds something of its run is overtaken.
Takes(p, g, j) ==
  /\ current' = [current EXCEPT ![RunOf(p)] = g]
  /\ begun' = begun \cup {RunOf(p)}
  /\ job' = [q \in Processes |->
       IF q = p THEN j
       ELSE IF ~Idle(q) /\ RunOf(q) = RunOf(p) /\ Holding(job[q])
       THEN [job[q] EXCEPT !.overtaken = TRUE] ELSE job[q]]

Anew(p) == mixed' = mixed \ {RunOf(p)}
Mixing(p) == mixed' = mixed \cup {run \in {RunOf(p)} : job[p].overtaken}

\* The new generation has an empty history and no report.
Publish(p) ==
  /\ Publishes(p)
  /\ Takes(p, Generation(job[p].records, {}, NoReport), Answered(p, {}))
  /\ Anew(p)
  /\ UNCHANGED <<cache, displaced, faults>>

-----------------------------------------------------------------------------
(* _record_command: the history is loaded, then the artifacts are collected   *)
(* from what is current by then, and the two are published together.          *)
Load(p) ==
  /\ At(p, "load")
  /\ job' = [job EXCEPT ![p].at = "collect", ![p].log = current[RunOf(p)].log]
  /\ UNCHANGED <<current, begun, cache, displaced, mixed, faults>>

\* current_path raises when there is no generation, and the command with it.
Collect(p) ==
  /\ At(p, "collect")
  /\ \/ ~current[RunOf(p)].there /\ Finish(p)
     \/ /\ current[RunOf(p)].there
        /\ job' = [job EXCEPT ![p].at = "store", ![p].base = current[RunOf(p)]]
  /\ UNCHANGED <<current, begun, cache, displaced, mixed, faults>>

Store(p) ==
  /\ At(p, "store")
  /\ Takes(p, [job[p].base EXCEPT !.log = job[p].log \cup job[p].entry], NoJob)
  /\ Mixing(p)
  /\ UNCHANGED <<cache, displaced, faults>>

\* cmd_report: the history is loaded first; then validate_production_run asks
\* for a generation whose entries are all in the cache.
Report(p, run) ==
  /\ Idle(p)
  /\ job' = [job EXCEPT ![p] = [Job(run, "validate") EXCEPT !.log = current[run].log]]
  /\ UNCHANGED <<current, begun, cache, displaced, mixed, faults>>

IsCached(R) == \A r \in R : cache[Key[r]] = r

Validate(p) ==
  /\ At(p, "validate")
  /\ IF current[RunOf(p)].there /\ IsCached(current[RunOf(p)].records)
       THEN job' = [job EXCEPT ![p].at = "gather", ![p].records = current[RunOf(p)].records]
       ELSE Block(p)
  /\ UNCHANGED <<current, begun, cache, displaced, mixed, faults>>

Gather(p) ==
  /\ At(p, "gather")
  /\ job' = [job EXCEPT ![p].at = "submit", ![p].base = current[RunOf(p)]]
  /\ UNCHANGED <<current, begun, cache, displaced, mixed, faults>>

\* resume_validation: some import of the history validated a resume.
Submit(p) ==
  /\ At(p, "submit")
  /\ Takes(p, [job[p].base EXCEPT !.report =
       [there |-> TRUE, validated |-> job[p].log # {}, of |-> job[p].records]], NoJob)
  /\ Mixing(p)
  /\ UNCHANGED <<cache, displaced, faults>>

-----------------------------------------------------------------------------
\* What a publish that raises, or whose process dies, leaves behind: the run is
\* begun, and the generation may be current.
Partly(p, j) ==
  \/ job' = [job EXCEPT ![p] = j] /\ UNCHANGED <<current, begun, mixed>>
  \/ /\ Publishes(p)
     /\ begun' = begun \cup {RunOf(p)}
     /\ job' = [job EXCEPT ![p] = j] /\ UNCHANGED <<current, mixed>>
  \/ /\ Publishes(p)
     /\ Takes(p, Generation(job[p].records, {}, NoReport), j) /\ Anew(p)

\* An exception in the import is answered as a blocked command.
Raise(p) ==
  /\ At(p, "bind") \/ At(p, "put")
  /\ faults < MaxFaults /\ faults' = faults + 1
  /\ Partly(p, Answered(p, {}))
  /\ UNCHANGED <<cache, displaced>>

\* A death, or an exception anywhere else.
Die(p) ==
  /\ ~Idle(p)
  /\ faults < MaxFaults /\ faults' = faults + 1
  /\ Partly(p, NoJob)
  /\ UNCHANGED <<cache, displaced>>

Step(p) ==
  \/ Bind(p) \/ Put(p) \/ Validated(p) \/ Publish(p)
  \/ Load(p) \/ Collect(p) \/ Store(p)
  \/ Validate(p) \/ Gather(p) \/ Submit(p)

Next ==
  \E p \in Processes :
    \/ \E run \in Runs :
         \/ \E source \in Sources[p], resume \in BOOLEAN : Import(p, run, source, resume)
         \/ p \in Reporters /\ Report(p, run)
    \/ Step(p) \/ Raise(p) \/ Die(p)

Spec == Init /\ [][Next]_vars

\* Commands go on, and the operators keep importing each of their sources into every
\* run, with --resume once there is a CURRENT.json.
FairSpec ==
  /\ Spec
  /\ \A p \in Processes : WF_vars(Step(p))
  /\ \A p \in Processes, run \in Runs : \A source \in Sources[p] :
       SF_vars(Import(p, run, source, current[run].there))

-----------------------------------------------------------------------------
TypeOK ==
  /\ current \in [Runs -> Generations]
  /\ begun \subseteq Runs
  /\ cache \in [Keys -> Records \cup {NoRecord}]
  /\ job \in [Processes -> Jobs]
  /\ displaced \subseteq Records /\ mixed \subseteq Runs
  /\ faults \in 0..MaxFaults

\* Every observation of every current generation is in the cache under its own
\* record, whatever other runs, blocked imports and deaths left there: so that a
\* report never finds an envelope that differs from the manifest
\* (observation_import.py:717-768, 941-947).  Not so one whose entry was replaced by
\* a command that had found none when it looked (provenance.py:111-121).
CurrentIsCached == \A run \in Runs : IsCached(current[run].records \ displaced)

\* Observations that were imported stay: no later import, record or report of
\* the run publishes a generation without them (observation_import.py:883-916,
\* cli.py:177-186), unless another command published since it read the run.
RecordsAreKept ==
  [][\A run \in Runs :
       \/ current[run].records \subseteq current'[run].records
       \/ \E p \in Processes :
            ~Idle(p) /\ RunOf(p) = run /\ job[p].overtaken /\ job'[p] # job[p]]_vars

\* resume_validation in a history or in a report is about the observations of
\* the same generation, not about an earlier set that was added to since
\* (observation_import.py:826-833, cli.py:473-477), unless a command wrote it beside
\* what another one published after it had read the run.
ValidationIsOfTheseRecords ==
  \A run \in Runs \ mixed :
    LET g == current[run] IN
      /\ g.log \subseteq {g.records}
      /\ g.report.there => g.report.of = g.records
      /\ g.report.there /\ g.report.validated => g.log # {}

\* What a current generation says is borne out by the cache and by itself.
GenerationsAreSound == TypeOK /\ CurrentIsCached /\ ValidationIsOfTheseRecords

\* Sources that are imported again and again get in, whatever failed half-way, unless
\* a different observation has the key of one of their records, or of one the run has,
\* or commands keep overtaking each other (observation_import.py:858-950).
ImportsComplete ==
  []<>(\A p \in Processes, run \in Runs : \A source \in Sources[p] :
         \/ source \subseteq current[run].records
         \/ \E r \in Merged(run, source) : Collides(r)
         \/ \E q \in Processes : ~Idle(q) /\ RunOf(q) = run /\ job[q].overtaken)

\* docs/RUNBOOK.md:120-121, "Event-level amortizable observations exclude
\* question_id from their cache key": the observations of two questions that
\* share a key and a raw response do not block each other.
CollisionsAreReal ==
  \A p \in Processes :
    At(p, "bind") => \A r \in job[p].todo : Collides(r) => Raw[cache[Key[r]]] # Raw[r]
=============================================================================
