------------------------- MODULE LongRoutePublication -------------------------
(***************************************************************************)
(* LongRouteBuilder.build over PublicationBackend: the sources are read    *)
(* and audited against the evaluation videos, the examples are built, and  *)
(* one generation of files is published whole, with a pointer to it, or    *)
(* not at all (data/longroute.py, data/publication.py, data/leakage.py).   *)
(*                                                                         *)
(* Several builds of one seed share an output root.  A build may meet an   *)
(* error at every operation and may die between any two of them; the video *)
(* files may be replaced meanwhile, never by what they held before.        *)
(***************************************************************************)
EXTENDS LongRoute

CONSTANTS
    Builders,
    MaxChanges,  \* how often each side's files are replaced
    MaxFaults,   \* operations that raise
    MaxDeaths    \* builds that are killed

ASSUME BuildAssumption == {MaxChanges, MaxFaults, MaxDeaths} \subseteq Nat

VARIABLES
    world,       \* what the manifests and the seed decide
    files,       \* the version of the training and of the evaluation videos
    builder,     \* each builder's place, the snapshot it has, and what it owns
    generations, \* the directory of each attempt: absent, whole, or partly removed
    pointer,     \* current-generation.json
    lastAttempt, \* last-attempt.json
    faults, deaths,
    ever,        \* history: the generations the pointer has named
    torn         \* history: the attempts a death or a failing removal ended

buildVars == <<world, files, builder, generations, pointer, lastAttempt, faults, deaths, ever, torn>>

Versions == 0..MaxChanges
Snapshots == [train : Versions, eval : Versions]
None == [train |-> -1, eval |-> -1]

\* The operations of a build in their order, then those of its failure.
Places == {"idle", "validate", "snapshot", "audit", "begin", "write", "recheck", "publish",
           "announce", "point", "abort", "remove", "record"}

\* The hashes are equal or the centroids of the frames close.
Alike(w, f) == <<f.train, f.eval>> \in w.alike

\* The audit asks for the identities first.
Finding(w, f) == w.sameId \/ Alike(w, f)

\* The manifests declare the hashes of version 0.
Declared(f) == f.train = 0

Resting == [at |-> "idle", seen |-> None, owns |-> FALSE]

Go(b, place) == builder' = [builder EXCEPT ![b].at = place]
Fails(b) == Go(b, "abort")

BuildInit ==
    /\ world \in Worlds
    /\ files = [train |-> 0, eval |-> 0]
    /\ builder = [b \in Builders |-> Resting]
    /\ generations = [s \in Snapshots |-> "absent"]
    /\ pointer = None
    /\ lastAttempt = <<"none", None>>
    /\ faults = 0 /\ deaths = 0
    /\ ever = {} /\ torn = {}

-----------------------------------------------------------------------------
\* A build.

disk == <<files, generations, pointer, lastAttempt>>
counters == <<faults, deaths, ever, torn>>

Start(b) ==
    /\ builder[b].at = "idle"
    /\ Go(b, "validate")
    /\ UNCHANGED <<world, disk, counters>>

\* _validated_sources hashes the training files ...
Validate(b) ==
    /\ builder[b].at = "validate"
    /\ IF Declared(files) THEN Go(b, "snapshot") ELSE Fails(b)
    /\ UNCHANGED <<world, disk, counters>>

\* ... audit_hash_snapshot hashes all of them once more, which names the attempt ...
Snapshot(b) ==
    /\ builder[b].at = "snapshot"
    /\ builder' = [builder EXCEPT ![b].at = "audit", ![b].seen = files]
    /\ UNCHANGED <<world, disk, counters>>

\* ... and the auditor reads what the files hold by then.
Audit(b) ==
    /\ builder[b].at = "audit"
    /\ IF Finding(world, files) THEN Fails(b) ELSE Go(b, "begin")
    /\ UNCHANGED <<world, disk, counters>>

\* The examples, and begin_generation: a directory that exists is never written again.
Begin(b) ==
    /\ builder[b].at = "begin"
    /\ IF Buildable(world) /\ generations[builder[b].seen] = "absent"
       THEN Go(b, "write") ELSE Fails(b)
    /\ UNCHANGED <<world, disk, counters>>

Write(b) ==
    /\ builder[b].at = "write"
    /\ Go(b, "recheck")
    /\ UNCHANGED <<world, disk, counters>>

\* Mutant of Recheck: what was audited is taken to be what was hashed.
RecheckTrusts(b) ==
    /\ builder[b].at = "recheck"
    /\ Go(b, "publish")
    /\ UNCHANGED <<world, disk, counters>>

Recheck(b) ==
    /\ builder[b].at = "recheck"
    /\ IF files = builder[b].seen THEN Go(b, "publish") ELSE Fails(b)
    /\ UNCHANGED <<world, disk, counters>>

\* publish_generation renames the staging directory.
Publish(b) ==
    /\ builder[b].at = "publish"
    /\ IF generations[builder[b].seen] = "absent"
       THEN /\ generations' = [generations EXCEPT ![builder[b].seen] = "whole"]
            /\ builder' = [builder EXCEPT ![b].at = "announce", ![b].owns = TRUE]
       ELSE Fails(b) /\ UNCHANGED generations
    /\ UNCHANGED <<world, files, pointer, lastAttempt, counters>>

Announce(b) ==
    /\ builder[b].at = "announce"
    /\ lastAttempt' = <<"complete", builder[b].seen>>
    /\ Go(b, "point")
    /\ UNCHANGED <<world, files, generations, pointer, counters>>

\* publish_current: after this a build does not fail any more.
Point(b) ==
    /\ builder[b].at = "point"
    /\ pointer' = builder[b].seen
    /\ ever' = ever \cup {builder[b].seen}
    /\ builder' = [builder EXCEPT ![b] = Resting]
    /\ UNCHANGED <<world, files, generations, lastAttempt, faults, deaths, torn>>

-----------------------------------------------------------------------------
\* Its failure: the exception handler, whose own operations may raise.

\* Mutant of Abort: the directory of the attempt is removed whoever has published it.
AbortOfAny(b) ==
    /\ builder[b].at = "abort"
    /\ IF builder[b].seen # None /\ generations[builder[b].seen] # "absent"
       THEN /\ generations' = [generations EXCEPT ![builder[b].seen] = "part"]
            /\ Go(b, "remove")
       ELSE Go(b, "record") /\ UNCHANGED generations
    /\ UNCHANGED <<world, files, pointer, lastAttempt, counters>>

\* Mutant of Abort: what the build has published stays.
AbortOfStaging(b) ==
    /\ builder[b].at = "abort"
    /\ Go(b, "record")
    /\ UNCHANGED <<world, disk, counters>>

\* abort: a generation this build has published is removed, file by file.
Abort(b) ==
    /\ builder[b].at = "abort"
    /\ IF builder[b].owns
       THEN /\ generations' = [generations EXCEPT ![builder[b].seen] = "part"]
            /\ Go(b, "remove")
       ELSE Go(b, "record") /\ UNCHANGED generations
    /\ UNCHANGED <<world, files, pointer, lastAttempt, counters>>

RemoveDirectory(b) ==
    /\ builder[b].at = "remove"
    /\ generations' = [generations EXCEPT ![builder[b].seen] = "absent"]
    /\ builder' = [builder EXCEPT ![b].at = "record", ![b].owns = FALSE]
    /\ UNCHANGED <<world, files, pointer, lastAttempt, counters>>

\* failed-audit-<attempt>.json and last-attempt.json.
RecordFailure(b) ==
    /\ builder[b].at = "record"
    /\ lastAttempt' = <<"failed", builder[b].seen>>
    /\ builder' = [builder EXCEPT ![b] = Resting]
    /\ UNCHANGED <<world, files, generations, pointer, counters>>

\* An operation raises before it has had its effect.  In the handler this ends the build.
Fault(b) ==
    /\ faults < MaxFaults /\ builder[b].at # "idle"
    /\ faults' = faults + 1
    /\ IF builder[b].at \in {"abort", "remove", "record"}
       THEN /\ builder' = [builder EXCEPT ![b] = Resting]
            /\ torn' = IF builder[b].owns THEN torn \cup {builder[b].seen} ELSE torn
       ELSE Fails(b) /\ UNCHANGED torn
    /\ UNCHANGED <<world, disk, deaths, ever>>

Die(b) ==
    /\ deaths < MaxDeaths /\ builder[b].at # "idle"
    /\ deaths' = deaths + 1
    /\ torn' = IF builder[b].owns THEN torn \cup {builder[b].seen} ELSE torn
    /\ builder' = [builder EXCEPT ![b] = Resting]
    /\ UNCHANGED <<world, disk, faults, ever>>

\* Somebody replaces the training videos or the evaluation videos.
Replace(side) ==
    /\ files[side] < MaxChanges
    /\ files' = [files EXCEPT ![side] = @ + 1]
    /\ UNCHANGED <<world, builder, generations, pointer, lastAttempt, counters>>

BuildStep(b) ==
    \/ Start(b) \/ Validate(b) \/ Snapshot(b) \/ Audit(b) \/ Begin(b) \/ Write(b) \/ Recheck(b)
    \/ Publish(b) \/ Announce(b) \/ Point(b) \/ Abort(b) \/ RemoveDirectory(b) \/ RecordFailure(b)

BuildNext ==
    \/ \E b \in Builders : BuildStep(b) \/ Fault(b) \/ Die(b)
    \/ \E side \in {"train", "eval"} : Replace(side)

\* Builds run to their end, and a build that failed is asked for again.
BuildSpec == BuildInit /\ [][BuildNext]_buildVars /\ \A b \in Builders : WF_buildVars(BuildStep(b))

-----------------------------------------------------------------------------
BuildTypeOK ==
    /\ world \in Worlds /\ files \in Snapshots
    /\ builder \in [Builders -> [at : Places, seen : Snapshots \cup {None}, owns : BOOLEAN]]
    /\ generations \in [Snapshots -> {"absent", "whole", "part"}]
    /\ pointer \in Snapshots \cup {None}
    /\ lastAttempt \in {"none", "complete", "failed"} \X (Snapshots \cup {None})
    /\ faults \in 0..MaxFaults /\ deaths \in 0..MaxDeaths
    /\ ever \subseteq Snapshots /\ torn \subseteq Snapshots

\* What the pointer names is a whole generation of enough examples, and the training files
\* whose hashes it records have nothing in common with the evaluation files it records,
\* although the hashes, the audit and the publication read them at different times.
CurrentIsAudited ==
    pointer # None => /\ generations[pointer] = "whole"
                      /\ ~Finding(world, pointer) /\ Buildable(world)

\* No failure of a later or of a concurrent build, not even of one that had the same
\* attempt identity, takes from a generation that has once been current.
CommittedGenerationsStay ==
    [][\A s \in ever : generations'[s] = generations[s]]_buildVars

\* A build that fails leaves no directory its next attempt would stumble over; only a
\* death, or a second failure while the directory is removed, can leave one.
FailedBuildsLeaveNothing ==
    \A s \in Snapshots \ (ever \cup torn) :
        generations[s] # "absent" => \E b \in Builders : builder[b].owns /\ builder[b].seen = s

\* The directory of a dataset is sound at any time.
PublicationIsSound == BuildTypeOK /\ CurrentIsAudited /\ FailedBuildsLeaveNothing

\* The search for distractors stops early only where nothing acceptable is lost: it finds
\* the choice that is first among all acceptable ones, where of two choices that one is
\* first which is an initial part of the other or takes the first candidate they differ in.
IsFirst(S, T) ==
    LET D == (S \cup T) \ (S \cap T)
    IN D = {} \/ (S \subseteq T /\ \A i \in S, j \in T \ S : i < j)
              \/ (Min(D) \in S /\ ~(T \subseteq S /\ \A i \in T, j \in S \ T : i < j))

FirstChoice(w, target) ==
    LET len  == LengthsOf(w, Ranked(w, target))
        good == {S \in SUBSET DOMAIN len : Acceptable(len, w.length[target], S)}
    IN IF good = {} THEN NoChoice ELSE CHOOSE S \in good : \A T \in good : IsFirst(S, T)

SelectedFirst == [w \in Worlds |->
    \A target \in Events : SelectDistractors(w, target) = FirstChoice(w, target)]

SelectionIsFirst == SelectedFirst[world]

\* Every published example passes the lineage check of its consumer, keeps the builder's
\* bounds, stays within one split, and where it asks for a neighbour the answer is the
\* label of one of two events that read differently; 20 to 30 % of them do so.
AcceptedExample(w, x) ==
    /\ ValidLineage(w, x)
    /\ Len(x.segments) - 1 \in MinDistractors..MaxDistractors
    /\ x.duration \in MinDuration..MaxDuration
    /\ x.template = "before_after" =>
         /\ w.label[x.support[1]] # w.label[x.support[2]]
         /\ Targets[x.question] = x.support[IF x.relation = "after" THEN 1 ELSE 2]
         /\ x.answer = w.label[x.support[IF x.relation = "after" THEN 2 ELSE 1]]
         /\ x.answer # "None of these"

Accepted == [w \in Worlds |->
    LET X == ExamplesOf[w]
        n == Cardinality(DOMAIN X)
    IN /\ \A q \in DOMAIN X : AcceptedExample(w, X[q])
       /\ 100 * Cardinality({q \in DOMAIN X : X[q].template # "single_event"})
            \in (20 * n)..(30 * n)]

ExamplesAreAccepted == Accepted[world]

\* Builds that are asked for again publish something in the end, whatever failed before,
\* unless the sources forbid it or a torn directory stands in the way for ever.
BuildIsPublished ==
    <>(\/ pointer # None
       \/ ~Declared(files) \/ Finding(world, files) \/ ~Buildable(world)
       \/ files \in torn)
=============================================================================
