---------------------------- MODULE AuthoritySeal ----------------------------
(***************************************************************************)
(* From verified media to a sealed Authority: `setup manifests`, the human *)
(* audit, E01, the Authority draft and E02 (assets/videomme_v2.py,         *)
(* assets/setup.py, assets/authority_draft.py, production/authority.py).   *)
(* One command runs at a time; each may die between two of its files.      *)
(***************************************************************************)
EXTENDS VideoPreparation

CONSTANTS
    FrozenAt,   \* the version of the repository from which its prompts and settings are FROZEN
    MaxEdits    \* bounds versions of the repository

ASSUME SealAssumption == {FrozenAt, MaxEdits} \subseteq Nat

VARIABLES
    job,        \* the command of this module at work, and the files it still writes
    prep,       \* preparation artifacts on disk
    audit,      \* whether a completed human result binds the audit manifest
    results,    \* artifacts copied to E01's results
    gate,       \* results/source_gate.json
    checked,    \* history: videos that were official when E01 looked at them
    torn,       \* history: whether a repetition of E01 died over results that had passed
    repo,       \* the version of the source tree
    draft,      \* ProductionAuthorityDraft.json
    sealed,     \* PRODUCTION_AUTHORITY.json
    sealGate    \* authority_gate_result.json

sealVars == <<job, prep, audit, results, gate, checked, torn, repo, draft, sealed, sealGate>>
vars == <<prepVars, sealVars>>

\* write_dataset_preparation's artifacts in their order, those of one kind as one: the raw
\* report and what stands before it, the video manifest, the manifests that bind its hash,
\* the audit manifest with the pending gate that binds it.
PrepFiles == <<"reports", "manifests", "dataset", "source_gate">>
Kinds == {PrepFiles[i] : i \in DOMAIN PrepFiles}

\* Of a file of hashes, the videos it has the official hash of.  History: those it has
\* another hash of because they decayed between the two looks of `setup manifests`.
NoFile == [there |-> FALSE, videos |-> {}, slipped |-> {}]
NoFiles == [k \in Kinds |-> NoFile]

NoJob == [pc |-> "idle", next |-> 1, todo |-> {}, found |-> {}, slipped |-> {}]
NoDraft == [repo |-> 0, resolved |-> FALSE, written |-> FALSE,
            manifests |-> NoFile, dataset |-> NoFile]
NoSeal == [repo |-> 0, draft |-> NoDraft, written |-> FALSE]

PilotVideos == Plan.videos
\* The ranked pilot is cut into the oracle's videos, the canary's, and the rest, which is
\* held out or for development; the cuts stand for 25 and 4 of 45.  The order is that of
\* another hash, and which one it is does not matter here.
Split == LET oracle == First(1, PilotVideos, rank)
             canary == First(2, PilotVideos, rank) \ oracle
         IN  [oracle |-> oracle, canary |-> canary,
              rest   |-> PilotVideos \ (oracle \cup canary)]

\* The groups share no video and leave none out: what E01 recomputes and compares.
SplitIsIsolated == /\ Split.oracle \cap Split.canary = {}
                   /\ UNION {Split.oracle, Split.canary, Split.rest} = PilotVideos

Quiet == run = Idle /\ job = NoJob
Complete(files) == \A k \in Kinds : files[k].there
\* The dataset manifest names the hash of the video manifest beside it.
Bound(files) == files["dataset"].videos = files["manifests"].videos

SealInit ==
    /\ job = NoJob /\ prep = NoFiles /\ audit = FALSE
    /\ results = NoFiles /\ gate = "none" /\ checked = {} /\ torn = FALSE
    /\ repo = 0 /\ draft = NoDraft /\ sealed = NoSeal /\ sealGate = FALSE

Init == PrepInit /\ SealInit

-----------------------------------------------------------------------------
\* `setup manifests` verifies the pilot against its identity records, as verify_only does.
\* Then it reads every video again, records what it finds, and writes.

BeginManifests ==
    /\ Quiet
    /\ VerifyOnly /\ report' = "VERIFIED"
    /\ job' = [NoJob EXCEPT !.pc = "rehash", !.todo = PilotVideos]
    /\ UNCHANGED <<prep, audit, results, gate, checked, torn, repo, draft, sealed, sealGate>>

NextVideo == CHOOSE v \in job.todo : TRUE
Present(v) == file[<<"video", v>>] # "absent" /\ file[<<"subtitle", v>>] # "absent"

\* verify_raw_videos: the hash found is not compared with any other.  What decayed and
\* can still be decoded is recorded as it is; what cannot be decoded ends the command.
Rehash ==
    /\ job.pc = "rehash" /\ job.todo # {}
    /\ LET v == NextVideo
           official == file[<<"video", v>>] = "official" IN
       \/ /\ Present(v)
          /\ job' = [job EXCEPT !.pc = IF job.todo = {v} THEN "manifests" ELSE @,
                                !.todo = @ \ {v},
                                !.found = @ \cup {w \in {v} : official},
                                !.slipped = @ \cup {w \in {v} : <<"video", w>> \in decayed}]
       \/ ~(Present(v) /\ official) /\ job' = NoJob
    /\ UNCHANGED <<prepVars, prep, audit, results, gate, checked, torn, repo, draft, sealed, sealGate>>

Content(kind) == IF kind \in {"reports", "manifests", "dataset"}
                 THEN [there |-> TRUE, videos |-> job.found, slipped |-> job.slipped]
                 ELSE [NoFile EXCEPT !.there = TRUE]

WriteArtifact ==
    /\ job.pc = "manifests"
    /\ LET kind == PrepFiles[job.next] IN prep' = [prep EXCEPT ![kind] = Content(kind)]
    /\ job' = IF job.next = Len(PrepFiles) THEN NoJob ELSE [job EXCEPT !.next = @ + 1]
    /\ UNCHANGED <<prepVars, audit, results, gate, checked, torn, repo, draft, sealed, sealGate>>

\* A human completes the audit of the pending manifest.
CompleteAudit ==
    /\ prep["source_gate"].there /\ ~audit
    /\ audit' = TRUE
    /\ UNCHANGED <<prepVars, job, prep, results, gate, checked, torn, repo, draft, sealed, sealGate>>

-----------------------------------------------------------------------------
\* E01.

CurrentVideos == {v \in PilotVideos : file[<<"video", v>>] = "official"}

AuditIsValid == audit

\* The hash is that of the raw report.  All damage is one value: other damage than the
\* one recorded passes here and is refused by the code.
HashAsRecorded(v) == /\ file[<<"video", v>>] # "absent"
                     /\ v \in prep["reports"].videos <=> v \in CurrentVideos

\* Mutant of E01Passes: the videos are not hashed again.
E01TakesTheReport ==
    Complete(prep) /\ AuditIsValid /\ SplitIsIsolated /\ Bound(prep)

\* Every artifact is there and the audit is complete; the selections and the dataset
\* manifest bind the video manifest; the videos are hashed again and compared with the raw
\* report, of the subtitles only the presence is asked for.
E01Passes ==
    /\ Complete(prep)
    /\ AuditIsValid /\ SplitIsIsolated
    /\ \A v \in PilotVideos : HashAsRecorded(v) /\ Present(v)
    /\ Bound(prep)

BeginE01 ==
    /\ Quiet /\ E01Passes
    /\ checked' = CurrentVideos
    /\ job' = [NoJob EXCEPT !.pc = "e01"]
    /\ UNCHANGED <<prepVars, prep, audit, results, gate, torn, repo, draft, sealed, sealGate>>

\* The copies follow one another; the last one is the pending gate, which is replaced
\* by the passed one in a step of its own.
CopyArtifact ==
    /\ job.pc = "e01" /\ job.next <= Len(PrepFiles)
    /\ LET kind == PrepFiles[job.next] IN
       /\ results' = [results EXCEPT ![kind] = prep[kind]]
       /\ gate' = IF kind = "source_gate" THEN "PENDING" ELSE gate
    /\ job' = [job EXCEPT !.next = @ + 1]
    /\ UNCHANGED <<prepVars, prep, audit, checked, torn, repo, draft, sealed, sealGate>>

PassSourceGate ==
    /\ job.pc = "e01" /\ job.next > Len(PrepFiles)
    /\ gate' = "PASS" /\ job' = NoJob /\ torn' = FALSE
    /\ UNCHANGED <<prepVars, prep, audit, results, checked, repo, draft, sealed, sealGate>>

-----------------------------------------------------------------------------
\* The Authority.

Frozen(version) == version >= FrozenAt

\* The draft takes what is in E01's results and the tree as it is; what is not FROZEN
\* stays unresolved.
WriteDraft ==
    /\ Quiet /\ results["manifests"].there /\ results["dataset"].there
    /\ draft' = [repo |-> repo, resolved |-> Frozen(repo), written |-> TRUE,
                 manifests |-> results["manifests"], dataset |-> results["dataset"]]
    /\ UNCHANGED <<prepVars, job, prep, audit, results, gate, checked, torn, repo, sealed, sealGate>>

\* probe_repository: the tree as it is now is the one the draft was made of.
SameTree == draft.repo = repo

\* The manifests hash as the draft says, the dataset manifest binds the video manifest, and
\* the split is one in which no group shares a video.
ManifestsBind == /\ results["manifests"].videos = draft.manifests.videos
                 /\ results["dataset"].videos = draft.dataset.videos
                 /\ Bound(results) /\ SplitIsIsolated

\* Mutant of DraftIsValid: the tree is not probed again.
DraftIsComplete == draft.written /\ draft.resolved /\ ManifestsBind

\* validate_authority_draft: no section is missing or mutable.
DraftIsValid == draft.written /\ draft.resolved /\ SameTree /\ ManifestsBind

\* E02 runs behind the source gate; the sealed file replaces an earlier one.
Seal ==
    /\ Quiet /\ gate = "PASS" /\ DraftIsValid
    /\ sealed' = [repo |-> repo, draft |-> draft, written |-> TRUE]
    /\ job' = [NoJob EXCEPT !.pc = "e02"]
    /\ UNCHANGED <<prepVars, prep, audit, results, gate, checked, torn, repo, draft, sealGate>>

WriteSealGate ==
    /\ job.pc = "e02" /\ sealGate' = TRUE /\ job' = NoJob
    /\ UNCHANGED <<prepVars, prep, audit, results, gate, checked, torn, repo, draft, sealed>>

\* Nothing reads the tree but a draft and the probe of it: edits between two drafts are one.
Edit ==
    /\ Quiet /\ draft.written /\ draft.repo = repo
    /\ repo < MaxEdits /\ repo' = repo + 1
    /\ UNCHANGED <<prepVars, job, prep, audit, results, gate, checked, torn, draft, sealed, sealGate>>

DieAtJob ==
    /\ job # NoJob /\ faults < MaxFaults
    /\ job' = NoJob /\ faults' = faults + 1
    /\ torn' = (torn \/ (job.pc = "e01" /\ gate = "PASS"))
    /\ UNCHANGED <<rank, mediaVars, planned, run, report>>
    /\ UNCHANGED <<prep, audit, results, gate, checked, repo, draft, sealed, sealGate>>

-----------------------------------------------------------------------------
Prepare == \/ PrepareStep \/ DiePreparing \/ Decay
           \/ job = NoJob /\ RestoreMetadata
           \/ job = NoJob /\ VerifyOnly
           \/ \E mode \in {"check", "resume"} : job = NoJob /\ BeginPrepare(mode)

JobStep == Rehash \/ WriteArtifact \/ CopyArtifact \/ PassSourceGate \/ WriteSealGate

Next == \/ Prepare /\ UNCHANGED sealVars
        \/ JobStep \/ DieAtJob
        \/ BeginManifests \/ CompleteAudit \/ BeginE01 \/ WriteDraft \/ Seal \/ Edit

\* Commands that started go on; the operator asks for the pilot and for what follows
\* it again until it is there.
Fairness ==
    /\ WF_vars(PrepareStep /\ UNCHANGED sealVars) /\ WF_vars(JobStep)
    /\ SF_vars(job = NoJob /\ RestoreMetadata /\ UNCHANGED sealVars)
    /\ SF_vars(job = NoJob /\ BeginPrepare("resume") /\ UNCHANGED sealVars)
    /\ SF_vars(BeginManifests) /\ WF_vars(CompleteAudit) /\ SF_vars(BeginE01)
    /\ SF_vars(WriteDraft) /\ SF_vars(Seal) /\ SF_vars(Edit)

Spec == Init /\ [][Next]_vars
FairSpec == Spec /\ Fairness

-----------------------------------------------------------------------------
\* The variables stay within their types.
TypeOK ==
    /\ PrepTypeOK
    /\ job.pc \in {"idle", "rehash", "manifests", "e01", "e02"}
    /\ {prep, results} \subseteq [Kinds -> [there : BOOLEAN, videos : SUBSET Videos,
                                           slipped : SUBSET Videos]]
    /\ gate \in {"none", "PENDING", "PASS"} /\ checked \subseteq Videos

\* When a command reports a scope as prepared or verified, every archive of the plan and
\* every selected medium is the official one, whatever transfers, deaths and decays came
\* before, but for what decayed since it began (prepare_videos).
PreparedIsOfficial ==
    report \in {"PREPARED", "VERIFIED"} =>
        /\ \A a \in Plan.archives : archive[a] = "official" \/ Archive(a) \in decayed
        /\ \A m \in Selected :
             \/ file[m] = "official" \/ m \in decayed
             \/ m[1] = "subtitle" /\ Metadata \in decayed

\* The pilot has as many videos as asked for, they lie in its archives, and each of its
\* archives is needed: prepare_e01 recomputes the archives from the videos and refuses a
\* selection with any other (select_pilot).
SelectionNeedsItsArchives ==
    /\ Cardinality(PilotOf[rank].videos) = Count
    /\ PilotOf[rank].archives = {ArchiveOf[v] : v \in PilotOf[rank].videos}

\* The command line only ever reports what is official, of a pilot of the right size.
PreparationIsSound == PreparedIsOfficial /\ SelectionNeedsItsArchives

\* A file of hashes has the official hash of every video of the pilot, but for those that
\* decayed after `setup manifests` had verified them and before it read them again.
Vouches(content) == PilotVideos \ content.slipped \subseteq content.videos

\* A passed Source Gate stands on a completed audit and on all artifacts, and its report and
\* its manifests vouch for the pilot.  Unless E01 is being repeated or died being repeated,
\* the report tells which videos were official when E01 looked, and the dataset manifest
\* binds the video manifest (prepare_e01).
SourceGateIsAudited ==
    gate = "PASS" => /\ audit /\ Complete(results)
                     /\ Vouches(results["reports"]) /\ Vouches(results["manifests"])
                     /\ (job.pc # "e01" /\ ~torn) =>
                          results["reports"].videos = checked /\ Bound(results)

\* What is sealed was drafted from frozen settings and the tree it is sealed with, behind a
\* source gate that rests on an audit, and from one video manifest, bound by its dataset
\* manifest, which vouches for the pilot (seal_authority).
SealedIsAudited ==
    sealed.written => /\ sealed.draft.resolved /\ sealed.draft.repo = sealed.repo
                      /\ audit /\ Vouches(sealed.draft.manifests)
                      /\ sealed.draft.dataset.videos = sealed.draft.manifests.videos

\* Each gate stands on what the gate before it stood on.
SealIsSound == TypeOK /\ SourceGateIsAudited /\ SealedIsAudited

\* An operator who keeps asking gets an Authority, unless a partial archive is refused:
\* deaths, short transfers and decays are made good by the next command.
AuthorityIsSealed == <>(sealGate \/ \E a \in Archives : Refused(a))

=============================================================================
