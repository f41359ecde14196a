-------------------------- MODULE VideoPreparation --------------------------
(***************************************************************************)
(* `setup videos`: the official media of Video-MME-v2 are planned,         *)
(* downloaded archive by archive, extracted and verified                   *)
(* (assets/videomme_v2.py).  Commands run one at a time and may die at any *)
(* step; files may decay at any time.  Sizes are counted in units.         *)
(***************************************************************************)
EXTENDS Naturals, FiniteSets, SequencesExt

CONSTANTS
    Archives,   \* the official ZIP files
    Videos,
    ArchiveOf,  \* the archive a video is a member of
    Rankings,   \* orders of the videos: the ranking by hash is one of them
    Count,      \* videos of the pilot
    Size,       \* bytes of an archive
    Margin,     \* DOWNLOAD_SAFETY_MARGIN_BYTES
    Capacity,   \* bytes of the volume
    MaxFaults   \* bounds transfers that go wrong, decays and deaths

ASSUME PreparationAssumption ==
    /\ IsFiniteSet(Archives) /\ IsFiniteSet(Videos)
    /\ ArchiveOf \in [Videos -> Archives]
    /\ \A r \in Rankings :
         r \in Seq(Videos) /\ Len(r) = Cardinality(Videos) /\ ToSet(r) = Videos
    /\ Count \in 1..Cardinality(Videos)
    /\ Size \in Nat \ {0} /\ {Margin, Capacity, MaxFaults} \subseteq Nat

VARIABLES
    rank,      \* the order of the videos' hashes
    metadata,  \* the pinned metadata snapshot, with the subtitles' ZIP
    archive,   \* the archives' final files
    partial,   \* their .partial siblings; an empty one stands for none
    file,      \* extracted media
    record,    \* their identity records: what the record vouches for
    planned,   \* whether the download plan is on disk
    run,       \* the command at work
    report,    \* what the last command returned
    decayed,   \* what decayed since the last command began
    faults

mediaVars == <<metadata, archive, partial, file, record, decayed>>
prepVars == <<rank, mediaVars, planned, run, report, faults>>

Media == {"video", "subtitle"} \X Videos
Idle == [pc |-> "idle", todo |-> {}, checked |-> {}, media |-> {}]
Metadata == <<"metadata", 0>>
Archive(a) == <<"archive", a>>
NoPartial == [size |-> 0, good |-> TRUE]

Members(a) == {v \in Videos : ArchiveOf[v] = a}

-----------------------------------------------------------------------------
\* The pilot: the full scope differs in that it plans everything.

First(n, S, ranking) == {v \in S : \E i \in DOMAIN ranking :
                           /\ ranking[i] = v
                           /\ Cardinality({j \in 1..i : ranking[j] \in S}) <= n}

\* A video whose turn comes while too few are covered takes its whole archive along.
CoveredBy(ranking) ==
    LET Along(I) == UNION {Members(ArchiveOf[ranking[i]]) : i \in I}
    IN  Along({i \in DOMAIN ranking : Cardinality(Along(1..(i - 1))) < Count})

\* Mutant of SelectPilot: the best videos, wherever they are.
SelectBest(ranking) == [archives |-> {ArchiveOf[v] : v \in CoveredBy(ranking)},
                        videos   |-> First(Count, Videos, ranking)]

SelectPilot(ranking) == [archives |-> {ArchiveOf[v] : v \in CoveredBy(ranking)},
                         videos   |-> First(Count, CoveredBy(ranking), ranking)]

PilotOf == [ranking \in Rankings |-> SelectPilot(ranking)]

Plan == PilotOf[rank]
Selected == {"video", "subtitle"} \X Plan.videos

-----------------------------------------------------------------------------
\* What is on disk.

\* A partial that no resumption can repair: planning raises until it is removed.
Refused(a) == /\ archive[a] # "official"
              /\ \/ partial[a].size > Size
                 \/ partial[a].size = Size /\ ~partial[a].good

RemainingBytes(archives) ==
    MapThenSumSet(LAMBDA a : IF archive[a] = "official" THEN 0 ELSE Size - partial[a].size,
                  archives)

RequiredBytes ==
    RemainingBytes(Plan.archives) + Cardinality(Plan.videos) + Margin

UsedBytes ==
    MapThenSumSet(LAMBDA a : partial[a].size + (IF archive[a] = "absent" THEN 0 ELSE Size),
                  Archives)
        + Cardinality({v \in Videos : file[<<"video", v>>] # "absent"})

HasCapacity == UsedBytes + RequiredBytes <= Capacity

\* Mutant of RecordMatches: the file is not hashed again.
RecordExists(m) == file[m] # "absent" /\ record[m] = "official"

\* An identity record matches its source and the file beside it.
RecordMatches(m) == /\ file[m] = "official" /\ record[m] = "official"
                    /\ m[1] = "subtitle" => metadata = "pinned"

PreparedFilesVerify ==
    /\ \A a \in Plan.archives : archive[a] = "official"
    /\ \A m \in Selected : RecordMatches(m)

\* Mutant of PlanLoads: a partial is not resumed.
PlanLoadsAfresh == metadata = "pinned" /\ \A a \in Plan.archives : partial[a] = NoPartial

\* What `_load_preparation_state` and `_build_download_plan` need in order to return.
PlanLoads == metadata = "pinned" /\ \A a \in Plan.archives : ~Refused(a)

-----------------------------------------------------------------------------
PrepInit ==
    /\ rank \in Rankings
    /\ metadata = "pinned"
    /\ archive = [a \in Archives |-> "absent"]
    /\ partial = [a \in Archives |-> NoPartial]
    /\ file = [m \in Media |-> "absent"] /\ record = [m \in Media |-> "none"]
    /\ planned = FALSE /\ run = Idle /\ report = "none"
    /\ decayed = {} /\ faults = 0

Raise == run' = Idle

\* A command begins: the plan is loaded or made anew, and checked against the volume.
\* A command that is refused here changes nothing but what was last reported.
BeginPrepare(mode) ==
    /\ run = Idle
    /\ PlanLoads /\ HasCapacity
    /\ planned' = TRUE
    /\ IF mode = "check"
       THEN run' = Idle
       ELSE run' = [pc |-> "download", todo |-> Plan.archives,
                    checked |-> {}, media |-> Selected]
    /\ report' = "none"   \* CHECKED says nothing of the files
    /\ decayed' = {}
    /\ UNCHANGED <<rank, metadata, archive, partial, file, record, faults>>

\* verify_only reads, and returns or raises.
VerifyOnly ==
    /\ run = Idle
    /\ decayed' = {}
    /\ report' = IF planned /\ PlanLoads /\ PreparedFilesVerify
                 THEN "VERIFIED" ELSE "none"
    /\ UNCHANGED <<rank, metadata, archive, partial, file, record, planned, run, faults>>

Working(pc) == run.pc = pc

NextArchive == CHOOSE a \in run.todo : TRUE

\* A final file with the official hash is reused.
ReuseArchive ==
    /\ Working("download") /\ run.todo # {} /\ archive[NextArchive] = "official"
    /\ run' = [run EXCEPT !.todo = @ \ {NextArchive}]
    /\ UNCHANGED <<rank, mediaVars, planned, report, faults>>

\* The getter appends to what is there.  It may stop short, deliver too much or
\* other bytes; the size and then the hash are looked at.
Transfer ==
    /\ Working("download") /\ run.todo # {}
    /\ LET a == NextArchive IN
       /\ archive[a] # "official" /\ partial[a].size < Size
       /\ \E size \in partial[a].size..(Size + 1), good \in BOOLEAN :
            LET asAsked == size = Size /\ good = partial[a].good IN
            /\ good => partial[a].good
            /\ asAsked \/ faults < MaxFaults
            /\ faults' = IF asAsked THEN faults ELSE faults + 1
            /\ partial' = [partial EXCEPT ![a] = [size |-> size, good |-> good]]
            /\ IF size = Size /\ good THEN UNCHANGED run ELSE Raise
    /\ UNCHANGED <<rank, metadata, archive, file, record, decayed, planned, report>>

\* A complete partial with the official hash replaces the final file.
PublishArchive ==
    /\ Working("download") /\ run.todo # {}
    /\ LET a == NextArchive IN
       /\ archive[a] # "official" /\ partial[a].size = Size /\ partial[a].good
       /\ archive' = [archive EXCEPT ![a] = "official"]
       /\ partial' = [partial EXCEPT ![a] = NoPartial]
       /\ decayed' = decayed \ {Archive(a)}
       /\ run' = [run EXCEPT !.todo = @ \ {a}]
    /\ UNCHANGED <<rank, metadata, file, record, planned, report, faults>>

StartExtraction ==
    /\ Working("download") /\ run.todo = {}
    /\ run' = [run EXCEPT !.pc = "extract"]
    /\ UNCHANGED <<rank, mediaVars, planned, report, faults>>

\* Videos come before subtitles.
NextMedium == CHOOSE m \in run.media : m[1] = "video" \/ \A n \in run.media : n[1] = "subtitle"

Extracting == Working("extract") /\ run.media # {}
SourceChecked(m) == m[1] = "subtitle" \/ ArchiveOf[m[2]] \in run.checked

\* The archive is hashed before the first of its members is extracted.
CheckArchive ==
    /\ Extracting /\ ~SourceChecked(NextMedium)
    /\ LET a == ArchiveOf[NextMedium[2]] IN
       IF archive[a] = "official" THEN run' = [run EXCEPT !.checked = @ \cup {a}] ELSE Raise
    /\ UNCHANGED <<rank, mediaVars, planned, report, faults>>

ReuseMedium ==
    /\ Extracting /\ SourceChecked(NextMedium) /\ RecordMatches(NextMedium)
    /\ run' = [run EXCEPT !.media = @ \ {NextMedium}]
    /\ UNCHANGED <<rank, mediaVars, planned, report, faults>>

\* A member is read under its CRC into a temporary file that replaces the medium.
Extract ==
    /\ Extracting /\ SourceChecked(NextMedium) /\ ~RecordMatches(NextMedium)
    /\ LET m == NextMedium IN
       IF m[1] = "video" /\ archive[ArchiveOf[m[2]]] # "official"
       THEN Raise /\ UNCHANGED <<file, decayed>>
       ELSE /\ decayed' = decayed \ {m}
            /\ file' = [file EXCEPT ![m] = IF m[1] = "video" \/ metadata = "pinned"
                                           THEN "official" ELSE "damaged"]
            /\ run' = [run EXCEPT !.pc = "record"]
    /\ UNCHANGED <<rank, metadata, archive, partial, record, planned, report, faults>>

\* The identity record names the source that was hashed and the bytes that were written.
WriteRecord ==
    /\ Working("record")
    /\ LET m == NextMedium IN
       /\ record' = [record EXCEPT ![m] = IF file[m] = "official" \/ m \in decayed
                                          THEN "official" ELSE "other"]
       /\ run' = [run EXCEPT !.pc = "extract", !.media = @ \ {m}]
    /\ UNCHANGED <<rank, metadata, archive, partial, file, decayed, planned, report, faults>>

FinishPrepare ==
    /\ Working("extract") /\ run.media = {}
    /\ report' = "PREPARED"
    /\ run' = Idle
    /\ UNCHANGED <<rank, mediaVars, planned, faults>>

\* The process dies: nothing is held but the files.
DiePreparing ==
    /\ run # Idle /\ faults < MaxFaults
    /\ run' = Idle /\ faults' = faults + 1
    /\ UNCHANGED <<rank, mediaVars, planned, report>>

-----------------------------------------------------------------------------
\* The world: what is on disk decays, and the operator fetches the metadata again.

Decay ==
    /\ faults < MaxFaults /\ faults' = faults + 1
    /\ \/ \E a \in Archives : /\ archive[a] = "official"
                              /\ archive' = [archive EXCEPT ![a] = "damaged"]
                              /\ decayed' = decayed \cup {Archive(a)}
                              /\ UNCHANGED <<metadata, file>>
       \/ \E m \in Media : /\ file[m] = "official"
                           /\ file' = [file EXCEPT ![m] = "damaged"]
                           /\ decayed' = decayed \cup {m}
                           /\ UNCHANGED <<metadata, archive>>
       \/ /\ metadata = "pinned" /\ metadata' = "edited"
          /\ decayed' = decayed \cup {Metadata}
          /\ UNCHANGED <<archive, file>>
    /\ UNCHANGED <<rank, partial, record, planned, run, report>>

RestoreMetadata ==
    /\ metadata = "edited" /\ run = Idle
    /\ metadata' = "pinned"
    /\ UNCHANGED <<rank, archive, partial, file, record, decayed, planned, run, report, faults>>

PrepareStep ==
    \/ ReuseArchive \/ Transfer \/ PublishArchive \/ StartExtraction
    \/ CheckArchive \/ ReuseMedium \/ Extract \/ WriteRecord \/ FinishPrepare

\* The variables of the preparation stay within their types.
PrepTypeOK ==
    /\ metadata \in {"pinned", "edited"}
    /\ archive \in [Archives -> {"absent", "official", "damaged"}]
    /\ partial \in [Archives -> [size : 0..(Size + 1), good : BOOLEAN]]
    /\ file \in [Media -> {"absent", "official", "damaged"}]
    /\ record \in [Media -> {"none", "official", "other"}]
    /\ planned \in BOOLEAN
    /\ run.pc \in {"idle", "download", "extract", "record"}
    /\ report \in {"none", "PREPARED", "VERIFIED"}

=============================================================================
