----------------------------- MODULE OracleDataset -----------------------------
(***************************************************************************)
(* The rows a router is trained on (router/dataset.py): how a row is made  *)
(* of a labelled state, which rows make a dataset, and its two files, the  *)
(* rows and the authority beside them.  A hash stands for what it is of,   *)
(* so the digest of a row is the row, and a manifest is its name.          *)
(***************************************************************************)
EXTENDS Naturals, Sequences, FiniteSets, Functions

CONSTANTS
    Writers,
    Studies,      \* the sets of labelled states that a build may write out
    Assignment,   \* manifest -> source video -> split
    MaxWrites     \* bound: writes begun

VARIABLES
    rows,      \* the file of rows, {} when it is not there
    sidecar,   \* the authority beside it
    writer     \* Writers -> what the process has still to write

datasetVars == <<rows, sidecar, writer>>

NoSidecar == [manifests |-> {}, normalizations |-> {}, digests |-> {}]

-----------------------------------------------------------------------------
\* _validate_task8_lineage, of the splits: all the videos of an example are in its split.
InOneSplit(x) ==
    \A v \in x.videos : Assignment[x.manifest][v] = Assignment[x.manifest][x.target]

\* seal_sufficiency_label: it is right to stop where the answer is the gold answer.
Sufficient(x) == x.stop = x.gold

\* The tie-break among the best paths: cost, then depth, then signature.
Cheapest(paths) ==
    CHOOSE p \in paths : \A q \in paths :
        \/ p.cost < q.cost
        \/ p.cost = q.cost /\ p.depth < q.depth
        \/ p.cost = q.cost /\ p.depth = q.depth /\ p.action <= q.action

\* materialize_oracle_record.  The id says of which state the row is, not how it is labelled.
\* The row has the target's video as its video; the example it holds has videos besides.
Record(x) ==
    [id |-> <<x.manifest, x.question, x.state>>, manifest |-> x.manifest, video |-> x.target,
     videos |-> x.videos, split |-> Assignment[x.manifest][x.target], normalization |-> x.normalization,
     action |-> Cheapest(x.optimal).action, toGo |-> Cheapest(x.optimal).cost,
     sufficient |-> Sufficient(x)]

\* Mutant of IsDataset: a video may be in two splits.
IsUniqueDataset(S) ==
    /\ S # {}
    /\ \A r, s \in S : r.normalization = s.normalization /\ (r.id = s.id => r = s)

\* OracleBCDataset.  Of the videos of an example it compares the target's only.
IsDataset(S) ==
    /\ S # {}
    /\ \A r, s \in S : /\ r.normalization = s.normalization
                       /\ r.id = s.id => r = s
                       /\ r.video = s.video => r.split = s.split

\* build_grouped_split: the rows of the train videos.
TrainRows(S) == {r \in S : r.split = "train"}

\* _build_dataset_authority.
SidecarOf(S) ==
    [manifests |-> {r.manifest : r \in S}, normalizations |-> {r.normalization : r \in S},
     digests |-> S]

\* The rows that the studies can yield, the datasets among their sets, and the sidecars
\* of these.
Records == {Record(x) : x \in {y \in UNION Studies : InOneSplit(y)}}
Datasets == {S \in SUBSET Records : IsDataset(S)}
Sidecars == {NoSidecar} \cup {SidecarOf(S) : S \in Datasets}

\* _inflate_stored_record: the row is the one the authority has the digest of, and the
\* authority has what the row was written without.
Inflates(r, authority) ==
    /\ r \in authority.digests
    /\ r.manifest \in authority.manifests
    /\ r.normalization \in authority.normalizations

\* Mutant of Loads: rows that are missing are not missed.
LoadsKnownRows(S, authority) ==
    S # {} /\ S \subseteq authority.digests /\ IsDataset(S)

\* load_oracle_records: the authority has the digests, manifests and normalizations of
\* these rows and of no others.
Loads(S, authority) ==
    /\ S # {} /\ authority # NoSidecar
    /\ \A r \in S : Inflates(r, authority)
    /\ {r.id : r \in authority.digests} = {r.id : r \in S}
    /\ authority.manifests = {r.manifest : r \in S}
    /\ authority.normalizations = {r.normalization : r \in S}
    /\ IsDataset(S)

-----------------------------------------------------------------------------
DatasetInit ==
    /\ rows = {} /\ sidecar = NoSidecar
    /\ writer = [w \in Writers |-> [at |-> "idle", records |-> {}, writes |-> 0]]

\* write_oracle_records: the records are validated, and the rows replace the file.
WriteRows(w) ==
    /\ writer[w].at = "idle" /\ writer[w].writes < MaxWrites
    /\ \E study \in Studies :
         LET made == {Record(x) : x \in study} IN
         /\ \A x \in study : InOneSplit(x)
         /\ IsDataset(made)
         /\ rows' = made
         /\ writer' = [writer EXCEPT ![w] = [at |-> "sidecar", records |-> made, writes |-> @.writes + 1]]
    /\ UNCHANGED sidecar

WriteSidecar(w) ==
    /\ writer[w].at = "sidecar"
    /\ sidecar' = SidecarOf(writer[w].records)
    /\ writer' = [writer EXCEPT ![w].at = "idle", ![w].records = {}]
    /\ UNCHANGED rows

\* The process dies between the two files.
WriterDies(w) ==
    /\ writer[w].at = "sidecar"
    /\ writer' = [writer EXCEPT ![w].at = "idle", ![w].records = {}]
    /\ UNCHANGED <<rows, sidecar>>
=============================================================================
